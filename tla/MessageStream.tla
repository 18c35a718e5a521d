--------------------------- MODULE MessageStream ---------------------------
(***************************************************************************)
(* One direction of a connection of TCPSocket: send_data() at one end, the *)
(* stream of TCP, and at the other end receive_data() with its loop of     *)
(* reads and the peek that is to find the end of a message.                *)
(*                                                                         *)
(* Bytes are told apart by their position in the stream; a message, and    *)
(* what a call of receive_data() returns, is an interval of positions.     *)
(***************************************************************************)
EXTENDS Naturals, Sequences

CONSTANTS
  Buffer,     \* buffer_size of receive_data()
  Lengths,    \* lengths of messages
  MaxMsgs     \* bound: messages sent

ASSUME BufferAssumption == Buffer \in Nat \ {0}
ASSUME LengthsAssumption == Lengths \subseteq Nat \ {0}
ASSUME MaxMsgsAssumption == MaxMsgs \in Nat

VARIABLES
  msgs,      \* the messages sent
  sent,      \* bytes the sender's system has taken
  arrived,   \* bytes the receiver's system has
  peer,      \* the sender's end: "open", "closed" or "reset"
  blocking,  \* mode of the receiving socket
  pc,        \* where receive_data() is, "idle" between two calls
  from,      \* the position this call began at
  pos,       \* the position up to which bytes were taken
  log,       \* what the calls returned, or took and did not return
  calm       \* history: the rules of the channel were kept, see Good

vars == <<msgs, sent, arrived, peer, blocking, pc, from, pos, log, calm>>

Interval == [from : Nat, to : Nat]
Fates == {"returned", "lost"}

Multiple(n) == \E k \in 0..n : n = k * Buffer

(* The rules: a message is sent when the one before was received, its length is
   no multiple of the buffer's, the system takes all of it, and it arrives in
   one piece. *)
Good(n) == ~Multiple(n)

Init ==
  /\ msgs = <<>> /\ sent = 0 /\ arrived = 0 /\ peer = "open"
  /\ blocking \in BOOLEAN
  /\ pc = "idle" /\ from = 0 /\ pos = 0
  /\ log = <<>>
  /\ calm = TRUE

receiver == <<blocking, pc, from, pos, log>>

-----------------------------------------------------------------------------
(* The sender and the stream. *)

(* send_data(): on a non-blocking socket the system may take a part of the
   message only, and no caller looks at the number that is returned. *)
Send(n) ==
  /\ peer = "open" /\ Len(msgs) < MaxMsgs
  /\ msgs' = Append(msgs, [from |-> sent, to |-> sent + n])
  /\ \E taken \in 1..n :
       /\ sent' = sent + taken
       /\ calm' = (calm /\ Len(log) = Len(msgs) /\ Good(n) /\ taken = n)
  /\ UNCHANGED <<arrived, peer, receiver>>

Arrive ==
  /\ arrived < sent
  /\ \E n \in (arrived + 1)..sent : arrived' = n /\ calm' = (calm /\ n = sent)
  /\ UNCHANGED <<msgs, sent, peer, receiver>>

Close ==
  /\ peer = "open"
  /\ peer' = "closed"
  /\ UNCHANGED <<msgs, sent, arrived, receiver, calm>>

(* What is on its way is lost, all of it or what comes after some byte. *)
Reset ==
  /\ peer = "open"
  /\ peer' = "reset"
  /\ \E n \in arrived..sent : sent' = n
  /\ calm' = FALSE
  /\ UNCHANGED <<msgs, arrived, receiver>>

environment == <<msgs, sent, arrived, peer>>

-----------------------------------------------------------------------------
(* The receiver. *)

Least(a, b) == IF a < b THEN a ELSE b

Waiting == arrived - pos
Over == peer # "open" /\ arrived = sent

(* Others wait in the call; the server calls after select(), which may report
   data that the system then discards. *)
Call ==
  /\ pc = "idle"
  /\ pc' = "recv" /\ from' = pos
  /\ UNCHANGED <<environment, blocking, pos, log, calm>>

SetMode ==
  /\ pc = "idle"
  /\ blocking' = ~blocking
  /\ UNCHANGED <<environment, pc, from, pos, log, calm>>

Return(to, place) ==
  /\ log' = Append(log, [from |-> from, to |-> to, fate |-> "returned"])
  /\ pc' = place

(* Faulty variant: the first read ends the message. *)
RecvOnce ==
  LET n == Least(Buffer, Waiting) IN
  /\ pc = "recv" /\ Waiting > 0
  /\ pos' = pos + n
  /\ Return(pos + n, "idle")
  /\ UNCHANGED <<environment, blocking, from, calm>>

(* Faulty variant: every read is followed by a peek. *)
RecvAlwaysPeeks ==
  /\ pc = "recv" /\ Waiting > 0
  /\ pos' = pos + Least(Buffer, Waiting)
  /\ pc' = "peek"
  /\ UNCHANGED <<environment, blocking, from, log, calm>>

(* Faulty variant: every read is taken to have filled the buffer. *)
RecvWholeBuffer ==
  /\ pc = "recv" /\ Waiting > 0
  /\ pos' = pos + Buffer
  /\ pc' = "peek"
  /\ UNCHANGED <<environment, blocking, from, log, calm>>

(* A read that does not fill the buffer ends the message; one that does is
   followed by a peek. *)
Recv ==
  LET n == Least(Buffer, Waiting) IN
  /\ pc = "recv" /\ Waiting > 0
  /\ pos' = pos + n
  /\ IF n < Buffer THEN Return(pos + n, "idle") ELSE pc' = "peek" /\ UNCHANGED log
  /\ UNCHANGED <<environment, blocking, from, calm>>

(* Faulty variant: the buffer that was peeked at is read away. *)
PeekTakes ==
  /\ pc = "peek" /\ Waiting > 0
  /\ pos' = pos + Least(Buffer, Waiting)
  /\ from' = pos + Least(Buffer, Waiting)
  /\ pc' = "recv"
  /\ UNCHANGED <<environment, blocking, log, calm>>

Peek ==
  /\ pc = "peek" /\ Waiting > 0
  /\ pc' = "recv"
  /\ UNCHANGED <<environment, blocking, from, pos, log, calm>>

(* An exception leaves the call, and with it goes what the call has read. *)
Throw(place) ==
  /\ pc' = place
  /\ log' = IF pos = from THEN log
            ELSE Append(log, [from |-> from, to |-> pos, fate |-> "lost"])
  /\ UNCHANGED <<environment, blocking, from, pos, calm>>

(* Nothing is there yet: WouldBlockError, or, in the loop, what was read. *)
RecvWouldBlock ==
  /\ pc = "recv" /\ Waiting = 0 /\ ~Over /\ ~blocking
  /\ IF pos > from
     THEN Return(pos, "idle") /\ UNCHANGED <<environment, blocking, from, pos, calm>>
     ELSE Throw("idle")

(* The peek is a call of its own that has read nothing, so that its
   WouldBlockError leaves the first call too. *)
PeekWouldBlock ==
  /\ pc = "peek" /\ Waiting = 0 /\ ~Over /\ ~blocking
  /\ Throw("idle")

(* The end of the stream: what was read is returned, or the connection is
   closed; a reset is an error in any case. *)
RecvEnd ==
  /\ pc = "recv" /\ Waiting = 0 /\ Over
  /\ IF peer = "closed" /\ pos > from
     THEN Return(pos, "idle") /\ UNCHANGED <<environment, blocking, from, pos, calm>>
     ELSE Throw("ended")

PeekEnd ==
  /\ pc = "peek" /\ Waiting = 0 /\ Over
  /\ Throw("ended")

-----------------------------------------------------------------------------

Receive == Call \/ Recv \/ Peek \/ RecvWouldBlock \/ PeekWouldBlock \/ RecvEnd \/ PeekEnd

Next ==
  \/ \E n \in Lengths : Send(n)
  \/ Arrive \/ Close \/ Reset
  \/ SetMode
  \/ Receive

Spec == Init /\ [][Next]_vars

(* TCP delivers what it has taken, and the receiver keeps calling. *)
FairSpec == Spec /\ WF_vars(Arrive) /\ WF_vars(Receive)

-----------------------------------------------------------------------------
Outcome == [from : Nat, to : Nat, fate : Fates]

TypeOK ==
  /\ msgs \in Seq(Interval) /\ log \in Seq(Outcome)
  /\ sent \in Nat /\ arrived \in 0..sent /\ pos \in 0..arrived /\ from \in 0..pos
  /\ peer \in {"open", "closed", "reset"}
  /\ blocking \in BOOLEAN /\ calm \in BOOLEAN
  /\ pc \in {"idle", "recv", "peek", "ended"}

(* However messages are cut and joined, whatever is peeked at and whichever
   exceptions leave the loop, the calls take the stream piece by piece in order:
   each takes up where the one before ended, no byte is returned twice and none
   is skipped unseen. *)
InOrder ==
  /\ \A i \in DOMAIN log :
       /\ log[i].from < log[i].to
       /\ log[i].from = IF i = 1 THEN 0 ELSE log[i - 1].to
  /\ LET last == IF log = <<>> THEN 0 ELSE log[Len(log)].to
     IN IF pc \in {"recv", "peek"} THEN from = last ELSE pos = last

(* Bytes that were read are lost to the caller only after reads that filled the
   buffer: the exception of a peek, or a reset, drops a whole number of
   buffers. *)
LossesFillBuffers ==
  \A i \in DOMAIN log : log[i].fate = "lost" => Multiple(log[i].to - log[i].from)

(* The connection is the channel of messages its callers take it for, as long as
   they keep to the rules: the loop puts a message of several buffers together
   again, ends it where it ended and returns it once. *)
Got == [i \in DOMAIN log |-> [from |-> log[i].from, to |-> log[i].to]]

Messages == INSTANCE Channel WITH
  Message <- Interval, ok <- calm, sent <- msgs, got <- Got

IsChannel == Messages!FairSpec
=============================================================================
