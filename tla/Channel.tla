------------------------------ MODULE Channel ------------------------------
(***************************************************************************)
(* What the callers of send_data() and receive_data() take a connection to *)
(* be: a channel of messages.  One call sends a message, one call receives *)
(* it, whole and in turn.  They may count on it as long as they keep to    *)
(* the rules (ok); nothing is promised once they have not.                 *)
(***************************************************************************)
EXTENDS Naturals, Sequences

CONSTANT Message

VARIABLES ok, sent, got

vars == <<ok, sent, got>>

Init == ok = TRUE /\ sent = <<>> /\ got = <<>>

Put ==
  /\ ok /\ ok' = TRUE
  /\ Len(sent) = Len(got)
  /\ sent' # <<>> /\ sent'[Len(sent')] \in Message
  /\ sent' = Append(sent, sent'[Len(sent')])
  /\ UNCHANGED got

Get ==
  /\ ok /\ ok' = TRUE
  /\ Len(got) < Len(sent)
  /\ got' = Append(got, sent[Len(got) + 1])
  /\ UNCHANGED sent

(* A rule is broken, now or before. *)
Break == ok' = FALSE

Next == Put \/ Get \/ Break

Spec == Init /\ [][Next]_vars

(* What was sent by the rules is received, unless a rule is broken later. *)
FairSpec == Spec /\ WF_vars(Get)
=============================================================================
