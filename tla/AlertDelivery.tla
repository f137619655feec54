---------------------------- MODULE AlertDelivery -----------------------------
(***************************************************************************)
(* What alert batching promises to the monitors that hand it events, with  *)
(* no timers and no threads: an accepted event ends in at most one mail,   *)
(* every mail is about one kind of event, and nothing is mailed that was   *)
(* not accepted.  Events are lost only when a mail cannot be sent or the   *)
(* process stops.                                                          *)
(***************************************************************************)
CONSTANTS Alerts, Kinds, KindOf

VARIABLES
  queued,   \* accepted, in no mail yet
  mails,    \* the mails sent: a set of sets of alerts
  lost      \* never to be mailed

delivery == <<queued, mails, lost>>

Mailed == UNION mails

Init == queued = {} /\ mails = {} /\ lost = {}

Accept(e) ==
  /\ e \notin queued \union Mailed \union lost
  /\ queued' = queued \union {e}
  /\ UNCHANGED <<mails, lost>>

Batch(b) ==
  /\ b # {}
  /\ b \subseteq queued
  /\ \E k \in Kinds : \A e \in b : KindOf[e] = k

Mail(b) ==
  /\ Batch(b)
  /\ queued' = queued \ b
  /\ mails' = mails \union {b}
  /\ UNCHANGED lost

Lose(b) ==
  /\ b \subseteq queued
  /\ queued' = queued \ b
  /\ lost' = lost \union b
  /\ UNCHANGED mails

Next ==
  \/ \E e \in Alerts : Accept(e)
  \/ \E b \in SUBSET Alerts : Mail(b) \/ Lose(b)

Spec == Init /\ [][Next]_delivery
===============================================================================
