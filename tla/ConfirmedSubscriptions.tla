------------------------ MODULE ConfirmedSubscriptions ------------------------
(***************************************************************************)
(* What the webhook pipeline promises of a subscription's status: it only  *)
(* changes by taking the status of an event the gateway announced for that *)
(* subscription, and no event is taken twice.                              *)
(***************************************************************************)
EXTENDS Integers, Sequences

CONSTANTS Sub, None

VARIABLES
  announced,   \* the gateway's events, in the order it created them
  status,      \* the status of each subscription, "absent" until stored
  settled      \* the events that have been taken

vars == <<announced, status, settled>>

Init ==
  /\ announced = <<>>
  /\ status = [s \in Sub |-> "absent"]
  /\ settled = {}

\* The past of the gateway never changes.
Announce ==
  /\ Len(announced') > Len(announced)
  /\ \A i \in 1 .. Len(announced) : announced'[i] = announced[i]
  /\ UNCHANGED <<status, settled>>

Store(s) ==
  /\ status[s] = "absent"
  /\ status' = [status EXCEPT ![s] = "INCOMPLETE"]
  /\ UNCHANGED <<announced, settled>>

Take(e) ==
  /\ e \notin settled
  /\ announced[e].status # None
  /\ status[announced[e].sub] # "absent"
  /\ status' = [status EXCEPT ![announced[e].sub] = announced[e].status]
  /\ settled' = settled \cup {e}
  /\ UNCHANGED announced

Next ==
  \/ Announce
  \/ \E s \in Sub : Store(s)
  \/ \E e \in 1 .. Len(announced) : Take(e)

Spec == Init /\ [][Next]_vars
=============================================================================
