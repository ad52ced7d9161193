------------------------------- MODULE Outbox -------------------------------
(***************************************************************************)
(* What the messaging hub promises of the status of a message it was asked *)
(* to send: it moves forward.  A message waits, is handed to a radio, and  *)
(* is settled; what is settled is never waiting or in the air again, and   *)
(* what was given up while it waited stays given up.                       *)
(***************************************************************************)
CONSTANT Messages

VARIABLE status

Settled == {"delivered", "delivery_failed", "propagated", "read", "timeout"}

Given == {"failed", "expired", "broadcast_sent"}

(* The statuses that may follow s.  A late acknowledgement or receipt may
   still correct what is settled; only a deletion follows what is given up. *)
Following(s) ==
    CASE s = "none" -> {"queued", "sent", "failed"}
      [] s = "queued" -> {"sent", "failed", "expired", "deleted"}
      [] s = "sent" -> Settled \cup {"broadcast_sent", "deleted"}
      [] s \in Settled -> (Settled \ {"timeout"}) \cup {"deleted"}
      [] s \in Given -> {"deleted"}
      [] OTHER -> {}

OutboxInit == status = [m \in Messages |-> "none"]

(* Some messages move on; a step of the hub may settle several. *)
Advance ==
    /\ DOMAIN status' = Messages
    /\ \A m \in Messages : status'[m] = status[m] \/ status'[m] \in Following(status[m])

OutboxSpec == OutboxInit /\ [][Advance]_status
=============================================================================
