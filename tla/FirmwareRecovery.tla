-------------------------- MODULE FirmwareRecovery --------------------------
(***************************************************************************)
(* The firmware watchdog of the Meshtastic radio (builtin_plugins/         *)
(* meshtastic_gateway.py).  A radio that does not answer is rebooted by a  *)
(* command (soft) or by a reset of its USB port (hard); the reset is then  *)
(* pending until the radio was reopened and has answered a probe.  A soft  *)
(* reset that did not help is followed by one hard reset, and every reset  *)
(* is first reserved from the durable limiter.                             *)
(*                                                                         *)
(* Two threads act: the loop that owns the serial interface and a manual   *)
(* reset.  The opening of the interface is in MeshtasticSerial; here it is *)
(* an outcome.                                                             *)
(***************************************************************************)
EXTENDS Integers

CONSTANTS
    AutoReset,       \* firmware_watchdog.auto_reset
    UsbReset,        \* firmware_watchdog.usb_power_cycle
    OpenThreshold,   \* open_failure_threshold
    MaxResets,       \* what the limiter allows within the behaviour
    MaxEpochs        \* bound on recoveries

VARIABLES
    recPending,      \* _fw_recovery_pending
    recAttempting,   \* _fw_recovery_attempting
    recEpoch,        \* _fw_recovery_epoch
    recMethod,       \* _fw_recovery_method
    recEscalated,    \* _fw_recovery_hard_escalated
    recLock,         \* the holder of _fw_recovery_operation_lock
    reserved,        \* reservations made with the limiter
    actuated,        \* resets issued in this epoch
    openTimeouts,    \* _fw_consecutive_open_failures
    fwState,         \* _fw_recovery_state
    answered,        \* the radio has answered since the last reset
    serialUp,        \* the owner has a current interface
    thread           \* where the owner and the manual reset are

recVars == <<recPending, recAttempting, recEpoch, recMethod, recEscalated, recLock, reserved,
             actuated, openTimeouts, fwState, answered, serialUp, thread>>

RecThreads == {"owner", "manual"}

(* Where a thread goes when its attempt is over *)
Home(t) == IF t = "owner" THEN "reopen" ELSE "idle"

RecInit ==
    /\ recPending = FALSE /\ recAttempting = FALSE /\ recEpoch = 0
    /\ recMethod = "none" /\ recEscalated = FALSE /\ recLock = "none"
    /\ reserved = 0 /\ actuated = 0 /\ openTimeouts = 0
    /\ fwState = "healthy" /\ answered = FALSE /\ serialUp = FALSE
    /\ thread = [t \in RecThreads |-> [pc |-> Home(t), epoch |-> 0]]

At(t, label) == thread' = [thread EXCEPT ![t].pc = label]

Allowed == reserved < MaxResets

-----------------------------------------------------------------------------
(* The watchdog and a manual reset ask for a recovery *)

(* _check_firmware_watchdog with an answer, a NAK or an inconclusive probe *)
WatchdogQuiet ==
    /\ thread["owner"].pc = "watch" /\ serialUp /\ ~ recPending
    /\ fwState' \in {"healthy", "suspect", "degraded"}
    /\ UNCHANGED <<recPending, recAttempting, recEpoch, recMethod, recEscalated, recLock, reserved,
                   actuated, openTimeouts, answered, serialUp, thread>>

(* The loop is left without a recovery of its own: one is pending or under
   way, resets are off or used up, or the interface is gone.               *)
WatchdogLeaves ==
    /\ thread["owner"].pc = "watch"
    /\ ~ serialUp \/ recPending \/ recAttempting \/ ~ AutoReset \/ ~ Allowed
    /\ At("owner", "reopen") /\ serialUp' = FALSE
    /\ fwState' = IF AutoReset /\ ~ Allowed THEN "degraded" ELSE fwState
    /\ UNCHANGED <<recPending, recAttempting, recEpoch, recMethod, recEscalated, recLock, reserved,
                   actuated, openTimeouts, answered>>

(* _handle_firmware_hang; a broken transport allows no soft reset. *)
WatchdogHang ==
    /\ thread["owner"].pc = "watch" /\ serialUp
    /\ ~ recPending /\ ~ recAttempting /\ AutoReset /\ Allowed
    /\ fwState' = "confirmed_hung"
    /\ \E next \in {"claim_soft", "claim_hard"} : At("owner", next)
    /\ UNCHANGED <<recPending, recAttempting, recEpoch, recMethod, recEscalated, recLock, reserved,
                   actuated, openTimeouts, answered, serialUp>>

(* reset_device *)
ManualReset ==
    /\ thread["manual"].pc = "idle" /\ ~ recPending /\ ~ recAttempting
    /\ At("manual", IF serialUp THEN "claim_soft" ELSE "claim_hard")
    /\ UNCHANGED <<recPending, recAttempting, recEpoch, recMethod, recEscalated, recLock, reserved,
                   actuated, openTimeouts, fwState, answered, serialUp>>

(* Mutant of Claim: a pending recovery does not keep a new one out. *)
ClaimPending(t) ==
    /\ thread[t].pc \in {"claim_soft", "claim_hard"} /\ recEpoch < MaxEpochs
    /\ recLock = "none" /\ ~ recAttempting
    /\ recLock' = t /\ recAttempting' = TRUE
    /\ recEpoch' = recEpoch + 1 /\ recMethod' = "none" /\ recEscalated' = FALSE /\ actuated' = 0
    /\ At(t, IF thread[t].pc = "claim_soft" THEN "soft" ELSE "hard")
    /\ UNCHANGED <<recPending, reserved, openTimeouts, fwState, answered, serialUp>>

(* _claim_recovery_attempt: one attempt at a time, under a new epoch *)
Claim(t) ==
    /\ thread[t].pc \in {"claim_soft", "claim_hard"} /\ recEpoch < MaxEpochs
    /\ recLock = "none" /\ ~ recPending /\ ~ recAttempting
    /\ recLock' = t /\ recAttempting' = TRUE
    /\ recEpoch' = recEpoch + 1 /\ recMethod' = "none" /\ recEscalated' = FALSE /\ actuated' = 0
    /\ At(t, IF thread[t].pc = "claim_soft" THEN "soft" ELSE "hard")
    /\ UNCHANGED <<recPending, reserved, openTimeouts, fwState, answered, serialUp>>

ClaimRefused(t) ==
    /\ thread[t].pc \in {"claim_soft", "claim_hard"}
    /\ recLock # "none" \/ recPending \/ recAttempting
    /\ At(t, Home(t))
    /\ fwState' = IF t = "owner" THEN "degraded" ELSE fwState
    /\ UNCHANGED <<recPending, recAttempting, recEpoch, recMethod, recEscalated, recLock, reserved,
                   actuated, openTimeouts, answered, serialUp>>

-----------------------------------------------------------------------------
(* The attempt, under the operation lock *)

(* _begin_pending_recovery and the release of the lock; the manual reset
   still has to detach the interface (_cleanup_after_reset).               *)
Issued(t, method) ==
    /\ reserved' = reserved + 1 /\ actuated' = actuated + 1 /\ answered' = FALSE
    /\ recPending' = TRUE /\ recMethod' = method
    /\ recAttempting' = FALSE /\ recLock' = "none"
    /\ fwState' = IF method = "soft" THEN "soft_reset_issued" ELSE "hard_reset_issued"
    /\ At(t, IF t = "owner" THEN "reopen" ELSE "cleanup")
    /\ serialUp' = (serialUp /\ t # "owner")

(* The attempt ends without a reset; an escalation ends its epoch. *)
Failed(t) ==
    /\ recPending' = FALSE
    /\ recAttempting' = FALSE /\ recLock' = "none"
    /\ fwState' \in {"degraded"} \cup (IF t = "owner" THEN {} ELSE {fwState})
    /\ At(t, Home(t))
    /\ serialUp' = (serialUp /\ t # "owner")
    /\ UNCHANGED <<recMethod, actuated, answered>>

(* _attempt_firmware_recovery: the reboot command was sent, perhaps; or the
   identity or the limiter refuses; or the command could not start.        *)
SoftReset(t) ==
    /\ thread[t].pc = "soft"
    /\ \/ serialUp /\ Allowed /\ Issued(t, "soft")
       \/ Failed(t) /\ UNCHANGED reserved
       \/ /\ At(t, "hard")
          /\ UNCHANGED <<recPending, recAttempting, recMethod, recLock, reserved, actuated,
                         fwState, answered, serialUp>>
    /\ UNCHANGED <<recEpoch, recEscalated, openTimeouts>>

(* _attempt_usb_recovery: reserved first, then the reset, which may fail *)
HardReset(t) ==
    /\ thread[t].pc = "hard"
    /\ \/ UsbReset /\ Allowed /\ Issued(t, "hard")
       \/ UsbReset /\ Allowed /\ Failed(t) /\ reserved' = reserved + 1
       \/ Failed(t) /\ UNCHANGED reserved
    /\ UNCHANGED <<recEpoch, recEscalated, openTimeouts>>

(* _cleanup_after_reset *)
Cleanup ==
    /\ thread["manual"].pc = "cleanup"
    /\ serialUp' = FALSE
    /\ At("manual", "idle")
    /\ UNCHANGED <<recPending, recAttempting, recEpoch, recMethod, recEscalated, recLock, reserved,
                   actuated, openTimeouts, fwState, answered>>

-----------------------------------------------------------------------------
(* Reopening and verification, by the owner *)

(* The interface is open: its verification is for the epoch pending now. *)
Reopened ==
    /\ thread["owner"].pc = "reopen"
    /\ serialUp' = TRUE /\ fwState' = "verifying"
    /\ thread' = [thread EXCEPT !["owner"] =
                      [pc |-> "verify", epoch |-> IF recPending THEN recEpoch ELSE 0]]
    /\ UNCHANGED <<recPending, recAttempting, recEpoch, recMethod, recEscalated, recLock, reserved,
                   actuated, openTimeouts, answered>>

(* _record_serial_open_failure: only time-outs are counted. *)
OpenFailed ==
    /\ thread["owner"].pc = "reopen"
    /\ \/ /\ openTimeouts' = openTimeouts + 1
          /\ At("owner", IF openTimeouts + 1 >= OpenThreshold THEN "hang" ELSE "reopen")
          /\ UNCHANGED fwState
       \/ /\ openTimeouts' = 0
          /\ At("owner", "blocked")
          /\ fwState' = "degraded"
    /\ UNCHANGED <<recPending, recAttempting, recEpoch, recMethod, recEscalated, recLock, reserved,
                   actuated, answered, serialUp>>

Retry ==
    /\ thread["owner"].pc = "blocked"
    /\ At("owner", "reopen")
    /\ UNCHANGED <<recPending, recAttempting, recEpoch, recMethod, recEscalated, recLock, reserved,
                   actuated, openTimeouts, fwState, answered, serialUp>>

(* Mutant of EndsPending: a hard reset that did not help stays pending. *)
EndsPendingSoft == ~ AutoReset

(* A pending reset after which the radio never came back is at its end. *)
EndsPending == ~ AutoReset \/ recMethod # "soft" \/ recEscalated

(* _handle_startup_firmware_hang *)
StartupHang ==
    /\ thread["owner"].pc = "hang"
    /\ openTimeouts' = 0
    /\ \/ /\ recPending /\ EndsPending
          /\ recPending' = FALSE /\ fwState' = "degraded" /\ At("owner", "reopen")
          /\ recAttempting' = (recAttempting /\ ~ AutoReset)
       \/ /\ recPending /\ ~ EndsPending
          /\ fwState' = "confirmed_hung" /\ At("owner", "escalate")
          /\ UNCHANGED <<recPending, recAttempting>>
       \/ /\ ~ recPending
          /\ At("owner", IF AutoReset /\ Allowed /\ UsbReset THEN "claim_hard" ELSE "reopen")
          /\ fwState' = IF AutoReset /\ Allowed THEN "confirmed_hung" ELSE "degraded"
          /\ UNCHANGED <<recPending, recAttempting>>
    /\ UNCHANGED <<recEpoch, recMethod, recEscalated, recLock, reserved, actuated, answered, serialUp>>

(* _probe_device_health: the radio answers. *)
Verified ==
    /\ thread["owner"].pc = "verify" /\ serialUp
    /\ answered' = TRUE
    /\ At("owner", "publish")
    /\ UNCHANGED <<recPending, recAttempting, recEpoch, recMethod, recEscalated, recLock, reserved,
                   actuated, openTimeouts, fwState, serialUp>>

(* _handle_recovery_verification_failure: no answer or a broken transport
   after a soft reset escalates, anything else ends the epoch.             *)
NotVerified ==
    /\ thread["owner"].pc = "verify"
    /\ serialUp' = FALSE
    /\ \/ /\ thread["owner"].epoch = 0
          /\ fwState' = "degraded" /\ At("owner", "reopen") /\ UNCHANGED recPending
       \/ /\ thread["owner"].epoch # 0 /\ recMethod = "soft" /\ ~ recEscalated
          /\ fwState' = "waiting_for_reopen" /\ At("owner", "escalate") /\ UNCHANGED recPending
       \/ /\ thread["owner"].epoch # 0
          /\ recPending' = (recPending /\ thread["owner"].epoch # recEpoch)
          /\ fwState' = "degraded" /\ At("owner", "reopen")
    /\ UNCHANGED <<recAttempting, recEpoch, recMethod, recEscalated, recLock, reserved, actuated,
                   openTimeouts, answered>>

(* Mutant of Escalate: the escalation is not remembered. *)
EscalateAgain ==
    /\ thread["owner"].pc = "escalate" /\ recLock = "none" /\ recPending
    /\ recLock' = "owner" /\ recAttempting' = TRUE
    /\ At("owner", "hard")
    /\ UNCHANGED <<recPending, recEpoch, recMethod, recEscalated, reserved, actuated, openTimeouts,
                   fwState, answered, serialUp>>

(* The one hard reset after a soft one, in the same epoch *)
Escalate ==
    /\ thread["owner"].pc = "escalate"
    /\ IF recLock = "none" /\ recPending /\ recMethod = "soft" /\ ~ recEscalated
       THEN /\ recLock' = "owner" /\ recAttempting' = TRUE /\ recEscalated' = TRUE
            /\ At("owner", "hard")
       ELSE At("owner", "reopen") /\ UNCHANGED <<recLock, recAttempting, recEscalated>>
    /\ UNCHANGED <<recPending, recEpoch, recMethod, reserved, actuated, openTimeouts, fwState,
                   answered, serialUp>>

(* Mutant of Recovered: any pending epoch will do. *)
RecoveredAnyEpoch == thread["owner"].epoch # 0 /\ recPending

(* Publication of the verified interface, and _complete_firmware_recovery
   if the epoch it was verified for is still the pending one               *)
Recovered == thread["owner"].epoch # 0 /\ recPending /\ thread["owner"].epoch = recEpoch

PublishVerified ==
    /\ thread["owner"].pc = "publish"
    /\ openTimeouts' = 0
    /\ IF serialUp
       THEN /\ At("owner", "watch")
            /\ recPending' = (recPending /\ ~ Recovered)
            /\ recMethod' = IF Recovered THEN "none" ELSE recMethod
            /\ fwState' = CASE Recovered -> "recovered"
                            [] thread["owner"].epoch # 0 /\ recPending -> fwState
                            [] OTHER -> "healthy"
       ELSE At("owner", "reopen") /\ UNCHANGED <<recPending, recMethod, fwState>>
    /\ UNCHANGED <<recAttempting, recEpoch, recEscalated, recLock, reserved, actuated, answered, serialUp>>

OwnerRecovers == \/ WatchdogLeaves \/ Reopened \/ OpenFailed \/ Retry \/ StartupHang
                 \/ Verified \/ NotVerified \/ Escalate \/ PublishVerified
                 \/ Claim("owner") \/ ClaimRefused("owner") \/ SoftReset("owner") \/ HardReset("owner")

ManualRecovers == \/ Claim("manual") \/ ClaimRefused("manual") \/ SoftReset("manual")
                  \/ HardReset("manual") \/ Cleanup

RecNext == OwnerRecovers \/ ManualRecovers \/ ManualReset \/ WatchdogQuiet \/ WatchdogHang

RecSpec == RecInit /\ [][RecNext]_recVars

-----------------------------------------------------------------------------
(* Properties *)

RecTypeOK ==
    /\ recLock \in RecThreads \cup {"none"} /\ recMethod \in {"none", "soft", "hard"}
    /\ reserved \in 0..MaxResets /\ openTimeouts \in 0..OpenThreshold

(* "Permit exactly one soft-to-hard escalation": an epoch resets the radio at
   most twice, and twice only with an escalation.                          *)
ResetsPerEpoch == actuated <= IF recEscalated THEN 2 ELSE 1

(* One recovery at a time: while a reset is waiting for its verification,
   only its own escalation is under way.                                   *)
OneRecovery ==
    /\ recAttempting <=> recLock # "none"
    /\ recPending /\ recAttempting => recEscalated /\ recLock = "owner"

(* A recovery is announced only for a radio that has answered after the last
   reset, whoever issued it.                                               *)
RecoveredHasAnswered ==
    [][fwState' = "recovered" /\ fwState # "recovered" => answered]_recVars

(* A pending recovery comes to an end, unless the device cannot even be
   tried: busy, missing or without permission, again and again.            *)
PendingRecoveryEnds ==
    []<>(thread["owner"].pc = "blocked") \/ (recPending ~> ~ recPending)
=============================================================================
