---------------------------- MODULE MeshCoreLink ----------------------------
(***************************************************************************)
(* The serial connection of the MeshCore gateway (builtin_plugins/         *)
(* meshcore_gateway.py).  The SDK's clients live on an asyncio loop of     *)
(* their own; an open may ignore its cancellation and a teardown may fail, *)
(* so both are remembered until they have ended, and generations fence off *)
(* what belongs to an earlier connection.                                  *)
(*                                                                         *)
(* The threads are the owner (the connection loop), stop(), the teardown   *)
(* worker and the loop with the open it runs.  A client is named by the    *)
(* generation it was opened under.                                         *)
(***************************************************************************)
EXTENDS Integers, FiniteSets

CONSTANTS
    McThreshold,   \* health_failure_threshold
    McGens         \* bound on the generations that are opened

ASSUME MeshCoreLinkAssumption == {McThreshold, McGens} \subseteq Nat \ {0}

McIds == 1..McGens

VARIABLES
    mcActive,      \* _active
    mcGen,         \* _connection_generation
    mcOn,          \* _connected
    mcHandle,      \* _mc, 0 when there is none
    mcClient,      \* a client: "none", "open" (at the device) or "closed"
    mcAttempt,     \* _open_attempt
    mcTear,        \* _teardown_attempt
    mcBlocked,     \* _serial_reopen_blocked
    mcLease,       \* the claim on the device is held
    mcLoop,        \* the asyncio loop runs
    mcFails,       \* _health_consecutive_failures
    mcDisc,        \* the holder of _disconnect_lock
    mcOwner, mcStop

mcVars == <<mcActive, mcGen, mcOn, mcHandle, mcClient, mcAttempt, mcTear, mcBlocked, mcLease,
            mcLoop, mcFails, mcDisc, mcOwner, mcStop>>

NoAttempt == [pc |-> "none", gen |-> 0, abandoned |-> FALSE]
NoTear == [pc |-> "none", client |-> 0]

McInit ==
    /\ mcActive = TRUE /\ mcGen = 0 /\ mcOn = FALSE /\ mcHandle = 0
    /\ mcClient = [g \in McIds |-> "none"]
    /\ mcAttempt = NoAttempt /\ mcTear = NoTear
    /\ mcBlocked = FALSE /\ mcLease = FALSE /\ mcLoop = TRUE /\ mcFails = 0 /\ mcDisc = "none"
    /\ mcOwner = [pc |-> "top", gen |-> 0]
    /\ mcStop = [pc |-> "no", proven |-> FALSE]

OwnerTo(pc) == mcOwner' = [mcOwner EXCEPT !.pc = pc]

(* _connection_is_current *)
McCurrent(g) == mcActive /\ mcGen = g /\ mcHandle = g

-----------------------------------------------------------------------------
(* The connection loop *)

OwnerTop ==
    /\ mcOwner.pc = "top"
    /\ OwnerTo(CASE ~mcActive -> "ended"
                 [] mcActive /\ mcOn -> "watch"
                 [] mcActive /\ ~mcOn /\ mcHandle # 0 -> "disc"
                 [] OTHER -> "lease")
    /\ UNCHANGED <<mcActive, mcGen, mcOn, mcHandle, mcClient, mcAttempt, mcTear, mcBlocked,
                   mcLease, mcLoop, mcFails, mcDisc, mcStop>>

(* _ensure_serial_device_lease: a conflict fails the attempt. *)
ClaimsPort ==
    /\ mcOwner.pc = "lease"
    /\ \/ mcLease' = TRUE /\ OwnerTo("begin")
       \/ ~mcLease /\ OwnerTo("top") /\ UNCHANGED mcLease
    /\ UNCHANGED <<mcActive, mcGen, mcOn, mcHandle, mcClient, mcAttempt, mcTear, mcBlocked,
                   mcLoop, mcFails, mcDisc, mcStop>>

(* Mutant of BeginGeneration: an open that was given up is forgotten. *)
BeginAnyway ==
    /\ mcOwner.pc = "begin" /\ mcGen < McGens
    /\ IF mcHandle # 0 \/ mcTear # NoTear
       THEN mcBlocked' = TRUE /\ OwnerTo("top") /\ UNCHANGED mcGen
       ELSE /\ mcGen' = mcGen + 1 /\ mcOwner' = [pc |-> "track", gen |-> mcGen + 1]
            /\ UNCHANGED mcBlocked
    /\ UNCHANGED <<mcActive, mcOn, mcHandle, mcClient, mcAttempt, mcTear, mcLease, mcLoop,
                   mcFails, mcDisc, mcStop>>

(* _begin_connection_generation: no overlap with what is not quiescent *)
BeginGeneration ==
    /\ mcOwner.pc = "begin"
    /\ IF mcHandle # 0 \/ mcAttempt # NoAttempt \/ mcTear # NoTear
       THEN mcBlocked' = TRUE /\ OwnerTo("top") /\ UNCHANGED mcGen
       ELSE /\ mcGen < McGens
            /\ mcGen' = mcGen + 1 /\ mcOwner' = [pc |-> "track", gen |-> mcGen + 1]
            /\ UNCHANGED mcBlocked
    /\ UNCHANGED <<mcActive, mcOn, mcHandle, mcClient, mcAttempt, mcTear, mcLease, mcLoop,
                   mcFails, mcDisc, mcStop>>

(* _run_tracked_open hands the SDK's create call to the loop. *)
TrackOpen ==
    /\ mcOwner.pc = "track"
    /\ IF mcLoop /\ mcGen = mcOwner.gen
       THEN /\ mcAttempt' = [pc |-> "opening", gen |-> mcGen, abandoned |-> FALSE]
            /\ mcBlocked' = TRUE /\ OwnerTo("open")
       ELSE OwnerTo("top") /\ UNCHANGED <<mcAttempt, mcBlocked>>
    /\ UNCHANGED <<mcActive, mcGen, mcOn, mcHandle, mcClient, mcTear, mcLease, mcLoop, mcFails,
                   mcDisc, mcStop>>

(* Mutant of OpenReturns: the client is published for whoever comes. *)
OpenReturnsStale ==
    /\ mcAttempt.pc = "opening"
    /\ mcClient' = [mcClient EXCEPT ![mcAttempt.gen] = "open"]
    /\ mcHandle' = mcAttempt.gen /\ mcAttempt' = NoAttempt /\ mcBlocked' = FALSE /\ mcOn' = FALSE
    /\ UNCHANGED <<mcActive, mcGen, mcTear, mcLease, mcLoop, mcFails, mcDisc, mcOwner, mcStop>>

(* _capture_open_result: a current client is published before the owner is
   woken; a stale one is closed on the loop.                               *)
OpenReturns ==
    /\ mcAttempt.pc = "opening"
    /\ mcClient' = [mcClient EXCEPT ![mcAttempt.gen] = "open"]
    /\ IF mcActive /\ mcGen = mcAttempt.gen /\ ~mcAttempt.abandoned
       THEN /\ mcHandle' = mcAttempt.gen /\ mcAttempt' = NoAttempt
            /\ mcBlocked' = FALSE /\ mcOn' = FALSE
       ELSE mcAttempt' = [mcAttempt EXCEPT !.pc = "late"] /\ UNCHANGED <<mcHandle, mcBlocked, mcOn>>
    /\ UNCHANGED <<mcActive, mcGen, mcTear, mcLease, mcLoop, mcFails, mcDisc, mcOwner, mcStop>>

(* It raises, is cancelled, or the device does not answer. *)
OpenFails ==
    /\ mcAttempt.pc = "opening"
    /\ mcAttempt' = NoAttempt /\ mcBlocked' = (mcHandle # 0)
    /\ UNCHANGED <<mcActive, mcGen, mcOn, mcHandle, mcClient, mcTear, mcLease, mcLoop, mcFails,
                   mcDisc, mcOwner, mcStop>>

(* Mutant of LateClose: a close that fails leaves the attempt pending. *)
LateCloseFails ==
    /\ mcAttempt.pc = "late" /\ mcAttempt' = NoAttempt /\ mcClient[mcAttempt.gen] = "closed"
    /\ UNCHANGED <<mcActive, mcGen, mcOn, mcHandle, mcClient, mcTear, mcBlocked, mcLease, mcLoop,
                   mcFails, mcDisc, mcOwner, mcStop>>

(* The late client is closed; if that fails it becomes visible to the normal
   teardown (nothing else is published while an attempt is pending).       *)
LateClose ==
    /\ mcAttempt.pc = "late" /\ mcAttempt' = NoAttempt
    /\ \/ /\ mcClient' = [mcClient EXCEPT ![mcAttempt.gen] = "closed"]
          /\ mcBlocked' = (mcBlocked /\ mcHandle # 0) /\ UNCHANGED <<mcHandle, mcOn>>
       \/ mcHandle' = mcAttempt.gen /\ mcOn' = FALSE /\ mcBlocked' = TRUE /\ UNCHANGED mcClient
    /\ UNCHANGED <<mcActive, mcGen, mcTear, mcLease, mcLoop, mcFails, mcDisc, mcOwner, mcStop>>

OpenTimesOutAt ==
    /\ mcOwner.pc = "open" /\ mcAttempt # NoAttempt
    /\ mcAttempt' = [mcAttempt EXCEPT !.abandoned = TRUE] /\ mcBlocked' = TRUE
    /\ OwnerTo("top")
    /\ UNCHANGED <<mcActive, mcGen, mcOn, mcHandle, mcClient, mcTear, mcLease, mcLoop, mcFails,
                   mcDisc, mcStop>>

(* The owner is woken, with a client or an error. *)
OpenEnded ==
    /\ mcOwner.pc = "open" /\ mcAttempt = NoAttempt
    /\ OwnerTo(IF McCurrent(mcOwner.gen) THEN "setup" ELSE "top")
    /\ UNCHANGED <<mcActive, mcGen, mcOn, mcHandle, mcClient, mcAttempt, mcTear, mcBlocked,
                   mcLease, mcLoop, mcFails, mcDisc, mcStop>>

(* Time, device query, contacts, subscriptions and message fetching, with a
   check for staleness after each                                          *)
Setup ==
    /\ mcOwner.pc = "setup"
    /\ \/ McCurrent(mcOwner.gen) /\ OwnerTo("commit")
       \/ OwnerTo("top")                               \* an await failed
    /\ UNCHANGED <<mcActive, mcGen, mcOn, mcHandle, mcClient, mcAttempt, mcTear, mcBlocked,
                   mcLease, mcLoop, mcFails, mcDisc, mcStop>>

(* Mutant of Commit: the last check is left to the setup. *)
CommitUnchecked ==
    /\ mcOwner.pc = "commit"
    /\ mcOn' = TRUE /\ mcFails' = 0 /\ mcBlocked' = FALSE /\ OwnerTo("watch")
    /\ UNCHANGED <<mcActive, mcGen, mcHandle, mcClient, mcAttempt, mcTear, mcLease, mcLoop,
                   mcDisc, mcStop>>

Commit ==
    /\ mcOwner.pc = "commit"
    /\ IF McCurrent(mcOwner.gen)
       THEN mcOn' = TRUE /\ mcFails' = 0 /\ mcBlocked' = FALSE /\ OwnerTo("watch")
       ELSE OwnerTo("top") /\ UNCHANGED <<mcOn, mcFails, mcBlocked>>
    /\ UNCHANGED <<mcActive, mcGen, mcHandle, mcClient, mcAttempt, mcTear, mcLease, mcLoop,
                   mcDisc, mcStop>>

(* The health check: an answer (or a recent one), or a failure; the last of
   a row ends the connection.                                              *)
CheckHealth ==
    /\ mcOwner.pc = "watch"
    /\ \/ mcFails' = 0 /\ OwnerTo("top")
       \/ /\ mcOn /\ mcFails' = (mcFails + 1) % McThreshold
          /\ OwnerTo(IF mcFails + 1 = McThreshold THEN "disc" ELSE "top")
    /\ UNCHANGED <<mcActive, mcGen, mcOn, mcHandle, mcClient, mcAttempt, mcTear, mcBlocked,
                   mcLease, mcLoop, mcDisc, mcStop>>

(* _on_disconnect, for a client that is still current *)
OnDisconnect ==
    /\ mcHandle # 0 /\ mcGen = mcHandle /\ mcActive
    /\ mcGen' = mcGen + 1 /\ mcOn' = FALSE
    /\ UNCHANGED <<mcActive, mcHandle, mcClient, mcAttempt, mcTear, mcBlocked, mcLease, mcLoop,
                   mcFails, mcDisc, mcOwner, mcStop>>

-----------------------------------------------------------------------------
(* _disconnect_device, by the owner or by stop() *)

DiscTo(who, pc) ==
    IF who = "owner" THEN OwnerTo(pc) /\ UNCHANGED mcStop
    ELSE mcStop' = [mcStop EXCEPT !.pc = pc] /\ UNCHANGED mcOwner

DiscReturns(who, proven) ==
    /\ mcDisc' = "none"
    /\ IF who = "owner" THEN OwnerTo("top") /\ UNCHANGED mcStop
       ELSE mcStop' = [pc |-> "loop", proven |-> proven] /\ UNCHANGED mcOwner

DiscPc(who) == IF who = "owner" THEN mcOwner.pc ELSE mcStop.pc

(* _invalidate_connection_generation; a generation nobody holds is not counted
   again, which nobody can tell.                                           *)
Invalidated == IF mcGen \in {mcHandle, mcAttempt.gen, mcOwner.gen} THEN mcGen + 1 ELSE mcGen

DiscBegins(who) ==
    /\ DiscPc(who) = "disc" /\ mcDisc = "none"
    /\ mcGen' = Invalidated /\ mcOn' = FALSE
    /\ mcAttempt' = [mcAttempt EXCEPT !.abandoned = mcAttempt # NoAttempt]
    /\ IF mcHandle = 0
       THEN /\ DiscReturns(who, mcAttempt = NoAttempt /\ mcTear = NoTear)
            /\ mcBlocked' = (mcBlocked \/ mcAttempt # NoAttempt) /\ UNCHANGED mcTear
       ELSE /\ mcTear' = [pc |-> "running", client |-> mcHandle]     \* or the one that runs
            /\ mcBlocked' = TRUE /\ mcDisc' = who /\ DiscTo(who, "tearing")
    /\ UNCHANGED <<mcActive, mcHandle, mcClient, mcLease, mcLoop, mcFails>>

(* _teardown_client: proven by the SDK, or uncertain *)
TearEnds ==
    /\ mcTear.pc = "running" /\ mcTear' = NoTear
    /\ \/ /\ mcLoop /\ mcClient' = [mcClient EXCEPT ![mcTear.client] = "closed"]
          /\ mcHandle' = 0 /\ mcBlocked' = FALSE
       \/ mcBlocked' = TRUE /\ UNCHANGED <<mcClient, mcHandle>>
    /\ UNCHANGED <<mcActive, mcGen, mcOn, mcAttempt, mcLease, mcLoop, mcFails, mcDisc, mcOwner, mcStop>>

(* The caller waits for the worker, but not for ever. *)
DiscEnds(who) ==
    /\ DiscPc(who) = "tearing" /\ mcDisc = who
    /\ DiscReturns(who, mcTear = NoTear /\ mcHandle = 0)
    /\ UNCHANGED <<mcActive, mcGen, mcOn, mcHandle, mcClient, mcAttempt, mcTear, mcBlocked,
                   mcLease, mcLoop, mcFails>>

-----------------------------------------------------------------------------
(* stop() *)

McStops ==
    /\ mcStop.pc = "no" /\ mcActive' = FALSE /\ mcStop' = [mcStop EXCEPT !.pc = "disc"]
    /\ UNCHANGED <<mcGen, mcOn, mcHandle, mcClient, mcAttempt, mcTear, mcBlocked, mcLease, mcLoop,
                   mcFails, mcDisc, mcOwner>>

StopsLoop ==
    /\ mcStop.pc = "loop" /\ mcLoop' = FALSE /\ mcStop' = [mcStop EXCEPT !.pc = "join"]
    /\ UNCHANGED <<mcActive, mcGen, mcOn, mcHandle, mcClient, mcAttempt, mcTear, mcBlocked,
                   mcLease, mcFails, mcDisc, mcOwner>>

(* Mutant of ReleasesPort: the result of the disconnect is proof enough. *)
ReleasesProven ==
    /\ mcStop.pc = "join" /\ mcStop' = [mcStop EXCEPT !.pc = "done"]
    /\ mcLease' = (mcLease /\ ~mcStop.proven)
    /\ UNCHANGED <<mcActive, mcGen, mcOn, mcHandle, mcClient, mcAttempt, mcTear, mcBlocked,
                   mcLoop, mcFails, mcDisc, mcOwner>>

(* The joins have timed out or not: the claim goes only when everything is
   proven quiet, and otherwise stays until the process exits.              *)
ReleasesPort ==
    /\ mcStop.pc = "join" /\ mcStop' = [mcStop EXCEPT !.pc = "done"]
    /\ mcLease' = (mcLease /\ ~( /\ mcStop.proven /\ mcHandle = 0 /\ ~mcBlocked
                                 /\ mcAttempt = NoAttempt /\ mcTear = NoTear
                                 /\ mcOwner.pc = "ended"))
    /\ UNCHANGED <<mcActive, mcGen, mcOn, mcHandle, mcClient, mcAttempt, mcTear, mcBlocked,
                   mcLoop, mcFails, mcDisc, mcOwner>>

McOwnerStep == OwnerTop \/ ClaimsPort \/ BeginGeneration \/ TrackOpen \/ OpenEnded \/ OpenTimesOutAt
             \/ Setup \/ Commit \/ CheckHealth \/ DiscBegins("owner") \/ DiscEnds("owner")

McLoopStep == OpenReturns \/ OpenFails \/ LateClose

McStopStep == DiscBegins("stop") \/ DiscEnds("stop") \/ StopsLoop \/ ReleasesPort

McNext == McOwnerStep \/ McLoopStep \/ OnDisconnect \/ TearEnds \/ McStops \/ McStopStep

McSpec == McInit /\ [][McNext]_mcVars

-----------------------------------------------------------------------------

McTypeOK ==
    /\ {mcActive, mcOn, mcBlocked, mcLease, mcLoop} \subseteq BOOLEAN
    /\ mcGen \in Nat /\ mcHandle \in McIds \cup {0}
    /\ mcClient \in [McIds -> {"none", "open", "closed"}]
    /\ mcAttempt.pc \in {"none", "opening", "late"} /\ mcTear.pc \in {"none", "running"}
    /\ mcFails \in 0..(McThreshold - 1) /\ mcDisc \in {"none", "owner", "stop"}

(* The clients that may be at the device, with the one being opened *)
McAtDevice ==
    {g \in McIds : mcClient[g] = "open"} \cup
    (IF mcAttempt.pc = "opening" THEN {mcAttempt.gen} ELSE {})

(* "refusing overlap with old work": one client at the device, and one that
   is there is remembered as the handle or as the attempt.                 *)
OneMeshCoreClient ==
    /\ Cardinality(McAtDevice) <= 1
    /\ McAtDevice \subseteq {mcHandle, mcAttempt.gen}

(* The claim on the device is held while a client may be there, also when
   stop() has returned.                                                    *)
McLeaseCoversDevice == McAtDevice # {} => mcLease

(* A connection is announced only for the client that is open and current:
   no disconnect, teardown or stop is overtaken by a setup.                *)
ConnectedIsCurrent ==
    mcOn => /\ mcHandle # 0 /\ mcClient[mcHandle] = "open" /\ mcGen = mcHandle
            /\ mcStop.pc \in {"no", "disc"} /\ mcTear = NoTear

(* An open that was given up ends as a client that is closed, or one that
   the next teardown knows: the way to a new connection is free again.     *)
GivenUpOpenEnds == mcAttempt.abandoned ~> mcAttempt = NoAttempt
=============================================================================
