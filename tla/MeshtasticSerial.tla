-------------------------- MODULE MeshtasticSerial --------------------------
(***************************************************************************)
(* Ownership of the serial Meshtastic radio (builtin_plugins/              *)
(* meshtastic_gateway.py).  The vendor's SerialInterface blocks without a  *)
(* limit in its constructor, its calls and its close, so each runs on a    *)
(* worker thread and the caller gives up after a time.  Interfaces carry   *)
(* the generation they were opened under; a new one may be opened only     *)
(* when nothing of an old one can still be at the device.                  *)
(*                                                                         *)
(* The threads are the owner (the probe loop, or the connection loop in    *)
(* serial mode), an API caller that runs one command, stop(), and the      *)
(* workers.  An interface is named by its generation.                      *)
(***************************************************************************)
EXTENDS Integers, FiniteSets

CONSTANTS
    SerialMode,   \* "listener": the probe loop owns; "primary": the connection loop
    MaxOpens      \* bound on the generation of an interface that is opened

ASSUME SerialAssumption == SerialMode \in {"listener", "primary"} /\ MaxOpens \in Nat

SerGens == 1..MaxOpens

VARIABLES
    serActive,    \* _active
    openGen,      \* _serial_open_generation
    activeGen,    \* _serial_active_generation
    candidate,    \* _serial_probe_candidate, 0 when there is none
    published,    \* _serial_listener or _mesh_interface, 0 when there is none
    attempt,      \* _serial_open_attempt_active
    lease,        \* the claim on the device is held
    opener,       \* the constructor's worker
    handle,       \* an interface: "none", "open", "closing", "closed", "quarantined"
    command,      \* the worker of a command; it holds the operation lock
    poisoner,     \* the generation the API caller has detached and will close
    owner,        \* the loop that opens
    stopper       \* stop()

serVars == <<serActive, openGen, activeGen, candidate, published, attempt, lease, opener, handle,
             command, poisoner, owner, stopper>>

NoOpener == [pc |-> "none", gen |-> 0, cancelled |-> FALSE]
NoCommand == [pc |-> "none", gen |-> 0, by |-> "none"]

SerInit ==
    /\ serActive = TRUE /\ openGen = 0 /\ activeGen = 0
    /\ candidate = 0 /\ published = 0
    /\ attempt = FALSE /\ lease = FALSE
    /\ opener = NoOpener
    /\ handle = [g \in SerGens |-> "none"]
    /\ command = NoCommand
    /\ poisoner = 0
    /\ owner = [pc |-> "idle", gen |-> 0]
    /\ stopper = "no"

-----------------------------------------------------------------------------

OwnerAt(label, g) == owner' = [pc |-> label, gen |-> g]

(* _bounded_close_serial_interface: close() is called once per interface, on
   a worker that is waited for a while.                                    *)
Closing(S) == [g \in SerGens |-> IF g \in S /\ handle[g] = "open" THEN "closing" ELSE handle[g]]

(* Mutant of NothingAtDevice: close workers are not waited for. *)
NothingButClosers ==
    /\ opener.pc = "none" /\ command.pc = "none" /\ candidate = 0 /\ published = 0
    /\ \A g \in SerGens : handle[g] # "quarantined"

(* _prune_serial_workers *)
NothingAtDevice ==
    /\ opener.pc = "none" /\ command.pc = "none" /\ candidate = 0 /\ published = 0
    /\ \A g \in SerGens : handle[g] \notin {"closing", "quarantined"}

(* _serial_generation_is_current *)
Current(g) == serActive /\ g = activeGen /\ g = openGen /\ g \in {candidate, published} \ {0}

(* _open_serial_interface_result: the claim, the lease and the checks *)
OpenBegins ==
    /\ owner.pc = "idle" /\ serActive /\ ~ attempt /\ NothingAtDevice /\ openGen < MaxOpens
    /\ attempt' = TRUE /\ lease' = TRUE
    /\ openGen' = openGen + 1
    /\ opener' = [pc |-> "constructing", gen |-> openGen + 1, cancelled |-> FALSE]
    /\ OwnerAt("opening", openGen + 1)
    /\ UNCHANGED <<serActive, activeGen, candidate, published, handle, command, poisoner, stopper>>

(* The constructor returns an interface, or raises. *)
Constructed ==
    /\ opener.pc = "constructing"
    /\ \/ /\ handle' = [handle EXCEPT ![opener.gen] = "open"]
          /\ opener' = [opener EXCEPT !.pc = "returned"]
       \/ /\ UNCHANGED handle
          /\ opener' = [opener EXCEPT !.pc = "raised"]
    /\ UNCHANGED <<serActive, openGen, activeGen, candidate, published, attempt, lease, command,
                   poisoner, owner, stopper>>

(* The owner gives up; the worker keeps the claim until it is done. *)
OpenTimesOut ==
    /\ owner.pc = "opening" /\ opener.pc = "constructing"
    /\ opener' = [opener EXCEPT !.cancelled = TRUE]
    /\ openGen' = IF openGen = opener.gen THEN openGen + 1 ELSE openGen
    /\ OwnerAt("idle", 0)
    /\ UNCHANGED <<serActive, activeGen, candidate, published, attempt, lease, handle, command,
                   poisoner, stopper>>

OpenRaised ==
    /\ owner.pc = "opening" /\ opener.pc = "raised"
    /\ opener' = NoOpener /\ attempt' = FALSE
    /\ OwnerAt("idle", 0)
    /\ UNCHANGED <<serActive, openGen, activeGen, candidate, published, lease, handle, command,
                   poisoner, stopper>>

(* The interface is a candidate, or it came too late and its worker closes it. *)
OpenReturned ==
    LET g == opener.gen
        fresh == serActive /\ g = openGen
    IN  /\ owner.pc = "opening" /\ opener.pc = "returned"
        /\ opener' = [opener EXCEPT !.pc = "decided", !.cancelled = ~ fresh]
        /\ IF fresh
           THEN activeGen' = g /\ candidate' = g /\ attempt' = FALSE /\ OwnerAt("check", g)
           ELSE OwnerAt("idle", 0) /\ UNCHANGED <<activeGen, candidate, attempt>>
        /\ UNCHANGED <<serActive, openGen, published, lease, handle, command, poisoner, stopper>>

(* Mutant of OpenerEnds: a cancelled constructor keeps its claim. *)
OpenerEndsClaiming ==
    LET g == opener.gen
    IN  /\ opener.pc = "decided" \/ (opener.cancelled /\ opener.pc \in {"returned", "raised"})
        /\ handle' = Closing(IF opener.cancelled \/ ~ serActive \/ g # openGen THEN {g} ELSE {})
        /\ opener' = NoOpener
        /\ UNCHANGED <<serActive, openGen, activeGen, candidate, published, attempt, lease, command,
                       poisoner, owner, stopper>>

(* The worker after the owner's decision *)
OpenerEnds ==
    LET g == opener.gen
    IN  /\ opener.pc = "decided" \/ (opener.cancelled /\ opener.pc \in {"returned", "raised"})
        /\ handle' = Closing(IF opener.cancelled \/ ~ serActive \/ g # openGen THEN {g} ELSE {})
        /\ attempt' = (attempt /\ ~ opener.cancelled)
        /\ opener' = NoOpener
        /\ UNCHANGED <<serActive, openGen, activeGen, candidate, published, lease, command,
                       poisoner, owner, stopper>>

(* close() returns, or raises: then the exact handle is kept for good. *)
CloseEnds(g) ==
    /\ handle[g] = "closing"
    /\ \E end \in {"closed", "quarantined"} : handle' = [handle EXCEPT ![g] = end]
    /\ UNCHANGED <<serActive, openGen, activeGen, candidate, published, attempt, lease, opener,
                   command, poisoner, owner, stopper>>

-----------------------------------------------------------------------------
(* Validation, publication and use *)

(* What _poison_serial_generation detaches before it closes *)
Detach(g) ==
    /\ published' = IF published = g THEN 0 ELSE published
    /\ candidate' = IF candidate = g THEN 0 ELSE candidate
    /\ openGen' = IF g = activeGen /\ g = openGen THEN openGen + 1 ELSE openGen

(* Mutant of Publish: the generation is not looked at again. *)
PublishUnchecked ==
    /\ owner.pc = "check" /\ command.by # "owner"
    /\ published' = owner.gen /\ candidate' = 0
    /\ OwnerAt("live", owner.gen)
    /\ UNCHANGED <<serActive, openGen, activeGen, attempt, lease, opener, handle, command,
                   poisoner, stopper>>

(* _connect_mesh_device, _device_probe_loop: publication under the lock, if
   the candidate is still the current one                                  *)
Publish ==
    /\ owner.pc = "check" /\ command.by # "owner"
    /\ Current(owner.gen) /\ candidate = owner.gen
    /\ published' = owner.gen /\ candidate' = 0
    /\ OwnerAt("live", owner.gen)
    /\ UNCHANGED <<serActive, openGen, activeGen, attempt, lease, opener, handle, command,
                   poisoner, stopper>>

(* The identity or the health check fails, or the candidate is stale. *)
Reject ==
    /\ owner.pc = "check" /\ command.by # "owner"
    /\ Detach(owner.gen)
    /\ handle' = Closing({owner.gen})
    /\ OwnerAt("idle", 0)
    /\ UNCHANGED <<serActive, activeGen, attempt, lease, opener, command, poisoner, stopper>>

(* _run_serial_command, by the owner's health probe or an API caller *)
CommandBegins(who) ==
    LET g == IF who = "owner" THEN owner.gen ELSE published
    IN  /\ command.pc = "none" /\ Current(g)
        /\ who = "owner" => owner.pc \in {"check", "live"}
        /\ command' = [pc |-> "running", gen |-> g, by |-> who]
        /\ UNCHANGED <<serActive, openGen, activeGen, candidate, published, attempt, lease, opener,
                       handle, poisoner, owner, stopper>>

CommandReturns ==
    /\ command.pc # "none"
    /\ command' = NoCommand
    /\ UNCHANGED <<serActive, openGen, activeGen, candidate, published, attempt, lease, opener,
                   handle, poisoner, owner, stopper>>

(* The caller gives up and poisons the generation: it is detached now, and
   closed by the caller's next step.                                       *)
CommandTimesOut ==
    /\ command.pc = "running"
    /\ command.by = "api" => poisoner = 0
    /\ command' = [command EXCEPT !.pc = "orphan", !.by = "none"]
    /\ Detach(command.gen)
    /\ IF command.by = "api"
       THEN poisoner' = command.gen /\ UNCHANGED <<handle, owner>>
       ELSE handle' = Closing({command.gen}) /\ OwnerAt("idle", 0) /\ UNCHANGED poisoner
    /\ UNCHANGED <<serActive, activeGen, attempt, lease, opener, stopper>>

PoisonerCloses ==
    /\ poisoner # 0
    /\ handle' = Closing({poisoner})
    /\ poisoner' = 0
    /\ UNCHANGED <<serActive, openGen, activeGen, candidate, published, attempt, lease, opener,
                   command, owner, stopper>>

(* The owner leaves its inner loop: a broken read, the watchdog, a wake-up or
   the end.  The probe loop closes what it opened; the connection loop
   closes what is published (_close_mesh_interface).                       *)
OwnerLeaves ==
    LET own == IF SerialMode = "listener" THEN owner.gen ELSE published
    IN  /\ owner.pc = "live" /\ command.by # "owner"
        /\ published' = IF published = own THEN 0 ELSE published
        /\ openGen' = IF SerialMode = "primary" \/ published = own THEN openGen + 1 ELSE openGen
        /\ handle' = Closing({own})
        /\ OwnerAt("idle", 0)
        /\ UNCHANGED <<serActive, activeGen, candidate, attempt, lease, opener, command, poisoner,
                       stopper>>

(* _cleanup_after_reset, on the thread of a manual reset.  No reopening comes
   between the two halves: it waits for the radio to boot.                 *)
ResetCleanup ==
    /\ stopper = "no" /\ published # 0
    /\ handle' = Closing({published, candidate})
    /\ published' = 0 /\ candidate' = 0
    /\ openGen' = openGen + 1
    /\ UNCHANGED <<serActive, activeGen, attempt, lease, opener, command, poisoner, owner, stopper>>

-----------------------------------------------------------------------------
(* stop *)

SerStopBegins ==
    /\ stopper = "no"
    /\ stopper' = "detach" /\ serActive' = FALSE
    /\ openGen' = openGen + 1
    /\ UNCHANGED <<activeGen, candidate, published, attempt, lease, opener, handle, command,
                   poisoner, owner>>

SerStopDetaches ==
    /\ stopper = "detach"
    /\ stopper' = "join"
    /\ handle' = Closing({published, candidate})
    /\ published' = 0 /\ candidate' = 0
    /\ UNCHANGED <<serActive, openGen, activeGen, attempt, lease, opener, command, poisoner, owner>>

(* Mutant of SerStopReleases: the lease goes whatever is at the device. *)
StopReleasesAlways ==
    /\ stopper = "join" /\ owner.pc # "live"
    /\ lease' = FALSE /\ stopper' = "done"
    /\ UNCHANGED <<serActive, openGen, activeGen, candidate, published, attempt, opener, handle,
                   command, poisoner, owner>>

(* _release_serial_device_lease, after the threads have been joined or the
   join has timed out on a blocked open or check                           *)
SerStopReleases ==
    /\ stopper = "join" /\ owner.pc # "live"
    /\ IF NothingAtDevice /\ ~ attempt
       THEN lease' = FALSE /\ stopper' = "done"
       ELSE /\ stopper' = IF \E g \in SerGens : handle[g] = "quarantined" THEN "retained" ELSE "deferred"
            /\ UNCHANGED lease
    /\ UNCHANGED <<serActive, openGen, activeGen, candidate, published, attempt, opener, handle,
                   command, poisoner, owner>>

(* Mutant of DeferredRelease: nobody comes back for the lease. *)
DeferredReleaseNever == FALSE /\ UNCHANGED serVars

(* _schedule_serial_lease_release *)
DeferredRelease ==
    /\ stopper = "deferred" /\ NothingAtDevice /\ ~ attempt
    /\ lease' = FALSE /\ stopper' = "done"
    /\ UNCHANGED <<serActive, openGen, activeGen, candidate, published, attempt, opener, handle,
                   command, poisoner, owner>>

OwnerSteps == OpenTimesOut \/ OpenRaised \/ OpenReturned \/ Publish \/ Reject \/ OwnerLeaves

WorkerSteps == Constructed \/ OpenerEnds \/ CommandReturns \/ \E g \in SerGens : CloseEnds(g)

SerStopSteps == SerStopDetaches \/ SerStopReleases \/ DeferredRelease

SerNext ==
    \/ OpenBegins \/ OwnerSteps \/ WorkerSteps \/ SerStopSteps \/ SerStopBegins
    \/ \E who \in {"owner", "api"} : CommandBegins(who)
    \/ CommandTimesOut \/ PoisonerCloses \/ ResetCleanup

SerSpec == SerInit /\ [][SerNext]_serVars

-----------------------------------------------------------------------------
(* Properties *)

SerTypeOK ==
    /\ openGen \in Nat /\ {activeGen, candidate, published, poisoner} \subseteq SerGens \cup {0}
    /\ handle \in [SerGens -> {"none", "open", "closing", "closed", "quarantined"}]
    /\ opener.gen \in SerGens \cup {0} /\ command.gen \in SerGens \cup {0} /\ owner.gen \in SerGens \cup {0}

AtDevice == {g \in SerGens : handle[g] \in {"open", "closing", "quarantined"}}

(* "No new constructor while any previous command/open/close, unpublished
   interface, or health worker may still own the endpoint": there are never
   two interfaces at the device, and none beside a running constructor.    *)
OneInterfaceAtDevice ==
    Cardinality(AtDevice \cup (IF opener.pc = "constructing" THEN {opener.gen} ELSE {})) <= 1

(* The lease on the device is held while anything of the gateway can still
   be at it, also after stop().                                            *)
LeaseCoversDevice ==
    AtDevice # {} \/ opener.pc = "constructing" \/ command.pc # "none" => lease

(* While the plugin runs, what is published is open: nobody closes or has
   closed an interface that sends still use.                               *)
PublishedIsOpen == serActive /\ published # 0 => handle[published] = "open"

(* The claim on the constructor passes from the owner to the worker and is
   given back, whoever ends last.                                          *)
OpenClaimReturned == attempt ~> ~ attempt

(* After stop the lease is given back, unless a close has failed. *)
LeaseReturned == stopper = "deferred" ~> ~ lease \/ \E g \in SerGens : handle[g] = "quarantined"

(* One interface at a time talks to the serial radio, under a lease that covers it, and
   the interface published is an open one. *)
SerialLinkSafe ==
    /\ SerTypeOK
    /\ OneInterfaceAtDevice
    /\ LeaseCoversDevice
    /\ PublishedIsOpen

=============================================================================
