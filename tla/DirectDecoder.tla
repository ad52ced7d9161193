---------------------------- MODULE DirectDecoder ----------------------------
(* A decoder that owns its dongle without the scheduler: AdsbRadarPlugin on
   a ManagedProcessGroup.  Four threads share the group: the plugin's
   supervisor that starts it, the group's monitor that restarts it, the
   reader of a pipeline's output, and the caller of stop().  An attribute is
   read and written in the steps the threads really take; the lease is
   claimed in one step and remembered in the next.

   A pipeline is a number, in the order of the launches.                    *)
EXTENDS Naturals, FiniteSets

CONSTANTS DdRestarts,    \* restart limit of the plugin
          DdPipelines    \* bound on launches

ASSUME DdAssumption == DdRestarts \in Nat /\ DdPipelines \in Nat

VARIABLES
    ddActive,     \* _active
    ddGroup,      \* the plugin's _process_group is set
    ddProcess,    \* _process: a pipeline or 0
    ddLease,      \* _device_lease is set
    ddClaimed,    \* the registry holds the claim
    ddPg,         \* ManagedProcessGroup: running, starting, stop event, reported failure, processes
    ddAlive,      \* pipelines whose processes run and have the dongle open
    ddLaunched,   \* launches so far
    ddCount,      \* restarts of the window
    ddSup,        \* supervisor thread
    ddMon,        \* monitor thread
    ddStop,       \* thread in stop()
    ddOutlived,   \* stop() gave up a monitor that was claiming the dongle
    ddLocal,      \* pipeline the launching thread holds before it is published
    ddReader      \* per pipeline, the thread that reads it

ddVars == <<ddActive, ddGroup, ddProcess, ddLease, ddClaimed, ddPg, ddAlive, ddLaunched, ddCount,
            ddSup, ddMon, ddStop, ddOutlived, ddLocal, ddReader>>
ddPlugin == <<ddActive, ddGroup, ddProcess>>
ddDevice == <<ddLease, ddClaimed>>
ddPipes == <<ddAlive, ddLaunched, ddLocal>>
ddStopper == <<ddStop, ddOutlived>>

DdInit ==
    /\ ddActive = TRUE /\ ddGroup = FALSE /\ ddProcess = 0
    /\ ddLease = FALSE /\ ddClaimed = FALSE
    /\ ddPg = [running |-> FALSE, starting |-> FALSE, stopped |-> FALSE, reported |-> FALSE, procs |-> 0]
    /\ ddAlive = {} /\ ddLaunched = 0 /\ ddCount = 0 /\ ddLocal = 0
    /\ ddSup = "claim" /\ ddMon = "none" /\ ddStop = "none" /\ ddOutlived = FALSE
    /\ ddReader = [p \in 1..DdPipelines |-> "none"]

(* _refresh_device_lease: it fails if the dongle is gone. *)
Claims == ddClaimed' = TRUE /\ UNCHANGED ddLease
ReleasesLease == ddLease' = FALSE /\ ddClaimed' = IF ddLease THEN FALSE ELSE ddClaimed
(* _launch_transaction: a pipeline opens the dongle. *)
Launches == /\ ddLaunched < DdPipelines
            /\ ddLaunched' = ddLaunched + 1 /\ ddLocal' = ddLaunched + 1
            /\ ddAlive' = ddAlive \cup {ddLaunched + 1}
(* _terminate_processes on a local pipeline, _terminate_current on the group's *)
Discards == ddAlive' = ddAlive \ {ddLocal} /\ ddLocal' = 0 /\ UNCHANGED ddLaunched
TerminatesCurrent == /\ ddPg' = [ddPg EXCEPT !.procs = 0]
                     /\ ddAlive' = ddAlive \ {ddPg.procs}
                     /\ UNCHANGED <<ddLaunched, ddLocal>>
(* _on_process_started: stale for a plugin that has stopped *)
Wanted == ddGroup /\ ddActive
Adopts(p) == ddProcess' = p /\ ddReader' = [ddReader EXCEPT ![p] = "reading"]

-----------------------------------------------------------------------------
(* The supervisor thread *)

SupClaims ==
    /\ ddSup = "claim"
    /\ \/ Claims /\ ddSup' = "assign"
       \/ ddSup' = "failed" /\ UNCHANGED ddDevice
    /\ UNCHANGED <<ddPlugin, ddPg, ddPipes, ddCount, ddMon, ddStopper, ddReader>>

SupAssigns ==
    /\ ddSup = "assign" /\ ddLease' = TRUE /\ ddSup' = "check"
    /\ UNCHANGED <<ddPlugin, ddClaimed, ddPg, ddPipes, ddCount, ddMon, ddStopper, ddReader>>

(* _launch_dump1090 looks at _active before it builds the group. *)
SupChecks ==
    /\ ddSup = "check" /\ ddSup' = IF ddActive THEN "group" ELSE "failed"
    /\ UNCHANGED <<ddPlugin, ddDevice, ddPg, ddPipes, ddCount, ddMon, ddStopper, ddReader>>

SupBuildsGroup ==
    /\ ddSup = "group" /\ ddGroup' = TRUE /\ ddSup' = "start"
    /\ UNCHANGED <<ddActive, ddProcess, ddDevice, ddPg, ddPipes, ddCount, ddMon, ddStopper, ddReader>>

GroupStarts ==
    /\ ddSup = "start" /\ ddSup' = "launch"
    /\ ddPg' = [ddPg EXCEPT !.starting = TRUE, !.stopped = FALSE, !.reported = FALSE]
    /\ ddCount' = 0
    /\ UNCHANGED <<ddPlugin, ddDevice, ddPipes, ddMon, ddStopper, ddReader>>

SupLaunches ==
    /\ ddSup = "launch"
    /\ \/ Launches /\ ddSup' = IF ddPg.stopped THEN "cancel" ELSE "hook"
       \/ ddSup' = "cancel" /\ UNCHANGED ddPipes
    /\ UNCHANGED <<ddPlugin, ddDevice, ddPg, ddCount, ddMon, ddStopper, ddReader>>

SupHook ==
    /\ ddSup = "hook"
    /\ IF Wanted THEN Adopts(ddLocal) /\ ddSup' = "publish"
                 ELSE ddSup' = "cancel" /\ UNCHANGED <<ddProcess, ddReader>>
    /\ UNCHANGED <<ddActive, ddGroup, ddDevice, ddPg, ddPipes, ddCount, ddMon, ddStopper>>

(* Published and monitored, unless a stop came first *)
SupPublishes ==
    /\ ddSup = "publish"
    /\ IF ddPg.stopped
       THEN ddSup' = "cancel" /\ UNCHANGED <<ddPg, ddLocal, ddMon>>
       ELSE /\ ddPg' = [ddPg EXCEPT !.running = TRUE, !.procs = ddLocal, !.starting = FALSE]
            /\ ddLocal' = 0 /\ ddMon' = "wait" /\ ddSup' = "done"
    /\ UNCHANGED <<ddPlugin, ddDevice, ddAlive, ddLaunched, ddCount, ddStopper, ddReader>>

SupCancels ==
    /\ ddSup = "cancel" /\ Discards /\ ddSup' = "failed"
    /\ ddPg' = [ddPg EXCEPT !.starting = FALSE] /\ ddGroup' = FALSE
    /\ UNCHANGED <<ddActive, ddProcess, ddDevice, ddCount, ddMon, ddStopper, ddReader>>

(* The supervisor's handler returns the lease. *)
SupFails ==
    /\ ddSup = "failed" /\ ReleasesLease /\ ddSup' = "done"
    /\ ddGroup' = FALSE /\ ddProcess' = 0
    /\ UNCHANGED <<ddActive, ddPg, ddPipes, ddCount, ddMon, ddStopper, ddReader>>

-----------------------------------------------------------------------------
(* The monitor thread *)

MonTo(pc) == ddMon' = pc

MonWaits ==
    /\ ddMon = "wait"
    /\ \/ ddPg.stopped /\ MonTo("exit") /\ UNCHANGED ddPg
       \/ /\ ~ddPg.stopped /\ (ddPg.reported \/ (ddPg.procs # 0 /\ ddPg.procs \notin ddAlive))
          /\ MonTo("failed") /\ ddPg' = [ddPg EXCEPT !.reported = FALSE]
    /\ UNCHANGED <<ddPlugin, ddDevice, ddPipes, ddCount, ddSup, ddStopper, ddReader>>

MonTerminates ==
    /\ ddMon = "failed"
    /\ IF ddPg.stopped THEN MonTo("exit") /\ UNCHANGED <<ddPg, ddPipes>>
                       ELSE TerminatesCurrent /\ MonTo("hook")
    /\ UNCHANGED <<ddPlugin, ddDevice, ddCount, ddSup, ddStopper, ddReader>>

(* _on_process_failure returns the lease, unless the plugin has let the group go. *)
MonHook ==
    /\ ddMon = "hook"
    /\ IF ddGroup THEN ReleasesLease ELSE UNCHANGED ddDevice
    /\ MonTo(IF ddPg.stopped THEN "exit" ELSE "reserve")
    /\ UNCHANGED <<ddPlugin, ddPg, ddPipes, ddCount, ddSup, ddStopper, ddReader>>

MonReserves ==
    /\ ddMon = "reserve"
    /\ IF ddCount < DdRestarts THEN ddCount' = ddCount + 1 /\ MonTo("backoff")
                               ELSE MonTo("exhausted") /\ UNCHANGED ddCount
    /\ UNCHANGED <<ddPlugin, ddDevice, ddPg, ddPipes, ddSup, ddStopper, ddReader>>

MonExhausted ==
    /\ ddMon = "exhausted" /\ MonTo("exit")
    /\ IF ddGroup THEN ReleasesLease /\ ddProcess' = 0 ELSE UNCHANGED <<ddDevice, ddProcess>>
    /\ UNCHANGED <<ddActive, ddGroup, ddPg, ddPipes, ddCount, ddSup, ddStopper, ddReader>>

MonBacksOff ==
    /\ ddMon = "backoff" /\ MonTo(IF ddPg.stopped THEN "exit" ELSE "prepare")
    /\ UNCHANGED <<ddPlugin, ddDevice, ddPg, ddPipes, ddCount, ddSup, ddStopper, ddReader>>

(* _on_process_restart looks at the plugin, and then claims the dongle again:
   a scan with rtl_test, which may take longer than stop() waits.          *)
MonPrepares ==
    /\ ddMon = "prepare" /\ MonTo(IF Wanted THEN "claim" ELSE "restart failed")
    /\ UNCHANGED <<ddPlugin, ddDevice, ddPg, ddPipes, ddCount, ddSup, ddStopper, ddReader>>

MonClaims ==
    /\ ddMon = "claim"
    /\ \/ Claims /\ MonTo("assign")
       \/ MonTo("restart failed") /\ UNCHANGED ddDevice
    /\ UNCHANGED <<ddPlugin, ddPg, ddPipes, ddCount, ddSup, ddStopper, ddReader>>

MonAssigns ==
    /\ ddMon = "assign" /\ ddLease' = TRUE /\ MonTo("launch")
    /\ UNCHANGED <<ddPlugin, ddClaimed, ddPg, ddPipes, ddCount, ddSup, ddStopper, ddReader>>

MonLaunches ==
    /\ ddMon = "launch"
    /\ \/ Launches /\ MonTo("publish")
       \/ MonTo("restart failed") /\ UNCHANGED ddPipes
    /\ UNCHANGED <<ddPlugin, ddDevice, ddPg, ddCount, ddSup, ddStopper, ddReader>>

(* Under the lock: published, or discarded after a stop *)
MonPublishes ==
    /\ ddMon = "publish"
    /\ IF ddPg.stopped
       THEN Discards /\ MonTo("exit") /\ UNCHANGED ddPg
       ELSE /\ ddPg' = [ddPg EXCEPT !.procs = ddLocal, !.reported = FALSE] /\ ddLocal' = 0
            /\ MonTo("started") /\ UNCHANGED <<ddAlive, ddLaunched>>
    /\ UNCHANGED <<ddPlugin, ddDevice, ddCount, ddSup, ddStopper, ddReader>>

MonStarted ==
    /\ ddMon = "started"
    /\ IF Wanted /\ ddPg.procs # 0
       THEN Adopts(ddPg.procs) /\ MonTo("wait") /\ UNCHANGED <<ddPg, ddPipes>>
       ELSE TerminatesCurrent /\ MonTo("restart failed") /\ UNCHANGED <<ddProcess, ddReader>>
    /\ UNCHANGED <<ddActive, ddGroup, ddDevice, ddCount, ddSup, ddStopper>>

(* _on_process_restart_failed; the failure goes round the loop. *)
MonRestartFailed ==
    /\ ddMon = "restart failed" /\ MonTo("failed")
    /\ IF ddGroup THEN ReleasesLease ELSE UNCHANGED ddDevice
    /\ UNCHANGED <<ddPlugin, ddPg, ddPipes, ddCount, ddSup, ddStopper, ddReader>>

MonExits ==
    /\ ddMon = "exit" /\ MonTo("done") /\ ddPg' = [ddPg EXCEPT !.running = FALSE]
    /\ UNCHANGED <<ddPlugin, ddDevice, ddPipes, ddCount, ddSup, ddStopper, ddReader>>

-----------------------------------------------------------------------------
(* stop(): the plugin's, and within it the group's *)

StopTo(pc) == ddStop' = pc /\ UNCHANGED ddOutlived

DdStopBegins ==
    /\ ddStop = "none" /\ StopTo("detach") /\ ddActive' = FALSE
    /\ UNCHANGED <<ddGroup, ddProcess, ddDevice, ddPg, ddPipes, ddCount, ddSup, ddMon, ddReader>>

StopDetaches ==
    /\ ddStop = "detach" /\ ddGroup' = FALSE /\ ddProcess' = 0
    /\ StopTo(IF ddGroup THEN "group" ELSE "release")
    /\ UNCHANGED <<ddActive, ddDevice, ddPg, ddPipes, ddCount, ddSup, ddMon, ddReader>>

GroupStop ==
    /\ ddStop = "group"
    /\ ddPg' = [ddPg EXCEPT !.running = FALSE, !.stopped = TRUE]
    /\ StopTo(IF ~(ddPg.running \/ ddPg.starting \/ ddPg.procs # 0) THEN "release"
              ELSE IF ddPg.starting THEN "launching" ELSE "terminate")
    /\ UNCHANGED <<ddPlugin, ddDevice, ddPipes, ddCount, ddSup, ddMon, ddReader>>

(* It waits for a launch under way, for at most eight seconds. *)
StopWaitsLaunch ==
    /\ ddStop = "launching" /\ StopTo("terminate")
    /\ UNCHANGED <<ddPlugin, ddDevice, ddPg, ddPipes, ddCount, ddSup, ddMon, ddReader>>

StopTerminates ==
    /\ ddStop = "terminate" /\ TerminatesCurrent /\ StopTo("join")
    /\ UNCHANGED <<ddPlugin, ddDevice, ddCount, ddSup, ddMon, ddReader>>

(* It joins the monitor, and leaves it to itself after eight seconds. *)
StopJoinsMonitor ==
    /\ ddStop = "join" /\ ddStop' = "release"
    /\ ddOutlived' = (ddMon \in {"claim", "assign"})
    /\ UNCHANGED <<ddPlugin, ddDevice, ddPg, ddPipes, ddCount, ddSup, ddMon, ddReader>>

StopReleases ==
    /\ ddStop = "release" /\ ReleasesLease /\ StopTo("threads")
    /\ UNCHANGED <<ddPlugin, ddPg, ddPipes, ddCount, ddSup, ddMon, ddReader>>

(* _join_threads, for at most five seconds *)
StopJoinsThreads ==
    /\ ddStop = "threads" /\ StopTo("done")
    /\ UNCHANGED <<ddPlugin, ddDevice, ddPg, ddPipes, ddCount, ddSup, ddMon, ddReader>>

StopSteps == StopDetaches \/ GroupStop \/ StopWaitsLaunch \/ StopTerminates \/ StopJoinsMonitor
             \/ StopReleases \/ StopJoinsThreads

-----------------------------------------------------------------------------
(* _parser_loop, _health_loop: the end of the output, or a silent decoder *)

ReaderEnds(p) ==
    /\ ddReader[p] = "reading"
    /\ ddReader' = [ddReader EXCEPT ![p] =
          IF ddActive /\ ddProcess = p /\ ddGroup THEN "report" ELSE "done"]
    /\ UNCHANGED <<ddPlugin, ddDevice, ddPg, ddPipes, ddCount, ddSup, ddMon, ddStopper>>

(* notify_unexpected_eof *)
ReaderReports(p) ==
    /\ ddReader[p] = "report" /\ ddReader' = [ddReader EXCEPT ![p] = "done"]
    /\ ddPg' = IF ddPg.running /\ ~ddPg.stopped THEN [ddPg EXCEPT !.reported = TRUE] ELSE ddPg
    /\ UNCHANGED <<ddPlugin, ddDevice, ddPipes, ddCount, ddSup, ddMon, ddStopper>>

PipelineDies(p) ==
    /\ p \in ddAlive /\ ddAlive' = ddAlive \ {p}
    /\ UNCHANGED <<ddPlugin, ddDevice, ddPg, ddLaunched, ddLocal, ddCount, ddSup, ddMon, ddStopper, ddReader>>

SupSteps == SupClaims \/ SupAssigns \/ SupChecks \/ SupBuildsGroup \/ GroupStarts \/ SupLaunches
            \/ SupHook \/ SupPublishes \/ SupCancels \/ SupFails
MonSteps == MonWaits \/ MonTerminates \/ MonHook \/ MonReserves \/ MonExhausted \/ MonBacksOff
            \/ MonPrepares \/ MonClaims \/ MonAssigns \/ MonLaunches \/ MonPublishes \/ MonStarted
            \/ MonRestartFailed \/ MonExits

DdNext == \/ SupSteps \/ MonSteps \/ DdStopBegins \/ StopSteps
          \/ \E p \in 1..DdPipelines : ReaderEnds(p) \/ ReaderReports(p) \/ PipelineDies(p)

DdSpec == DdInit /\ [][DdNext]_ddVars

-----------------------------------------------------------------------------
(* The state has its type; processes are the group's or a launching thread's. *)
DdTypeOK ==
    /\ {ddActive, ddGroup, ddLease, ddClaimed, ddOutlived, ddPg.running, ddPg.starting, ddPg.stopped, ddPg.reported} \subseteq BOOLEAN
    /\ {ddProcess, ddLocal, ddPg.procs, ddLaunched} \subseteq 0..DdPipelines
    /\ ddAlive \subseteq {ddLocal, ddPg.procs}
    /\ ddCount \in 0..DdRestarts

(* process_supervisor.py: "The complete process group must be gone first so
   another owner cannot acquire a device that a late pipeline stage still has
   open": a pipeline with the dongle open has its claim.  The one exception is
   a launch that stop() has overtaken: it is not published, and its thread
   ends it.                                                                *)
OpenDeviceIsClaimed ==
    /\ ddPg.procs \in ddAlive => ddClaimed
    /\ ddLocal \in ddAlive /\ ~ddClaimed => ~ddActive

(* When stop() has returned and the threads it did not wait out have ended,
   no pipeline runs, and the dongle is free but for one case: a monitor that
   stop() gave up while it was claiming the dongle never returns it.        *)
ThreadsEnded == ddSup = "done" /\ ddMon \in {"none", "done"}
StopFreesDongle ==
    ddStop = "done" /\ ThreadsEnded => ddAlive = {} /\ (ddClaimed => ddOutlived)

(* A stop comes to its end, and so do the threads that outlive its waits: a
   launch, a claim or a hook under way sees the stop and starts nothing.    *)
StopReturns == ddStop = "detach" ~> ddStop = "done" /\ ThreadsEnded
=============================================================================
