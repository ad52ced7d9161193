------------------------------ MODULE FmReceiver ------------------------------
(* The FM/AM radio on a scheduled dongle: FMReceiverPlugin.  The operator's
   calls, the scheduler's callbacks, the supervisors that launch rtl_fm, the
   monitors that report its failure and the retry workers that ask for the
   dongle again run on threads of their own.

   A pipeline is named by the supervisor generation that launched it; a
   retry by its epoch.  The direct decoder is the other plugin that opens a
   dongle: what the two promise is stated together.                          *)
EXTENDS DirectDecoder, Functions

CONSTANTS FmGens,       \* bound on supervisor generations
          FmEpochs,     \* bound on retry epochs
          FmRestarts,   \* restart limit
          FmAutoPlay,   \* auto_play of the configuration
          FmOvertakes   \* a call of the operator or the handler of a failed launch that
                      \* has passed its checks may be overtaken by another play

ASSUME FmAssumption ==
    {FmGens, FmEpochs, FmRestarts} \subseteq Nat /\ {FmAutoPlay, FmOvertakes} \subseteq BOOLEAN

VARIABLES
    fmActive,    \* _active
    fmDongle,    \* _dongle_active
    fmSlot,      \* the scheduler's slot of the plugin
    fmPlaying,   \* _playing
    fmGen,       \* _supervisor_generation
    fmAlive,     \* _supervisor_alive
    fmWas,       \* _was_playing_before_yield
    fmGroup,     \* _process_group: a generation or 0
    fmOpen,      \* pipelines that run
    fmSup,       \* supervisor threads
    fmMon,       \* monitors of the groups
    fmCaller,    \* the operator's call and the scheduler's callback
    fmRetry,     \* _scheduler_retry_pending, _epoch, and restarts in the window
    fmWorker     \* retry workers

fmVars == <<fmActive, fmDongle, fmSlot, fmPlaying, fmGen, fmAlive, fmWas, fmGroup, fmOpen,
            fmSup, fmMon, fmCaller, fmRetry, fmWorker>>
fmThreads == <<fmSup, fmMon, fmWorker>>
fmPlayer == <<fmPlaying, fmGen, fmAlive>>

(* The bound stops the operator and the scheduler, not what they started: one
   generation for each of the two, for a stop and for each retry.           *)
FmRuns == 1..(FmGens + FmEpochs + 3)
Room == fmGen < FmGens
FmIdle == [pc |-> "none", group |-> 0]

FmInit ==
    /\ fmActive = TRUE /\ fmDongle = FALSE /\ fmSlot = "idle"
    /\ fmPlaying = FALSE /\ fmGen = 0 /\ fmAlive = FALSE /\ fmWas = FALSE
    /\ fmGroup = 0 /\ fmOpen = {}
    /\ fmSup = [g \in FmRuns |-> "none"] /\ fmMon = [g \in FmRuns |-> "none"]
    /\ fmCaller = [c \in {"operator", "scheduler"} |-> FmIdle]
    /\ fmRetry = [pending |-> FALSE, epoch |-> 0, count |-> 0]
    /\ fmWorker = [e \in 1..FmEpochs |-> "none"]

CallTo(c, pc) == fmCaller' = [fmCaller EXCEPT ![c].pc = pc]
(* _start_supervisor and _invalidate_supervisor *)
StartsSupervisor ==
    /\ FmOvertakes \/ "handler" \notin Range(fmSup)
    /\ fmGen' = fmGen + 1 /\ fmAlive' = TRUE
    /\ fmSup' = [fmSup EXCEPT ![fmGen + 1] = "start"]
Invalidates == fmGen' = fmGen + 1 /\ fmAlive' = FALSE
NewEpoch(pending) ==
    /\ fmRetry.epoch < FmEpochs
    /\ fmRetry' = [fmRetry EXCEPT !.epoch = @ + 1, !.pending = pending]

-----------------------------------------------------------------------------
(* play(), on the operator's thread or in an acquire callback *)

PlayChecks ==
    /\ fmCaller["operator"].pc = "none" /\ fmActive /\ Room
    /\ ~fmPlaying /\ ~fmAlive /\ fmDongle /\ CallTo("operator", "play")
    /\ FmOvertakes \/ fmCaller["scheduler"].pc # "play"
    /\ UNCHANGED <<fmActive, fmDongle, fmSlot, fmPlayer, fmWas, fmGroup, fmOpen, fmThreads, fmRetry>>

PlayStarts(c) ==
    /\ fmCaller[c].pc = "play" /\ CallTo(c, "none")
    /\ fmPlaying' = TRUE /\ StartsSupervisor
    /\ UNCHANGED <<fmActive, fmDongle, fmSlot, fmWas, fmGroup, fmOpen, fmMon, fmRetry, fmWorker>>

(* stop_playback() cancels a pending retry and makes the slot eligible again. *)
StopPlayback ==
    /\ fmCaller["operator"].pc = "none" /\ fmActive /\ Room /\ (fmPlaying \/ fmRetry.pending)
    /\ FmOvertakes \/ fmCaller["scheduler"].pc # "play"
    /\ NewEpoch(FALSE) /\ fmWas' = FALSE
    /\ fmSlot' = IF fmRetry.pending /\ fmSlot = "suspended" THEN "idle" ELSE fmSlot
    /\ fmPlaying' = FALSE /\ Invalidates /\ CallTo("operator", "detach")
    /\ UNCHANGED <<fmActive, fmDongle, fmGroup, fmOpen, fmThreads>>

(* tune() of a playing radio: _restart_playback *)
Tune ==
    /\ fmCaller["operator"].pc = "none" /\ fmActive /\ Room /\ fmPlaying
    /\ FmOvertakes \/ fmCaller["scheduler"].pc # "play"
    /\ Invalidates /\ CallTo("operator", "detach tune")
    /\ UNCHANGED <<fmActive, fmDongle, fmSlot, fmPlaying, fmWas, fmGroup, fmOpen, fmThreads, fmRetry>>

TuneRestarts ==
    /\ fmCaller["operator"].pc = "tune" /\ CallTo("operator", "none")
    /\ IF fmActive /\ fmPlaying /\ fmDongle THEN StartsSupervisor
       ELSE UNCHANGED <<fmGen, fmAlive, fmSup>>
    /\ UNCHANGED <<fmActive, fmDongle, fmSlot, fmPlaying, fmWas, fmGroup, fmOpen, fmMon, fmRetry, fmWorker>>

(* stop() of the plugin *)
FmStop ==
    /\ fmCaller["operator"].pc = "none" /\ fmActive 
    /\ fmActive' = FALSE /\ NewEpoch(FALSE)
    /\ fmPlaying' = FALSE /\ Invalidates /\ CallTo("operator", "detach stop")
    /\ UNCHANGED <<fmDongle, fmSlot, fmWas, fmGroup, fmOpen, fmThreads>>

Unregisters ==
    /\ fmCaller["operator"].pc = "stop" /\ fmCaller["scheduler"].pc = "none"
    /\ fmSlot' = "gone" /\ CallTo("operator", "stopped")
    /\ UNCHANGED <<fmActive, fmDongle, fmPlayer, fmWas, fmGroup, fmOpen, fmThreads, fmRetry>>

(* _terminate_process: the group is detached under the lock and stopped
   outside it; its stop waits for a launch under way and for the monitor.  *)
Resumes(pc) == CASE pc = "detach tune" -> "tune" [] pc = "detach stop" -> "stop"
                 [] pc = "detach yield" -> "yielded" [] OTHER -> "none"
Detaches(c) ==
    /\ fmCaller[c].pc \in {"detach", "detach tune", "detach stop", "detach yield"}
    /\ fmCaller[c].group = 0 /\ fmGroup' = 0
    /\ fmCaller' = [fmCaller EXCEPT ![c] =
          IF fmGroup = 0 THEN [pc |-> Resumes(@.pc), group |-> 0] ELSE [@ EXCEPT !.group = fmGroup]]
    /\ UNCHANGED <<fmActive, fmDongle, fmSlot, fmPlayer, fmWas, fmOpen, fmThreads, fmRetry>>

StopsGroup(c) ==
    LET g == fmCaller[c].group IN
    /\ g # 0 /\ fmSup[g] # "hook" /\ fmMon[g] \notin {"failed", "schedule", "exhaust"}
    /\ fmOpen' = fmOpen \ {g} /\ fmMon' = [fmMon EXCEPT ![g] = "none"]
    /\ fmCaller' = [fmCaller EXCEPT ![c] = [pc |-> Resumes(@.pc), group |-> 0]]
    /\ UNCHANGED <<fmActive, fmDongle, fmSlot, fmPlayer, fmWas, fmGroup, fmSup, fmWorker, fmRetry>>

-----------------------------------------------------------------------------
(* The scheduler's callbacks *)

(* _on_scheduler_acquire: plays if it played before, a retry asked, or it is
   to play whenever it has the dongle                                        *)
Acquire ==
    LET again == fmWas \/ fmRetry.pending
        plays == (again \/ FmAutoPlay) /\ Room /\ ~fmPlaying /\ ~fmAlive IN
    /\ fmCaller["scheduler"].pc = "none" /\ fmSlot = "idle"
    /\ FmOvertakes \/ fmCaller["operator"].pc \notin {"play", "tune", "detach", "detach tune"}
    /\ fmSlot' = "held" /\ fmDongle' = TRUE
    /\ fmRetry' = [fmRetry EXCEPT !.pending = FALSE]
    /\ fmWas' = (fmWas /\ ~again) /\ CallTo("scheduler", IF plays THEN "play" ELSE "none")
    /\ UNCHANGED <<fmActive, fmPlayer, fmGroup, fmOpen, fmThreads>>

(* _on_scheduler_yield *)
Yield ==
    /\ fmCaller["scheduler"].pc = "none" /\ fmSlot = "held" /\ Room
    /\ fmWas' = fmPlaying /\ fmDongle' = FALSE /\ fmSlot' = "yielding" /\ CallTo("scheduler", "yield")
    /\ UNCHANGED <<fmActive, fmPlayer, fmGroup, fmOpen, fmThreads, fmRetry>>

YieldStops ==
    /\ fmCaller["scheduler"].pc = "yield"
    /\ IF fmPlaying THEN fmPlaying' = FALSE /\ Invalidates /\ CallTo("scheduler", "detach yield")
                    ELSE CallTo("scheduler", "yielded") /\ UNCHANGED fmPlayer
    /\ UNCHANGED <<fmActive, fmDongle, fmSlot, fmWas, fmGroup, fmOpen, fmThreads, fmRetry>>

Yielded ==
    /\ fmCaller["scheduler"].pc = "yielded" /\ CallTo("scheduler", "none")
    /\ fmSlot' = IF fmSlot = "yielding" THEN "idle" ELSE fmSlot
    /\ UNCHANGED <<fmActive, fmDongle, fmPlayer, fmWas, fmGroup, fmOpen, fmThreads, fmRetry>>

-----------------------------------------------------------------------------
(* _supervisor_loop of generation g *)

SupTo(g, pc) == fmSup' = [fmSup EXCEPT ![g] = pc]
Wants(g) == g = fmGen /\ fmActive /\ fmPlaying /\ fmDongle

SupStarts(g) ==
    /\ fmSup[g] = "start" /\ fmAlive' = TRUE /\ SupTo(g, IF Wants(g) THEN "take" ELSE "end")
    /\ UNCHANGED <<fmActive, fmDongle, fmSlot, fmPlaying, fmGen, fmWas, fmGroup, fmOpen, fmMon, fmCaller, fmRetry, fmWorker>>

(* _launch_rtl_fm checks again under the lock before it owns the group. *)
SupTakesUnchecked(g) ==
    /\ fmSup[g] = "take" /\ fmGroup' = g /\ SupTo(g, "launch")
    /\ UNCHANGED <<fmActive, fmDongle, fmSlot, fmPlayer, fmWas, fmOpen, fmMon, fmCaller, fmRetry, fmWorker>>

SupTakes(g) ==
    /\ fmSup[g] = "take"
    /\ IF Wants(g) THEN fmGroup' = g /\ SupTo(g, "launch")
                   ELSE SupTo(g, "end") /\ UNCHANGED fmGroup
    /\ UNCHANGED <<fmActive, fmDongle, fmSlot, fmPlayer, fmWas, fmOpen, fmMon, fmCaller, fmRetry, fmWorker>>

FmSupLaunches(g) ==
    /\ fmSup[g] = "launch"
    /\ \/ fmOpen' = fmOpen \cup {g} /\ SupTo(g, "hook")
       \/ SupTo(g, "failed") /\ UNCHANGED fmOpen
    /\ UNCHANGED <<fmActive, fmDongle, fmSlot, fmPlayer, fmWas, fmGroup, fmMon, fmCaller, fmRetry, fmWorker>>

(* _on_process_started ends a launch nobody wants any more. *)
SupHookKeeps(g) ==
    /\ fmSup[g] = "hook" /\ fmMon' = [fmMon EXCEPT ![g] = "watch"] /\ SupTo(g, "end")
    /\ UNCHANGED <<fmActive, fmDongle, fmSlot, fmPlayer, fmWas, fmGroup, fmOpen, fmCaller, fmRetry, fmWorker>>

FmSupHook(g) ==
    /\ fmSup[g] = "hook"
    /\ IF fmGroup = g /\ fmActive /\ fmPlaying /\ fmDongle
       THEN fmMon' = [fmMon EXCEPT ![g] = "watch"] /\ SupTo(g, "end") /\ UNCHANGED fmOpen
       ELSE fmOpen' = fmOpen \ {g} /\ SupTo(g, "failed") /\ UNCHANGED fmMon
    /\ UNCHANGED <<fmActive, fmDongle, fmSlot, fmPlayer, fmWas, fmGroup, fmCaller, fmRetry, fmWorker>>

SupEnds(g) ==
    /\ fmSup[g] = "end" /\ SupTo(g, "done")
    /\ fmAlive' = IF g = fmGen THEN FALSE ELSE fmAlive
    /\ UNCHANGED <<fmActive, fmDongle, fmSlot, fmPlaying, fmGen, fmWas, fmGroup, fmOpen, fmMon, fmCaller, fmRetry, fmWorker>>

(* A failed launch of the current generation is retried like a failure. *)
FmSupFails(g) ==
    /\ fmSup[g] = "failed"
    /\ fmGroup' = IF fmGroup = g THEN 0 ELSE fmGroup
    /\ IF g = fmGen THEN fmMon' = [fmMon EXCEPT ![g] = "failed"] /\ SupTo(g, "handler")
                    ELSE SupTo(g, "end") /\ UNCHANGED fmMon
    /\ UNCHANGED <<fmActive, fmDongle, fmSlot, fmPlayer, fmWas, fmOpen, fmCaller, fmRetry, fmWorker>>

-----------------------------------------------------------------------------
(* The failure of a pipeline: its monitor ends it and calls the hook. *)

FmMonTo(g, pc) == fmMon' = [fmMon EXCEPT ![g] = pc]
(* the thread in the hook: a monitor, or a supervisor's exception handler *)
HookEnds(g) == FmMonTo(g, "none") /\ SupTo(g, IF fmSup[g] = "handler" THEN "end" ELSE fmSup[g])

FmPipelineFails(g) ==
    /\ fmMon[g] = "watch" /\ fmOpen' = fmOpen \ {g}
    /\ FmMonTo(g, IF fmGroup = g THEN "failed" ELSE "none")
    /\ UNCHANGED <<fmActive, fmDongle, fmSlot, fmPlayer, fmWas, fmGroup, fmSup, fmCaller, fmRetry, fmWorker>>

(* _release_sdr_after_failure suspends the slot. *)
Suspends(g) ==
    /\ fmMon[g] = "failed"
    /\ fmDongle' = FALSE /\ fmSlot' = IF fmSlot = "gone" THEN "gone" ELSE "suspended"
    /\ FmMonTo(g, IF fmSlot = "gone" THEN "exhaust" ELSE "schedule")
    /\ UNCHANGED <<fmActive, fmPlayer, fmWas, fmGroup, fmOpen, fmSup, fmCaller, fmRetry, fmWorker>>

(* _schedule_scheduler_retry, within the budget of the window *)
SchedulesRetryOf(g, kept) ==
    /\ fmMon[g] = "schedule" /\ kept < FmRestarts /\ fmRetry.epoch < FmEpochs
    /\ fmRetry' = [pending |-> TRUE, epoch |-> fmRetry.epoch + 1, count |-> kept + 1]
    /\ fmWorker' = [fmWorker EXCEPT ![fmRetry.epoch + 1] = "wait"]
    /\ fmGroup' = 0 /\ fmPlaying' = FALSE /\ fmWas' = TRUE /\ Invalidates /\ HookEnds(g)
    /\ UNCHANGED <<fmActive, fmDongle, fmSlot, fmOpen, fmCaller>>

SchedulesRetry(g) == \E kept \in 0..fmRetry.count : SchedulesRetryOf(g, kept)

RefusesRetry(g) ==
    /\ fmMon[g] = "schedule" /\ (fmRetry.count = FmRestarts \/ fmRetry.epoch = FmEpochs) /\ FmMonTo(g, "exhaust")
    /\ UNCHANGED <<fmActive, fmDongle, fmSlot, fmPlayer, fmWas, fmGroup, fmOpen, fmSup, fmCaller, fmRetry, fmWorker>>

(* _on_process_exhausted *)
FmExhausted(g) ==
    /\ fmMon[g] = "exhaust" /\ fmPlaying' = FALSE /\ fmDongle' = FALSE /\ HookEnds(g)
    /\ fmSlot' = IF fmSlot = "gone" THEN "gone" ELSE "suspended"
    /\ UNCHANGED <<fmActive, fmGen, fmAlive, fmWas, fmGroup, fmOpen, fmCaller, fmRetry, fmWorker>>

(* _resume_after_backoff *)
WorkerTo(e, pc) == fmWorker' = [fmWorker EXCEPT ![e] = pc]
FmWorkerWakes(e) ==
    /\ fmWorker[e] = "wait"
    /\ WorkerTo(e, IF fmActive /\ e = fmRetry.epoch /\ fmRetry.pending THEN "resume" ELSE "done")
    /\ UNCHANGED <<fmActive, fmDongle, fmSlot, fmPlayer, fmWas, fmGroup, fmOpen, fmSup, fmMon, fmCaller, fmRetry>>

WorkerGivesUp(e) ==
    /\ fmWorker[e] = "resume" /\ WorkerTo(e, "done")
    /\ UNCHANGED <<fmActive, fmDongle, fmSlot, fmPlayer, fmWas, fmGroup, fmOpen, fmSup, fmMon, fmCaller, fmRetry>>

WorkerResumes(e) ==
    /\ fmWorker[e] = "resume" /\ WorkerTo(e, "done")
    /\ IF fmSlot = "suspended"
       THEN fmSlot' = "idle" /\ UNCHANGED <<fmRetry, fmWas>>
       ELSE /\ fmRetry' = [fmRetry EXCEPT !.pending = @ /\ e # fmRetry.epoch]
            /\ fmWas' = FALSE /\ UNCHANGED fmSlot
    /\ UNCHANGED <<fmActive, fmDongle, fmPlayer, fmGroup, fmOpen, fmSup, fmMon, fmCaller>>

FmThreadStep(g) == SupStarts(g) \/ SupTakes(g) \/ FmSupLaunches(g) \/ FmSupHook(g) \/ SupEnds(g) \/ FmSupFails(g)
FmHookStep(g) == Suspends(g) \/ SchedulesRetry(g) \/ RefusesRetry(g) \/ FmExhausted(g)
SchedulerStep == Acquire \/ YieldStops \/ Yielded \/ PlayStarts("scheduler")
                 \/ Detaches("scheduler") \/ StopsGroup("scheduler")
OperatorStep == PlayStarts("operator") \/ TuneRestarts \/ Unregisters
                \/ Detaches("operator") \/ StopsGroup("operator")

FmNext ==
    \/ PlayChecks \/ StopPlayback \/ Tune \/ FmStop \/ OperatorStep
    \/ Yield \/ SchedulerStep
    \/ \E g \in FmRuns : FmThreadStep(g) \/ FmPipelineFails(g) \/ FmHookStep(g)
    \/ \E e \in 1..FmEpochs : FmWorkerWakes(e) \/ WorkerResumes(e)

FmSpec == FmInit /\ [][FmNext]_fmVars

-----------------------------------------------------------------------------
(* The state has its type. *)
FmTypeOK ==
    /\ {fmActive, fmDongle, fmPlaying, fmAlive, fmWas, fmRetry.pending} \subseteq BOOLEAN
    /\ fmSlot \in {"idle", "held", "yielding", "suspended", "gone"}
    /\ {fmGen, fmGroup} \subseteq FmRuns \cup {0} /\ fmOpen \subseteq FmRuns
    /\ fmRetry.epoch \in 0..FmEpochs /\ fmRetry.count \in 0..FmRestarts

(* A pipeline somebody is about to end: a stale launch before its hook, or
   the radio of a stop that has cleared _playing and not yet come to it.     *)
Ending(g) == \/ fmSup[g] = "hook"
             \/ \E c \in DOMAIN fmCaller :
                   \/ fmCaller[c].group = g
                   \/ fmGroup = g /\ fmCaller[c].pc \in {"detach", "detach tune", "detach stop", "detach yield"}

(* Once a yield, a suspension or a stop has given the dongle back, no rtl_fm
   goes on with it open, whatever thread was launching, tuning or failing.   *)
PlaysOnlyGranted ==
    fmSlot \notin {"held", "yielding"} => \A g \in fmOpen : Ending(g)

(* One radio: of two pipelines, all but one are about to be ended. *)
OneRadio == Cardinality({g \in fmOpen : ~Ending(g)}) <= 1

(* A retry that is pending is settled: the dongle comes back to it, or it is
   cancelled or given up.                                                    *)
RetrySettles == fmRetry.pending /\ fmActive ~> ~fmRetry.pending \/ ~fmActive
-----------------------------------------------------------------------------
(* The receiver and the decoder that owns its dongle have one open only while
   it is theirs, through one pipeline, and a stop frees it (fm_receiver.py,
   adsb_radar.py, process_supervisor.py).                                     *)
DonglesHeld ==
    /\ FmTypeOK /\ PlaysOnlyGranted /\ OneRadio
    /\ DdTypeOK /\ OpenDeviceIsClaimed /\ StopFreesDongle
=============================================================================
