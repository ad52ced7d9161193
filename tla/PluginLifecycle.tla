--------------------------- MODULE PluginLifecycle ---------------------------
(***************************************************************************)
(* The life of plugins: the state machine and managed resources of         *)
(* plugin_base.py, and the application that starts plugins in dependency   *)
(* order, enables and disables them on request and shuts them down         *)
(* (app.py).  start() and stop() run on daemon workers the application     *)
(* waits for only so long; a worker that is late goes on.                  *)
(*                                                                         *)
(* An instance is one object of a plugin class; enabling a name again      *)
(* makes another one.  A thread that lost a plugin's readiness tells the   *)
(* dependents before it goes on: the plugin is in "notice" until then.     *)
(***************************************************************************)
EXTENDS Integers, FiniteSets, SequencesExt

CONSTANTS
    Insts, Name,     \* instances and their plugin_name
    Boot,            \* the instances loaded at startup, in start order
    Deps,            \* plugin_dependencies of a name
    Api,             \* plugin_lifecycle_api of a name
    Slow,            \* instances whose start, stop or cleanup may take too long
    PlFailing,       \* instances whose start or stop may raise
    Vanishing,       \* instances that may report themselves hung
    EarlyRequests,   \* whether remote control is up before startup ends
    PlNone

Names == {Name[i] : i \in Insts}

ASSUME NamesAssumption == Deps \in [Names -> SUBSET Names] /\ Api \in [Names -> {1, 2}]
ASSUME BootAssumption == Boot \in Seq(Insts)
ASSUME PlNoneAssumption == PlNone \notin Insts
ASSUME SubsetAssumption == (Slow \cup PlFailing \cup Vanishing) \subseteq Insts

VARIABLES
    state,     \* _plugin_state
    active,    \* not _stop_event
    complete,  \* _cleanup_complete
    listed,    \* _managed_cleanups
    held,      \* the resources a plugin has
    closing,   \* those whose cleanup callback is running
    cleaner,   \* instances with a cleanup thread on its way
    starter,   \* the start() worker
    plStopper, \* the stop() workers, by who wanted the stop
    plugins,   \* app.plugins, in order
    notice,    \* instances whose lost readiness is yet to be told
    down,      \* _shutting_down
    plPc, cur,   \* of the main thread and of the thread with the transition lock
    job,       \* what they are doing
    todo       \* names or instances the main thread has left to start or stop

resVars == <<complete, listed, held, closing, cleaner>>
callVars == <<plPc, cur, job, todo>>
plVars == <<state, active, resVars, starter, plStopper, plugins, notice, down, callVars>>

Main == "main"
Remote == "remote"
PlCallers == {Main, Remote}
Wanters == PlCallers \cup {"dep"}

Resources == {"events", "own"}

PlRegistered == Range(plugins)

(* self.plugins.get(name) *)
Lookup(n) == IF \E i \in PlRegistered : Name[i] = n
             THEN CHOOSE i \in PlRegistered : Name[i] = n ELSE PlNone

BootNames == [k \in DOMAIN Boot |-> Name[Boot[k]]]

PlInit ==
    /\ state = [i \in Insts |-> "discovered"]
    /\ active = [i \in Insts |-> FALSE]
    /\ complete = [i \in Insts |-> FALSE]
    /\ listed = [i \in Insts |-> {}]
    /\ held = [i \in Insts |-> {}]
    /\ closing = [i \in Insts |-> {}]
    /\ cleaner = {}
    /\ starter = [i \in Insts |-> "none"]
    /\ plStopper = [i \in Insts |-> [w \in Wanters |-> "none"]]
    /\ plugins = Boot
    /\ notice = {}
    /\ down = FALSE
    /\ plPc = [c \in PlCallers |-> IF c = Main THEN "boot" ELSE "idle"]
    /\ cur = [c \in PlCallers |-> PlNone]
    /\ job = [c \in PlCallers |-> IF c = Main THEN "boot" ELSE "none"]
    /\ todo = BootNames

PlGoto(c, label) == plPc' = [plPc EXCEPT ![c] = label]

-----------------------------------------------------------------------------
(* PluginBase: the state a method leaves behind *)

(* request_stop *)
AfterRequestStop(s) == IF s \in {"failed", "hung"} THEN s ELSE "stopping"

(* Mutant of AfterStopped: a plugin that hung is taken for stopped. *)
AfterStoppedAlways(s) == "stopped"

(* mark_stopped *)
AfterStopped(s) == IF s \in {"failed", "hung"} THEN s ELSE "stopped"

(* mark_start_failed *)
AfterStartFailed(s) == IF s \in {"starting", "failed", "stopping"} THEN "failed" ELSE s

(* mark_blocked *)
AfterBlocked(s) == IF s \in {"discovered", "blocked"} THEN "blocked" ELSE s

(* mark_ready *)
AfterReady(s) == IF s = "starting" THEN "ready" ELSE s

PlSetState(i, s) == state' = [state EXCEPT ![i] = s]

(* A state without readiness: the stop event is set, and the thread that
   took the readiness away is to tell the dependents.                      *)
Lose(i, s) ==
    /\ PlSetState(i, s)
    /\ active' = [active EXCEPT ![i] = FALSE]
    /\ notice' = IF state[i] = "ready" THEN notice \cup {i} ELSE notice

(* mark_ready, by the application or the plugin *)
BecomeReady(i) ==
    /\ PlSetState(i, AfterReady(state[i]))
    /\ active' = [active EXCEPT ![i] = @ \/ state[i] = "starting"]

(* mark_start_failed, by the application *)
FailStart(i) ==
    /\ PlSetState(i, AfterStartFailed(state[i]))
    /\ active' = [active EXCEPT ![i] =
                    @ /\ state[i] \notin {"starting", "failed", "stopping"}]

(* cleanup_managed_resources up to its callbacks; only the first call has any. *)
TakeCleanups(i) ==
    /\ complete' = [complete EXCEPT ![i] = TRUE]
    /\ listed' = [listed EXCEPT ![i] = {}]
    /\ closing' = [closing EXCEPT ![i] = @ \cup listed[i]]

-----------------------------------------------------------------------------
(* The start() worker *)

(* Mutant of MayActivate: a late start() switches the plugin on again. *)
MayActivateAlways(s) == TRUE

(* The states in which setting _active takes effect *)
MayActivate(s) == s \in {"discovered", "starting", "ready"}

(* start() makes the plugin active, unless it has been given up, and acquires. *)
PlAcquire(i) ==
    /\ starter[i] = "run"
    /\ active' = [active EXCEPT ![i] = @ \/ MayActivate(state[i])]
    /\ held' = [held EXCEPT ![i] = @ \cup {"own"}]
    /\ starter' = [starter EXCEPT ![i] = "got"]
    /\ UNCHANGED <<state, complete, listed, closing, cleaner, plStopper, plugins, notice, down,
                   callVars>>

(* Mutant of RegisterCleanup: the list is not closed by the cleanup. *)
RegisterCleanupAnyTime(i) ==
    /\ starter[i] = "got"
    /\ listed' = [listed EXCEPT ![i] = @ \cup {"own"}]
    /\ starter' = [starter EXCEPT ![i] = "registered"]
    /\ UNCHANGED <<state, active, complete, held, closing, cleaner, plStopper, plugins, notice,
                   down, callVars>>

(* register_cleanup: too late, the resource is released at once and start()
   gets an exception.                                                      *)
RegisterCleanup(i) ==
    /\ starter[i] = "got"
    /\ IF complete[i]
       THEN /\ closing' = [closing EXCEPT ![i] = @ \cup {"own"}]
            /\ starter' = [starter EXCEPT ![i] = "fail"]
            /\ UNCHANGED listed
       ELSE /\ listed' = [listed EXCEPT ![i] = @ \cup {"own"}]
            /\ starter' = [starter EXCEPT ![i] = "registered"]
            /\ UNCHANGED closing
    /\ UNCHANGED <<state, active, complete, held, cleaner, plStopper, plugins, notice, down,
                   callVars>>

StartReturns(i) ==
    /\ \/ starter[i] = "registered" /\ starter' = [starter EXCEPT ![i] = "ok"]
       \/ /\ i \in PlFailing
          /\ starter[i] \in {"run", "registered"}
          /\ starter' = [starter EXCEPT ![i] = "fail"]
    /\ UNCHANGED <<state, active, resVars, plStopper, plugins, notice, down, callVars>>

(* An API v2 plugin declares itself ready, in start() or later. *)
MarkReady(i) ==
    /\ Api[Name[i]] = 2
    /\ starter[i] \in {"registered", "ok"} /\ state[i] = "starting"
    /\ BecomeReady(i)
    /\ UNCHANGED <<resVars, starter, plStopper, plugins, notice, down, callVars>>

(* A plugin whose radio is gone calls mark_hung. *)
Vanish(i) ==
    /\ i \in Vanishing /\ state[i] = "ready"
    /\ Lose(i, "hung")
    /\ UNCHANGED <<resVars, starter, plStopper, plugins, down, callVars>>

-----------------------------------------------------------------------------
(* Cleanup *)

CleanupThread(i) ==
    /\ i \in cleaner
    /\ cleaner' = cleaner \ {i}
    /\ TakeCleanups(i)
    /\ UNCHANGED <<state, active, held, starter, plStopper, plugins, notice, down, callVars>>

(* A cleanup callback ends: they run one by one and backwards, except that a
   slow one is abandoned and ends when it ends.                            *)
PlRelease(i, r) ==
    /\ r \in closing[i]
    /\ r = "events" => "own" \notin closing[i] \/ i \in Slow
    /\ closing' = [closing EXCEPT ![i] = @ \ {r}]
    /\ held' = [held EXCEPT ![i] = @ \ {r}]
    /\ UNCHANGED <<state, active, complete, listed, cleaner, starter, plStopper, plugins, notice,
                   down, callVars>>

(* The caller of a cleanup has waited for the callbacks, or abandoned them. *)
CleanupOver(i) == closing[i] = {} \/ i \in Slow

-----------------------------------------------------------------------------
(* The stop() workers *)

PlStopReturns(i, w) ==
    /\ plStopper[i][w] = "run"
    /\ plStopper' = [plStopper EXCEPT ![i][w] = IF w = "dep" THEN "ok" ELSE "clean"]
    /\ UNCHANGED <<state, active, resVars, starter, plugins, notice, down, callVars>>

(* stop() worked, or raised; the worker reports it after the cleanup. *)
StopResult(i) == IF i \in PlFailing THEN {"ok", "fail"} ELSE {"ok"}

StopCleanup(i, w) ==
    /\ plStopper[i][w] = "clean"
    /\ TakeCleanups(i)
    /\ IF complete[i]
       THEN \E r \in StopResult(i) : plStopper' = [plStopper EXCEPT ![i][w] = r]
       ELSE plStopper' = [plStopper EXCEPT ![i][w] = "cleaning"]
    /\ UNCHANGED <<state, active, held, cleaner, starter, plugins, notice, down, callVars>>

StopDone(i, w) ==
    /\ plStopper[i][w] = "cleaning"
    /\ CleanupOver(i)
    /\ \E r \in StopResult(i) : plStopper' = [plStopper EXCEPT ![i][w] = r]
    /\ UNCHANGED <<state, active, resVars, starter, plugins, notice, down, callVars>>

-----------------------------------------------------------------------------
(* Dependencies *)

ReadyPlugins == {i \in PlRegistered : state[i] = "ready"}

(* _hard_dependency_problem *)
DependencyProblem(n) == ~ (Deps[n] \subseteq {Name[i] : i \in ReadyPlugins})

DependentsIn(S, lost) == {i \in S : Deps[Name[i]] \cap {Name[j] : j \in lost} # {}}

(* Ready plugins that depend on p directly or through other ready ones *)
LostWith(p) ==
    LET Reach[n \in Nat] ==
            IF n = 0 THEN {p}
            ELSE Reach[n - 1] \cup DependentsIn(ReadyPlugins, Reach[n - 1])
    IN  (ReadyPlugins \cap Reach[Cardinality(Insts)]) \ {p}

(* _on_plugin_ready_lost, with _mark_dependency_blocked: each dependent gets a
   thread that calls stop() and one that cleans up.                        *)
Notify(p) ==
    LET lost == IF down \/ p \notin PlRegistered THEN {} ELSE LostWith(p)
    IN  /\ p \in notice
        /\ notice' = notice \ {p}
        /\ state' = [i \in Insts |-> IF i \in lost THEN "blocked" ELSE state[i]]
        /\ active' = [i \in Insts |-> active[i] /\ i \notin lost]
        /\ plStopper' = [i \in Insts |-> IF i \in lost THEN [plStopper[i] EXCEPT !["dep"] = "run"]
                                         ELSE plStopper[i]]
        /\ cleaner' = cleaner \cup lost
        /\ UNCHANGED <<complete, listed, held, closing, starter, plugins, down, callVars>>

-----------------------------------------------------------------------------
(* _start_plugin_with_timeout, for caller c *)

(* mark_starting, with the subscription to internet events, and the worker *)
PlMarkStarting(c) ==
    LET i == cur[c]
    IN  /\ plPc[c] = "begin"
        /\ IF state[i] \in {"hung", "starting", "ready", "stopping"}
           THEN /\ PlGoto(c, "startfailed")
                /\ UNCHANGED <<state, active, complete, listed, held, starter>>
           ELSE /\ PlSetState(i, "starting")
                /\ active' = [active EXCEPT ![i] = FALSE]
                /\ complete' = [complete EXCEPT ![i] = FALSE]
                /\ listed' = [listed EXCEPT ![i] = @ \cup {"events"}]
                /\ held' = [held EXCEPT ![i] = @ \cup {"events"}]
                /\ starter' = [starter EXCEPT ![i] = "run"]
                /\ PlGoto(c, "waitstart")
        /\ UNCHANGED <<closing, cleaner, plStopper, plugins, notice, down, cur, job, todo>>

(* start() returned in time. *)
StartedInTime(c) ==
    LET i == cur[c]
    IN  /\ plPc[c] = "waitstart"
        /\ \/ /\ starter[i] = "fail"
              /\ FailStart(i)
              /\ PlGoto(c, "startfailed")
           \/ /\ starter[i] = "ok" /\ Api[Name[i]] = 1
              /\ BecomeReady(i)
              /\ PlGoto(c, "started")
           \/ /\ starter[i] = "ok" /\ Api[Name[i]] = 2
              /\ PlGoto(c, "waitready")
              /\ UNCHANGED <<state, active>>
        /\ UNCHANGED <<resVars, starter, plStopper, plugins, notice, down, cur, job, todo>>

(* request_stop and mark_hung; a thread cleans up. *)
GiveUp(i) ==
    /\ Lose(i, "hung")
    /\ cleaner' = cleaner \cup {i}

(* Mutant of PlStartTimesOut: the application waits for start() to return. *)
StartTimesOutNever(c) == FALSE /\ UNCHANGED plVars

PlStartTimesOut(c) ==
    LET i == cur[c]
    IN  /\ plPc[c] = "waitstart"
        /\ i \in Slow /\ starter[i] \notin {"ok", "fail"}
        /\ GiveUp(i)
        /\ PlGoto(c, "startfailed")
        /\ UNCHANGED <<complete, listed, held, closing, starter, plStopper, plugins, down,
                       cur, job, todo>>

(* wait_until_ready, which any state but STARTING ends *)
WaitReady(c) ==
    LET i == cur[c]
    IN  /\ plPc[c] = "waitready"
        /\ state[i] # "starting" \/ i \in Slow
        /\ IF state[i] \in {"ready", "failed"}
           THEN /\ PlGoto(c, IF state[i] = "ready" THEN "started" ELSE "startfailed")
                /\ UNCHANGED <<state, active, notice, cleaner>>
           ELSE GiveUp(i) /\ PlGoto(c, "startfailed")
        /\ UNCHANGED <<complete, listed, held, closing, starter, plStopper, plugins, down,
                       cur, job, todo>>

-----------------------------------------------------------------------------
(* _stop_plugin_with_timeout *)

RequestStop(c) ==
    LET i == cur[c]
    IN  /\ plPc[c] = "stop"
        /\ Lose(i, AfterRequestStop(state[i]))
        /\ PlGoto(c, "spawn")
        /\ UNCHANGED <<resVars, starter, plStopper, plugins, down, cur, job, todo>>

SpawnStop(c) ==
    /\ plPc[c] = "spawn"
    /\ cur[c] \notin notice
    /\ plStopper' = [plStopper EXCEPT ![cur[c]][c] = "run"]
    /\ PlGoto(c, "waitstop")
    /\ UNCHANGED <<state, active, resVars, starter, plugins, notice, down, cur, job, todo>>

StoppedInTime(c) ==
    LET i == cur[c]
    IN  /\ plPc[c] = "waitstop"
        /\ \/ /\ plStopper[i][c] = "ok"
              /\ Lose(i, AfterStopped(state[i]))
              /\ PlGoto(c, "stopped")
           \/ /\ plStopper[i][c] = "fail"
              /\ FailStart(i) /\ UNCHANGED notice
              /\ PlGoto(c, "notstopped")
        /\ UNCHANGED <<resVars, starter, plStopper, plugins, down, cur, job, todo>>

(* Mutant of StopTimesOut: the application waits for stop() to return. *)
StopTimesOutNever(c) == FALSE /\ UNCHANGED plVars

StopTimesOut(c) ==
    LET i == cur[c]
    IN  /\ plPc[c] = "waitstop"
        /\ i \in Slow /\ plStopper[i][c] \notin {"ok", "fail"}
        /\ GiveUp(i)
        /\ PlGoto(c, "notstopped")
        /\ UNCHANGED <<complete, listed, held, closing, starter, plStopper, plugins, down,
                       cur, job, todo>>

-----------------------------------------------------------------------------
(* ReticulumPiApp.start: the plugins one after the other *)

PlWithout(n) == SelectSeq(plugins, LAMBDA i : Name[i] # n)

NextBoot == todo' = Tail(todo) /\ PlGoto(Main, "boot")

(* The KeyError for a plugin that is not registered any more ends the program. *)
Crashed == plPc[Main] = "boot" /\ todo # <<>> /\ Lookup(Head(todo)) = PlNone

(* Blocked before, for a dependency, or (with cleanup) by a failed migration
   or by the startup deadline                                              *)
BootBlocked ==
    LET i == Lookup(Head(todo))
    IN  /\ plPc[Main] = "boot" /\ todo # <<>> /\ i # PlNone
        /\ \/ /\ state[i] = "blocked" \/ DependencyProblem(Head(todo))
              /\ UNCHANGED <<complete, listed, closing>>
           \/ /\ state[i] # "blocked" /\ ~ DependencyProblem(Head(todo))
              /\ i \in PlFailing \/ Slow # {}
              /\ TakeCleanups(i)
        /\ PlSetState(i, AfterBlocked(state[i]))
        /\ NextBoot
        /\ UNCHANGED <<active, held, cleaner, starter, plStopper, plugins, notice, down, cur, job>>

BootPlugin ==
    LET i == Lookup(Head(todo))
    IN  /\ plPc[Main] = "boot" /\ todo # <<>> /\ i # PlNone
        /\ state[i] # "blocked" /\ ~ DependencyProblem(Head(todo))
        /\ cur' = [cur EXCEPT ![Main] = i]
        /\ PlGoto(Main, "begin")
        /\ UNCHANGED <<state, active, resVars, starter, plStopper, plugins, notice, down,
                       job, todo>>

(* Mutant of ToStop: also a plugin whose start() still runs is stopped. *)
ToStopAlways(c) == plPc[c] = "startfailed"

(* A start that failed is followed by a stop, one that hangs is left alone. *)
ToStop(c) == plPc[c] = "startfailed" /\ state[cur[c]] # "hung"

(* The plugin has started, hangs, or is to be stopped. *)
BootStarted ==
    /\ job[Main] = "boot" /\ plPc[Main] \in {"started", "startfailed"}
    /\ cur[Main] \notin notice
    /\ IF ToStop(Main) THEN PlGoto(Main, "stop") /\ UNCHANGED todo ELSE NextBoot
    /\ UNCHANGED <<state, active, resVars, starter, plStopper, plugins, notice, down, cur, job>>

(* A plugin that failed to start is dropped, unless it hangs. *)
BootDropped ==
    LET i == cur[Main]
    IN  /\ job[Main] = "boot" /\ plPc[Main] \in {"stopped", "notstopped"}
        /\ i \notin notice
        /\ FailStart(i)
        /\ plugins' = IF state[i] = "hung" THEN plugins ELSE PlWithout(Name[i])
        /\ NextBoot
        /\ UNCHANGED <<resVars, starter, plStopper, notice, down, cur, job>>

(* The registry is rebuilt in start order. *)
BootDone ==
    /\ plPc[Main] = "boot" /\ todo = <<>>
    /\ plugins' = LET there == SelectSeq(BootNames, LAMBDA n : Lookup(n) # PlNone)
                  IN  [k \in DOMAIN there |-> Lookup(there[k])]
    /\ PlGoto(Main, "serve")
    /\ UNCHANGED <<state, active, resVars, starter, plStopper, notice, down, cur, job, todo>>

-----------------------------------------------------------------------------
(* Requests of the remote control plugin, one at a time under the transition
   lock                                                                    *)

CanRequest == /\ plPc[Remote] = "idle" /\ ~ down
              /\ plPc[Main] = "serve" \/ (EarlyRequests /\ ~ Crashed)

(* Mutant of PlEnabled: the registry is not consulted. *)
EnabledNever(n) == FALSE

(* Whether the name is taken *)
PlEnabled(n) == Lookup(n) # PlNone

(* enable_plugin: a new instance, refused for a dependency or a failed
   migration, or to be started                                             *)
EnablePlugin(i) ==
    /\ CanRequest
    /\ state[i] = "discovered" /\ i \notin Range(Boot)
    /\ ~ PlEnabled(Name[i])
    /\ \/ /\ DependencyProblem(Name[i])
          /\ PlSetState(i, "blocked")
          /\ UNCHANGED <<complete, plugins, plPc, cur, job>>
       \/ /\ ~ DependencyProblem(Name[i]) /\ i \in PlFailing
          /\ PlSetState(i, "blocked")
          /\ complete' = [complete EXCEPT ![i] = TRUE]
          /\ plugins' = Append(plugins, i)
          /\ UNCHANGED <<plPc, cur, job>>
       \/ /\ ~ DependencyProblem(Name[i])
          /\ cur' = [cur EXCEPT ![Remote] = i]
          /\ job' = [job EXCEPT ![Remote] = "enable"]
          /\ PlGoto(Remote, "begin")
          /\ UNCHANGED <<state, complete, plugins>>
    /\ UNCHANGED <<active, listed, held, closing, cleaner, starter, plStopper, notice, down, todo>>

(* Mutant of KeepsEntry: an instance that could not be stopped is forgotten. *)
KeepsEntryStarted(i) == plPc[Remote] = "started"

(* A started instance is registered; so is one that hangs or did not stop. *)
KeepsEntry(i) == plPc[Remote] \in {"started", "notstopped"} \/ state[i] = "hung"

EnableEnds ==
    LET i == cur[Remote]
    IN  /\ job[Remote] = "enable"
        /\ plPc[Remote] \in {"started", "startfailed", "stopped", "notstopped"}
        /\ i \notin notice
        /\ IF ToStop(Remote)
           THEN PlGoto(Remote, "stop") /\ UNCHANGED plugins
           ELSE /\ plugins' = IF KeepsEntry(i) THEN Append(plugins, i) ELSE plugins
                /\ PlGoto(Remote, "idle")
        /\ UNCHANGED <<state, active, resVars, starter, plStopper, notice, down, cur, job, todo>>

(* disable_plugin: refused for a hung plugin and while ready plugins depend on it *)
DisablePlugin(n) ==
    /\ CanRequest
    /\ Lookup(n) # PlNone /\ state[Lookup(n)] # "hung"
    /\ \A i \in ReadyPlugins : n \notin Deps[Name[i]]
    /\ cur' = [cur EXCEPT ![Remote] = Lookup(n)]
    /\ job' = [job EXCEPT ![Remote] = "disable"]
    /\ PlGoto(Remote, "stop")
    /\ UNCHANGED <<state, active, resVars, starter, plStopper, plugins, notice, down, todo>>

DisableEnds ==
    /\ job[Remote] = "disable" /\ plPc[Remote] \in {"stopped", "notstopped"}
    /\ cur[Remote] \notin notice
    /\ plugins' = IF plPc[Remote] = "stopped" THEN PlWithout(Name[cur[Remote]]) ELSE plugins
    /\ PlGoto(Remote, "idle")
    /\ UNCHANGED <<state, active, resVars, starter, plStopper, notice, down, cur, job, todo>>

-----------------------------------------------------------------------------
(* shutdown: the plugins in reverse order within a deadline *)

(* Mutant of SweepOrder: the plugins are stopped in start order. *)
SweepOrderForward == plugins

SweepOrder == Reverse(plugins)

(* The flag is set under the transition lock. *)
ShutdownBegins ==
    /\ plPc[Main] = "serve" /\ plPc[Remote] = "idle"
    /\ down' = TRUE
    /\ todo' = SweepOrder
    /\ job' = [job EXCEPT ![Main] = "sweep"]
    /\ PlGoto(Main, "sweep")
    /\ UNCHANGED <<state, active, resVars, starter, plStopper, plugins, notice, cur>>

NextSweep == todo' = Tail(todo) /\ PlGoto(Main, "sweep")

(* A hung plugin is only cleaned up. *)
SweepHung ==
    /\ plPc[Main] = "sweep" /\ todo # <<>>
    /\ state[Head(todo)] = "hung"
    /\ cleaner' = cleaner \cup {Head(todo)}
    /\ NextSweep
    /\ UNCHANGED <<state, active, complete, listed, held, closing, starter, plStopper, plugins,
                   notice, down, cur, job>>

(* A blocked plugin is cleaned up, unless that has been done, and stopped. *)
SweepBlocked ==
    LET i == Head(todo)
    IN  /\ plPc[Main] = "sweep" /\ todo # <<>>
        /\ state[i] = "blocked"
        /\ IF complete[i]
           THEN /\ Lose(i, "stopped")
                /\ NextSweep
                /\ UNCHANGED <<complete, listed, closing, cur>>
           ELSE /\ TakeCleanups(i)
                /\ cur' = [cur EXCEPT ![Main] = i]
                /\ PlGoto(Main, "cleaning")
                /\ UNCHANGED <<state, active, notice, todo>>
        /\ UNCHANGED <<held, cleaner, starter, plStopper, plugins, down, job>>

SweepCleaned ==
    /\ plPc[Main] = "cleaning"
    /\ CleanupOver(cur[Main])
    /\ Lose(cur[Main], AfterStopped(state[cur[Main]]))
    /\ NextSweep
    /\ UNCHANGED <<resVars, starter, plStopper, plugins, down, cur, job>>

SweepStop ==
    /\ plPc[Main] = "sweep" /\ todo # <<>>
    /\ state[Head(todo)] \notin {"hung", "blocked"}
    /\ cur' = [cur EXCEPT ![Main] = Head(todo)]
    /\ PlGoto(Main, "stop")
    /\ UNCHANGED <<state, active, resVars, starter, plStopper, plugins, notice, down, job, todo>>

SweepStopped ==
    /\ job[Main] = "sweep" /\ plPc[Main] \in {"stopped", "notstopped"}
    /\ cur[Main] \notin notice
    /\ NextSweep
    /\ UNCHANGED <<state, active, resVars, starter, plStopper, plugins, notice, down, cur, job>>

(* Mutant of SweepDeadline: the remaining plugins are left as they are. *)
SweepDeadlineBreaks ==
    /\ plPc[Main] = "sweep" /\ todo # <<>> /\ Slow # {}
    /\ PlGoto(Main, "down")
    /\ UNCHANGED <<state, active, resVars, starter, plStopper, plugins, notice, down, cur, job, todo>>

(* The deadline has passed: request_stop, mark_hung and cleanup for the rest. *)
SweepDeadline ==
    /\ plPc[Main] = "sweep" /\ todo # <<>> /\ Slow # {}
    /\ state' = [i \in Insts |-> IF i \in Range(todo) THEN "hung" ELSE state[i]]
    /\ active' = [i \in Insts |-> active[i] /\ i \notin Range(todo)]
    /\ cleaner' = cleaner \cup Range(todo)
    /\ PlGoto(Main, "down")
    /\ UNCHANGED <<complete, listed, held, closing, starter, plStopper, plugins, notice, down,
                   cur, job, todo>>

SweepDone ==
    /\ plPc[Main] = "sweep" /\ todo = <<>>
    /\ PlGoto(Main, "down")
    /\ UNCHANGED <<state, active, resVars, starter, plStopper, plugins, notice, down, cur, job, todo>>

-----------------------------------------------------------------------------
StarterStep(i) == PlAcquire(i) \/ RegisterCleanup(i) \/ StartReturns(i) \/ MarkReady(i)

StopperStep(i) == \E w \in Wanters : PlStopReturns(i, w) \/ StopCleanup(i, w) \/ StopDone(i, w)

CleanerStep(i) == CleanupThread(i) \/ \E r \in Resources : PlRelease(i, r)

CallStep(c) ==
    \/ PlMarkStarting(c) \/ StartedInTime(c) \/ PlStartTimesOut(c) \/ WaitReady(c)
    \/ RequestStop(c) \/ SpawnStop(c) \/ StoppedInTime(c) \/ StopTimesOut(c)

MainStep ==
    \/ CallStep(Main)
    \/ BootBlocked \/ BootPlugin \/ BootStarted \/ BootDropped \/ BootDone
    \/ SweepHung \/ SweepBlocked \/ SweepCleaned \/ SweepStop \/ SweepStopped
    \/ SweepDeadline \/ SweepDone

RemoteStep == CallStep(Remote) \/ EnableEnds \/ DisableEnds

PlNext ==
    \/ \E i \in Insts : \/ StarterStep(i) \/ StopperStep(i) \/ CleanerStep(i)
                        \/ Vanish(i) \/ Notify(i) \/ EnablePlugin(i)
    \/ MainStep \/ RemoteStep \/ ShutdownBegins
    \/ \E n \in Names : DisablePlugin(n)

PlSpec == PlInit /\ [][PlNext]_plVars

(* Threads run; only a slow plugin's code may block for ever. *)
PlFairSpec ==
    /\ PlSpec
    /\ WF_plVars(MainStep) /\ WF_plVars(RemoteStep)
    /\ \A i \in Insts : WF_plVars(Notify(i))
    /\ \A i \in Insts \ Slow : /\ WF_plVars(StarterStep(i))
                               /\ WF_plVars(StopperStep(i))
                               /\ WF_plVars(CleanerStep(i))

-----------------------------------------------------------------------------
(* Properties *)

States == {"discovered", "starting", "ready", "stopping", "stopped", "blocked", "failed", "hung"}

(* Every variable keeps its type and a name is registered once. *)
PlTypeOK ==
    /\ state \in [Insts -> States]
    /\ active \in [Insts -> BOOLEAN] /\ complete \in [Insts -> BOOLEAN]
    /\ listed \in [Insts -> SUBSET Resources]
    /\ held \in [Insts -> SUBSET Resources]
    /\ closing \in [Insts -> SUBSET Resources]
    /\ cleaner \subseteq Insts /\ notice \subseteq Insts
    /\ starter \in [Insts -> {"none", "run", "got", "registered", "ok", "fail"}]
    /\ plStopper \in [Insts -> [Wanters -> {"none", "run", "clean", "cleaning", "ok", "fail"}]]
    /\ PlRegistered \subseteq Insts
    /\ \A j, k \in DOMAIN plugins : Name[plugins[j]] = Name[plugins[k]] => j = k
    /\ down \in BOOLEAN
    /\ cur \in [PlCallers -> Insts \cup {PlNone}]

(* A plugin that hung stays hung, whatever its late workers and the threads
   that go on with it do.                                                  *)
HungIsFinal == [][\A i \in Insts : state[i] = "hung" => state'[i] = "hung"]_plVars

(* A plugin that was given up or stopped is not active: a start() that is
   late cannot switch it on again.                                         *)
StoppedIsInactive ==
    \A i \in Insts : active[i] => state[i] \in {"starting", "ready"}

(* After the cleanup a plugin has nothing that is not being released, even
   when start() goes on acquiring.                                         *)
NoEscapedResource ==
    \A i \in Insts : complete[i] /\ starter[i] # "got" => held[i] \subseteq closing[i]

(* stop() does not run while start() does (an API v2 plugin is ready, and
   stopped with its provider, before its start() returns).                 *)
StopAfterStart ==
    \A i \in Insts : Api[Name[i]] = 1 /\ starter[i] \in {"run", "got", "registered"}
                        => \A w \in Wanters : plStopper[i][w] # "run"

(* When shutdown has ended no plugin runs, and what plugins have is being
   released.                                                               *)
NothingSurvivesShutdown ==
    plPc[Main] = "down" =>
        \A i \in Insts : /\ state[i] \notin {"starting", "ready"}
                         /\ held[i] # {} => complete[i] \/ i \in cleaner

(* A plugin that is ready, or whose start or stop worker is still busy, is in
   the registry or about to be: no second instance starts beside it.       *)
WorkingIsRegistered ==
    \A i \in Insts :
        \/ i \in PlRegistered
        \/ i = cur[Remote] /\ plPc[Remote] # "idle"
        \/ /\ state[i] \notin {"starting", "ready"}
           /\ starter[i] \notin {"run", "got", "registered"}
           /\ \A c \in PlCallers : plStopper[i][c] \notin {"run", "clean", "cleaning"}

(* Shutdown stops a provider only when no plugin that needs it is ready. *)
DependentsFirst ==
    [][plPc[Main] = "stop" /\ plPc'[Main] = "spawn" /\ down =>
          \A i \in ReadyPlugins : Name[cur[Main]] \notin Deps[Name[i]]]_plVars

(* Startup ends although plugins fail or hang. *)
StartupEnds == <>(plPc[Main] = "serve")

(* A shutdown that has begun ends although plugins hang. *)
ShutdownEnds == down ~> plPc[Main] = "down"

(* Plugins keep no resource past their cleanup, stop after their start, are registered
   while they work, stop before what they depend on, and do not survive shutdown. *)
PluginsContained ==
    /\ [](/\ PlTypeOK
          /\ NoEscapedResource
          /\ StopAfterStart
          /\ NothingSurvivesShutdown
          /\ WorkingIsRegistered)
    /\ DependentsFirst
=============================================================================
