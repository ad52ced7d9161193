---------------------------- MODULE InternetProbe ----------------------------
(***************************************************************************)
(* The connectivity probe (src/reticulumpi/internet_probe.py), the users   *)
(* that force it offline and the plugins that follow its events            *)
(* (plugin_base.py).  A check runs without the lock and may be outdated by *)
(* a toggle before its result is applied; the generation tells.  Events    *)
(* are published after the lock is released, on the thread that changed    *)
(* the state.                                                              *)
(*                                                                         *)
(* Generations are compared for equality only, so the next one is the      *)
(* least that no thread remembers.                                         *)
(***************************************************************************)
EXTENDS Integers

CONSTANTS Users,      \* threads that call set_force_offline
          Plugins,
          Threshold,  \* offline_threshold
          IpGens

ASSUME ThresholdAssumption == Threshold \in Nat \ {0}
ASSUME UsersAssumption == "monitor" \notin Users
ASSUME GensAssumption == IpGens \subseteq Nat

VARIABLES
    online,    \* _is_online, once start has set it
    force,     \* _force_offline
    failures,  \* _consecutive_failures, up to the threshold it is compared with
    ipGen,       \* _generation
    wake,      \* _wake_event
    stopped,   \* _stop_event
    net,       \* some target answers
    ipPc,        \* the monitor and the users
    loc,       \* their locals: generation, the state to set, listeners left to call
    stage,     \* of a plugin: "none", "built", "half", "subscribed", "closed"
    avail      \* a plugin's _internet_available

ipVars == <<online, force, failures, ipGen, wake, stopped, net, ipPc, loc, stage, avail>>

Monitor == "monitor"
IpThreads == Users \cup {Monitor}

(* The plugins that hear INTERNET_ONLINE or INTERNET_OFFLINE: a starting one
   subscribes to the first before the second.                              *)
Listeners(on) == {p \in Plugins : stage[p] = "subscribed" \/ (on /\ stage[p] = "half")}

(* start has probed once and set the first state; nobody listens yet. *)
IpInit ==
    /\ force \in BOOLEAN
    /\ net \in BOOLEAN
    /\ online = (net /\ ~ force)
    /\ failures = 0
    /\ ipGen = 0
    /\ wake = FALSE /\ stopped = FALSE
    /\ ipPc = [t \in IpThreads |-> IF t = Monitor THEN "wait" ELSE "idle"]
    /\ loc = [t \in IpThreads |-> [gen |-> 0, on |-> FALSE, todo |-> {}]]
    /\ stage = [p \in Plugins |-> "none"]
    /\ avail = [p \in Plugins |-> FALSE]

IpGoto(t, label) == ipPc' = [ipPc EXCEPT ![t] = label]

Rest(t) == IF t = Monitor THEN "wait" ELSE "idle"

-----------------------------------------------------------------------------
(* Users *)

IpFresh == IpGens \ ({ipGen} \cup {loc[t].gen : t \in IpThreads})

IpBump(t) == \E g \in IpFresh : /\ \A h \in IpFresh : g <= h
                                /\ ipGen' = g
                                /\ loc' = [loc EXCEPT ![t].gen = g, ![t].on = FALSE]

(* set_force_offline: enabling goes on to _set_state, disabling to the wake-up. *)
SetForceOffline(u, enabled) ==
    /\ ipPc[u] = "idle"
    /\ force' = enabled
    /\ failures' = 0
    /\ IpBump(u)
    /\ IpGoto(u, IF enabled THEN "set" ELSE "wake")
    /\ UNCHANGED <<online, wake, stopped, net, stage, avail>>

WakeMonitor(u) ==
    /\ ipPc[u] = "wake"
    /\ wake' = TRUE
    /\ IpGoto(u, "idle")
    /\ UNCHANGED <<online, force, failures, ipGen, stopped, net, loc, stage, avail>>

-----------------------------------------------------------------------------
(* The monitor thread: _monitor_loop and _run_check *)

(* wait ends by the interval or the wake event, which is cleared. *)
MonitorWakes ==
    /\ ipPc[Monitor] = "wait"
    /\ wake' = FALSE
    /\ IpGoto(Monitor, IF stopped THEN "done" ELSE "begin")
    /\ UNCHANGED <<online, force, failures, ipGen, stopped, net, loc, stage, avail>>

(* Mutant of BeginCheck: the generation known from the last check is kept. *)
BeginCheckOldGen ==
    /\ ipPc[Monitor] = "begin"
    /\ IpGoto(Monitor, "probe")
    /\ UNCHANGED <<online, force, failures, ipGen, wake, stopped, net, loc, stage, avail>>

BeginCheck ==
    /\ ipPc[Monitor] = "begin"
    /\ loc' = [loc EXCEPT ![Monitor].gen = ipGen]
    /\ IpGoto(Monitor, "probe")
    /\ UNCHANGED <<online, force, failures, ipGen, wake, stopped, net, stage, avail>>

(* probe_once: connects to the targets, unless forced offline *)
ProbeOnce ==
    /\ ipPc[Monitor] = "probe"
    /\ loc' = [loc EXCEPT ![Monitor].on = net /\ ~ force]
    /\ IpGoto(Monitor, "decide")
    /\ UNCHANGED <<online, force, failures, ipGen, wake, stopped, net, stage, avail>>

(* Mutant of NextFailures: the count goes on past the threshold. *)
NextFailuresOneMore(reachable) ==
    IF reachable THEN 0 ELSE IF failures <= Threshold THEN failures + 1 ELSE failures

NextFailures(reachable) ==
    IF reachable THEN 0 ELSE IF failures < Threshold THEN failures + 1 ELSE failures

(* The decision under the lock; a newer toggle supersedes the result. *)
Decide ==
    LET reachable == loc[Monitor].on
    IN  /\ ipPc[Monitor] = "decide"
        /\ IF loc[Monitor].gen # ipGen
           THEN IpGoto(Monitor, "wait") /\ UNCHANGED failures
           ELSE /\ failures' = NextFailures(reachable)
                /\ IpGoto(Monitor, IF \/ reachable /\ ~ force /\ ~ online
                                      \/ ~ reachable /\ online /\ failures' >= Threshold
                                   THEN "set" ELSE "wait")
        /\ UNCHANGED <<online, force, ipGen, wake, stopped, net, loc, stage, avail>>

-----------------------------------------------------------------------------
(* _set_state, on any thread *)

(* Mutants of SetAllowed: a superseded result is applied, or any good news is. *)
SetAllowedAnyGen(t) == ~ (loc[t].on /\ force)

SetAllowedOnline(t) == loc[t].gen = ipGen \/ loc[t].on

SetAllowed(t) == loc[t].gen = ipGen /\ ~ (loc[t].on /\ force)

SetState(t) ==
    /\ ipPc[t] = "set"
    /\ IF SetAllowed(t) /\ online # loc[t].on
       THEN online' = loc[t].on /\ IpGoto(t, "publish")
       ELSE UNCHANGED online /\ IpGoto(t, Rest(t))
    /\ UNCHANGED <<force, failures, ipGen, wake, stopped, net, loc, stage, avail>>

(* EventBus.publish: the listeners are listed once ... *)
IpPublish(t) ==
    /\ ipPc[t] = "publish"
    /\ loc' = [loc EXCEPT ![t].todo = Listeners(loc[t].on)]
    /\ IpGoto(t, "deliver")
    /\ UNCHANGED <<online, force, failures, ipGen, wake, stopped, net, stage, avail>>

(* ... and called one after the other: PluginBase._on_internet_event *)
Deliver(t) ==
    /\ ipPc[t] = "deliver"
    /\ IF loc[t].todo = {}
       THEN IpGoto(t, Rest(t)) /\ UNCHANGED <<loc, avail>>
       ELSE \E p \in loc[t].todo :
              /\ loc' = [loc EXCEPT ![t].todo = @ \ {p}]
              /\ avail' = [avail EXCEPT ![p] = loc[t].on]
              /\ UNCHANGED ipPc
    /\ UNCHANGED <<online, force, failures, ipGen, wake, stopped, net, stage>>

SetStep(t) == SetState(t) \/ IpPublish(t) \/ Deliver(t)

-----------------------------------------------------------------------------
(* PluginBase.__init__ takes the current state; mark_starting subscribes,
   to one event type after the other.                                      *)
IpConstruct(p) ==
    /\ stage[p] = "none"
    /\ stage' = [stage EXCEPT ![p] = "built"]
    /\ avail' = [avail EXCEPT ![p] = online]
    /\ UNCHANGED <<online, force, failures, ipGen, wake, stopped, net, ipPc, loc>>

MarkStarting(p) ==
    /\ stage[p] \in {"built", "half"}
    /\ stage' = [stage EXCEPT ![p] = IF @ = "built" THEN "half" ELSE "subscribed"]
    /\ UNCHANGED <<online, force, failures, ipGen, wake, stopped, net, ipPc, loc, avail>>

(* unsubscribe_all at the end of stop; a restart builds another instance. *)
IpUnsubscribe(p) ==
    /\ stage[p] = "subscribed"
    /\ stage' = [stage EXCEPT ![p] = "closed"]
    /\ UNCHANGED <<online, force, failures, ipGen, wake, stopped, net, ipPc, loc, avail>>

IpStop ==
    /\ ~ stopped
    /\ stopped' = TRUE /\ wake' = TRUE
    /\ UNCHANGED <<online, force, failures, ipGen, net, ipPc, loc, stage, avail>>

NetChanges ==
    /\ net' = ~ net
    /\ UNCHANGED <<online, force, failures, ipGen, wake, stopped, ipPc, loc, stage, avail>>

IpMonitorStep == MonitorWakes \/ BeginCheck \/ ProbeOnce \/ Decide \/ SetStep(Monitor)

UserStep(u) == WakeMonitor(u) \/ SetStep(u)

IpNext ==
    \/ IpMonitorStep
    \/ \E u \in Users : UserStep(u) \/ \E enabled \in BOOLEAN : SetForceOffline(u, enabled)
    \/ \E p \in Plugins : IpConstruct(p) \/ MarkStarting(p) \/ IpUnsubscribe(p)
    \/ IpStop \/ NetChanges

IpSpec == IpInit /\ [][IpNext]_ipVars

(* The monitor loop never blocks for long, and a user's call returns. *)
IpFairSpec == IpSpec /\ WF_ipVars(IpMonitorStep) /\ \A u \in Users : WF_ipVars(UserStep(u))

-----------------------------------------------------------------------------
(* Properties *)

(* Every variable keeps its type; the failures counted stay within the
   threshold they are compared with.                                       *)
IpTypeOK ==
    /\ online \in BOOLEAN /\ force \in BOOLEAN /\ net \in BOOLEAN
    /\ wake \in BOOLEAN /\ stopped \in BOOLEAN
    /\ failures \in 0 .. Threshold
    /\ ipGen \in IpGens \cup {0}
    /\ ipPc \in [IpThreads -> {"wait", "begin", "probe", "decide", "done", "idle", "wake",
                               "set", "publish", "deliver"}]
    /\ loc \in [IpThreads -> [gen : IpGens \cup {0}, on : BOOLEAN, todo : SUBSET Plugins]]
    /\ stage \in [Plugins -> {"none", "built", "half", "subscribed", "closed"}]
    /\ avail \in [Plugins -> BOOLEAN]

(* Forced offline means offline, as soon as the calls that forced it return:
   no check that began before can set the state online again.              *)
ForcedMeansOffline ==
    force /\ (\A u \in Users : ipPc[u] # "set") => ~ online

(* Without force, online is lost only after Threshold consecutive failures
   since the last success or toggle: a toggle during a check voids it.     *)
LostOnlyAtThreshold ==
    [][online /\ ~ online' => force \/ failures >= Threshold]_ipVars

(* The users leave the switch alone and the network stays as it is. *)
Settles(up) == <>[](net = up /\ ~ force /\ ~ stopped /\ \A u \in Users : ipPc[u] = "idle")

(* A network that is back is noticed although a toggle discarded checks. *)
RecoveryNoticed == Settles(TRUE) => <>[]online

(* An outage is noticed. *)
OutageNoticed == Settles(FALSE) => <>[](~ online)

(* plugin_base.py: internet_available is "Whether internet is currently
   available".  When no event is under way every started plugin has the
   probe's state.                                                          *)
PluginsAgree ==
    (\A t \in IpThreads : ipPc[t] \notin {"publish", "deliver"}) =>
        \A p \in Listeners(FALSE) : avail[p] = online

(* Forced offline means offline, and without force the online state is left only
   after as many failures in a row as the threshold (_run_check).          *)
ProbeHysteresis == [](IpTypeOK /\ ForcedMeansOffline) /\ LostOnlyAtThreshold

=============================================================================
