------------------------ MODULE InternetProbe_proofs ------------------------
(***************************************************************************)
(* Proofs about InternetProbe for any users, plugins, threshold and        *)
(* generations.  ForcedMeansOffline and LostOnlyAtThreshold are not        *)
(* inductive: Inv says in addition what a thread that is about to set the  *)
(* state knows while its generation is still the current one.              *)
(***************************************************************************)
EXTENDS InternetProbe, TLAPS

(* A user on its way to _set_state carries "offline", and while no newer
   toggle has bumped the generation the switch is still forced.            *)
UserPending ==
    \A u \in Users : ipPc[u] = "set" => ~ loc[u].on /\ (loc[u].gen = ipGen => force)

(* A monitor about to report a loss that no toggle has superseded has seen
   Threshold failures in a row.                                            *)
MonitorPending ==
    ipPc[Monitor] = "set" /\ loc[Monitor].gen = ipGen /\ ~ loc[Monitor].on => failures >= Threshold

(* Forced and still online: the call that forced it last has yet to set the
   state, and nothing supersedes it.                                       *)
ForcedPending ==
    force /\ online => \E u \in Users : ipPc[u] = "set" /\ loc[u].gen = ipGen /\ ~ loc[u].on

Inv == IpTypeOK /\ UserPending /\ MonitorPending /\ ForcedPending

-----------------------------------------------------------------------------
(* The locals of a thread have the types of IpTypeOK. *)
LEMMA LocalTypes ==
    ASSUME IpTypeOK, NEW t \in IpThreads
    PROVE  /\ loc[t] \in [gen : IpGens \cup {0}, on : BOOLEAN, todo : SUBSET Plugins]
           /\ loc[t].gen \in IpGens \cup {0}
           /\ loc[t].on \in BOOLEAN
           /\ loc[t].todo \in SUBSET Plugins
BY DEF IpTypeOK

(* IpInit establishes the inductive invariant: nobody is about to set the state. *)
LEMMA InitInv == IpInit => Inv
<1> SUFFICES ASSUME IpInit PROVE Inv
    OBVIOUS
<1>1. IpTypeOK
    <2>1. online \in BOOLEAN /\ force \in BOOLEAN /\ net \in BOOLEAN
        <3>1. online = (net /\ ~ force) /\ force \in BOOLEAN /\ net \in BOOLEAN
            BY DEF IpInit
        <3>2. CASE net /\ ~ force
            BY <3>1, <3>2
        <3>3. CASE ~ (net /\ ~ force)
            BY <3>1, <3>3
        <3> QED BY <3>2, <3>3
    <2>2. wake \in BOOLEAN /\ stopped \in BOOLEAN
        BY Zenon DEF IpInit
    <2>6. failures \in 0 .. Threshold
        BY ThresholdAssumption DEF IpInit
    <2>3. /\ ipPc \in [IpThreads -> {"wait", "begin", "probe", "decide", "done", "idle", "wake",
                                    "set", "publish", "deliver"}]
          /\ loc \in [IpThreads -> [gen : IpGens \cup {0}, on : BOOLEAN, todo : SUBSET Plugins]]
        BY DEF IpInit
    <2>4. ipGen \in IpGens \cup {0}
        BY DEF IpInit
    <2>5. /\ stage \in [Plugins -> {"none", "built", "half", "subscribed", "closed"}]
          /\ avail \in [Plugins -> BOOLEAN]
        BY DEF IpInit
    <2> QED BY <2>1, <2>2, <2>3, <2>4, <2>5, <2>6 DEF IpTypeOK
<1>2. UserPending /\ MonitorPending
    BY UsersAssumption DEF IpInit, UserPending, MonitorPending, IpThreads, Monitor
<1>3. ForcedPending
    BY DEF IpInit, ForcedPending
<1> QED BY <1>1, <1>2, <1>3 DEF Inv

(* Every step keeps the types. *)
LEMMA TypeStep == IpTypeOK /\ [IpNext]_ipVars => IpTypeOK'
<1> SUFFICES ASSUME IpTypeOK, [IpNext]_ipVars PROVE IpTypeOK'
    OBVIOUS
<1> USE ThresholdAssumption
<1>0. CASE UNCHANGED ipVars
    BY <1>0 DEF IpTypeOK, ipVars
<1>1. ASSUME NEW u \in Users, NEW enabled \in BOOLEAN, SetForceOffline(u, enabled)
      PROVE  IpTypeOK'
    <2>1. PICK g \in IpFresh : ipGen' = g /\ loc' = [loc EXCEPT ![u].gen = g, ![u].on = FALSE]
        BY <1>1 DEF SetForceOffline, IpBump
    <2>2. g \in IpGens \cup {0} /\ u \in IpThreads
        BY DEF IpFresh, IpThreads
    <2>3. loc' \in [IpThreads -> [gen : IpGens \cup {0}, on : BOOLEAN, todo : SUBSET Plugins]]
        BY <2>1, <2>2, ZenonT(30) DEF IpTypeOK
    <2> QED BY <1>1, <2>1, <2>2, <2>3 DEF SetForceOffline, IpGoto, IpTypeOK
<1>2. ASSUME NEW u \in Users, WakeMonitor(u) PROVE IpTypeOK'
    BY <1>2 DEF WakeMonitor, IpGoto, IpTypeOK
<1>3. CASE MonitorWakes
    BY <1>3 DEF MonitorWakes, IpGoto, IpTypeOK
<1>4. CASE BeginCheck
    BY <1>4 DEF BeginCheck, IpGoto, IpTypeOK
<1>5. CASE ProbeOnce
    BY <1>5, ZenonT(30) DEF ProbeOnce, IpGoto, IpTypeOK
<1>6. CASE Decide
    BY <1>6 DEF Decide, NextFailures, IpGoto, IpTypeOK
<1>7. ASSUME NEW t \in IpThreads, SetState(t) PROVE IpTypeOK'
    BY <1>7, LocalTypes DEF SetState, IpGoto, Rest, IpTypeOK
<1>8. ASSUME NEW t \in IpThreads, IpPublish(t) PROVE IpTypeOK'
    BY <1>8 DEF IpPublish, Listeners, IpGoto, IpTypeOK
<1>9. ASSUME NEW t \in IpThreads, Deliver(t) PROVE IpTypeOK'
    <2>1. CASE loc[t].todo = {}
        BY <1>9, <2>1 DEF Deliver, IpGoto, Rest, IpTypeOK
    <2>2. CASE loc[t].todo # {}
        <3>1. PICK p \in loc[t].todo : /\ loc' = [loc EXCEPT ![t].todo = @ \ {p}]
                                       /\ avail' = [avail EXCEPT ![p] = loc[t].on]
            BY <1>9, <2>2 DEF Deliver
        <3>2. loc[t].on \in BOOLEAN /\ loc[t].todo \in SUBSET Plugins
            BY LocalTypes
        <3>3. avail' \in [Plugins -> BOOLEAN]
            BY <3>1, <3>2 DEF IpTypeOK
        <3>4. loc' \in [IpThreads -> [gen : IpGens \cup {0}, on : BOOLEAN, todo : SUBSET Plugins]]
            BY <3>1, <3>2 DEF IpTypeOK
        <3> QED BY <1>9, <2>2, <3>3, <3>4 DEF Deliver, IpTypeOK
    <2> QED BY <2>1, <2>2
<1>10. ASSUME NEW p \in Plugins, IpConstruct(p) \/ MarkStarting(p) \/ IpUnsubscribe(p)
       PROVE  IpTypeOK'
    BY <1>10 DEF IpConstruct, MarkStarting, IpUnsubscribe, IpTypeOK
<1>11. CASE IpStop \/ NetChanges
    BY <1>11 DEF IpStop, NetChanges, IpTypeOK
<1> QED
    BY <1>0, <1>1, <1>2, <1>3, <1>4, <1>5, <1>6, <1>7, <1>8, <1>9, <1>10, <1>11
    DEF IpNext, IpMonitorStep, UserStep, SetStep, IpThreads

(* The invariant is inductive.  Only SetForceOffline, BeginCheck, Decide and
   SetState touch what Pending speaks of; the other steps move threads that
   are not about to set the state.                                         *)
LEMMA StepInv == Inv /\ [IpNext]_ipVars => Inv'
<1> SUFFICES ASSUME Inv, [IpNext]_ipVars PROVE Inv'
    OBVIOUS
<1> DEFINE Pending == UserPending /\ MonitorPending /\ ForcedPending
<1> USE ThresholdAssumption, UsersAssumption
<1>T. IpTypeOK /\ IpTypeOK'
    BY TypeStep DEF Inv
<1>M. Monitor \in IpThreads /\ Users \subseteq IpThreads /\ Monitor \notin Users
    BY DEF IpThreads, Monitor
<1>D. /\ loc \in [IpThreads -> [gen : IpGens \cup {0}, on : BOOLEAN, todo : SUBSET Plugins]]
      /\ DOMAIN ipPc = IpThreads
      /\ failures \in 0 .. Threshold
    BY <1>T DEF IpTypeOK
<1>0. ASSUME UNCHANGED ipVars PROVE Pending'
    BY <1>0 DEF Inv, UserPending, MonitorPending, ForcedPending, ipVars
<1>1. ASSUME NEW u \in Users, NEW enabled \in BOOLEAN, SetForceOffline(u, enabled)
      PROVE  Pending'
    <2>1. PICK g \in IpFresh : ipGen' = g /\ loc' = [loc EXCEPT ![u].gen = g, ![u].on = FALSE]
        BY <1>1 DEF SetForceOffline, IpBump
    <2>2. \A t \in IpThreads : loc[t].gen # g
        BY DEF IpFresh
    <2>3. /\ loc'[u].gen = g /\ loc'[u].on = FALSE
          /\ \A t \in IpThreads : t # u => loc'[t] = loc[t]
        BY <1>M, <1>D, <2>1
    <2>4. /\ ipPc'[u] = (IF enabled THEN "set" ELSE "wake")
          /\ \A t \in IpThreads : t # u => ipPc'[t] = ipPc[t]
          /\ force' = enabled
        BY <1>1, <1>M, <1>D DEF SetForceOffline, IpGoto
    <2>5. UserPending'
        BY <1>M, <2>1, <2>2, <2>3, <2>4 DEF Inv, UserPending
    <2>6. MonitorPending'
        BY <1>M, <2>1, <2>2, <2>3, <2>4 DEF MonitorPending
    <2>7. ForcedPending'
        BY <2>1, <2>3, <2>4 DEF ForcedPending
    <2> QED BY <2>5, <2>6, <2>7
<1>2. ASSUME NEW u \in Users, WakeMonitor(u) PROVE Pending'
    BY <1>2, <1>M, <1>D DEF WakeMonitor, IpGoto, Inv, UserPending, MonitorPending, ForcedPending
<1>3. ASSUME MonitorWakes PROVE Pending'
    BY <1>3, <1>M, <1>D DEF MonitorWakes, IpGoto, Inv, UserPending, MonitorPending, ForcedPending
<1>4. ASSUME BeginCheck PROVE Pending'
    BY <1>4, <1>M, <1>D DEF BeginCheck, IpGoto, Inv, UserPending, MonitorPending, ForcedPending
<1>5. ASSUME ProbeOnce PROVE Pending'
    BY <1>5, <1>M, <1>D DEF ProbeOnce, IpGoto, Inv, UserPending, MonitorPending, ForcedPending
<1>6. ASSUME Decide PROVE Pending'
    <2>1. /\ \A u \in Users : ipPc'[u] = ipPc[u]
          /\ UNCHANGED <<online, force, ipGen, loc>>
        BY <1>6, <1>M, <1>D DEF Decide, IpGoto
    <2>2. UserPending' /\ ForcedPending'
        BY <2>1 DEF Inv, UserPending, ForcedPending
    <2>3. ipPc'[Monitor] = "set" /\ ~ loc[Monitor].on => failures' >= Threshold
        BY <1>6, <1>M, <1>D DEF Decide, IpGoto
    <2> QED BY <2>1, <2>2, <2>3 DEF MonitorPending
<1>7. ASSUME NEW t \in IpThreads, SetState(t) PROVE Pending'
    <2>1. /\ ipPc[t] = "set" /\ ipPc'[t] # "set"
          /\ \A s \in IpThreads : s # t => ipPc'[s] = ipPc[s]
          /\ UNCHANGED <<force, failures, ipGen, loc>>
        BY <1>7, <1>M, <1>D DEF SetState, IpGoto, Rest
    <2>2. UserPending' /\ MonitorPending'
        BY <1>M, <2>1 DEF Inv, UserPending, MonitorPending
    <2>3. ForcedPending'
        <3> SUFFICES ASSUME force', online'
                     PROVE  \E u \in Users : ipPc'[u] = "set" /\ loc'[u].gen = ipGen' /\ ~ loc'[u].on
            BY DEF ForcedPending
        <3>1. online
            <4>1. force
                BY <2>1
            <4>2. CASE SetAllowed(t) /\ online # loc[t].on
                BY <1>7, <4>1, <4>2 DEF SetState, SetAllowed
            <4>3. CASE ~ (SetAllowed(t) /\ online # loc[t].on)
                BY <1>7, <4>3 DEF SetState
            <4> QED BY <4>2, <4>3
        <3>2. PICK u \in Users : ipPc[u] = "set" /\ loc[u].gen = ipGen /\ ~ loc[u].on
            BY <2>1, <3>1 DEF Inv, ForcedPending
        <3>3. u # t
            BY <1>7, <3>1, <3>2 DEF SetState, SetAllowed
        <3> QED BY <1>M, <2>1, <3>2, <3>3
    <2> QED BY <2>2, <2>3
<1>8. ASSUME NEW t \in IpThreads, IpPublish(t) \/ Deliver(t) PROVE Pending'
    <2>1. /\ ipPc[t] # "set" /\ ipPc'[t] # "set"
          /\ \A s \in IpThreads : s # t => ipPc'[s] = ipPc[s] /\ loc'[s] = loc[s]
          /\ UNCHANGED <<online, force, failures, ipGen>>
        BY <1>8, <1>M, <1>D DEF IpPublish, Deliver, IpGoto, Rest
    <2> QED BY <1>M, <2>1 DEF Inv, UserPending, MonitorPending, ForcedPending
<1>9. ASSUME NEW p \in Plugins, IpConstruct(p) \/ MarkStarting(p) \/ IpUnsubscribe(p)
      PROVE  Pending'
    BY <1>9 DEF IpConstruct, MarkStarting, IpUnsubscribe, Inv, UserPending, MonitorPending, ForcedPending
<1>10. ASSUME IpStop \/ NetChanges PROVE Pending'
    BY <1>10 DEF IpStop, NetChanges, Inv, UserPending, MonitorPending, ForcedPending
<1> QED
    <2>1. Pending' => Inv'
        BY <1>T DEF Inv
    <2> HIDE DEF Pending
    <2> QED BY <2>1, <1>0, <1>1, <1>2, <1>3, <1>4, <1>5, <1>6, <1>7, <1>8, <1>9, <1>10
            DEF IpNext, IpMonitorStep, UserStep, SetStep, IpThreads

(* What the invariant says of a step that loses the connection. *)
LEMMA LossStep ==
    Inv /\ [IpNext]_ipVars => (online /\ ~ online' => force \/ failures >= Threshold)
<1> SUFFICES ASSUME Inv, [IpNext]_ipVars, online, ~ online'
             PROVE  force \/ failures >= Threshold
    OBVIOUS
<1>1. PICK t \in IpThreads : SetState(t)
    BY DEF IpNext, ipVars, IpMonitorStep, UserStep, SetStep, SetForceOffline, WakeMonitor,
           MonitorWakes, BeginCheck, ProbeOnce, Decide, IpPublish, Deliver, IpConstruct,
           MarkStarting, IpUnsubscribe, IpStop, NetChanges, IpThreads
<1>2. ipPc[t] = "set" /\ loc[t].gen = ipGen /\ ~ loc[t].on
    BY <1>1 DEF SetState, SetAllowed
<1>3. CASE t \in Users
    BY <1>2, <1>3 DEF Inv, UserPending
<1>4. CASE t = Monitor
    BY <1>2, <1>4 DEF Inv, MonitorPending
<1> QED BY <1>3, <1>4 DEF IpThreads

-----------------------------------------------------------------------------
(* The strengthened invariant holds throughout. *)
THEOREM Invariance == IpSpec => []Inv
BY InitInv, StepInv, PTL DEF IpSpec

(* The probe's state stays well typed, whatever the constants. *)
THEOREM TypeCorrect == IpSpec => []IpTypeOK
<1>1. Inv => IpTypeOK
    BY DEF Inv
<1> QED BY <1>1, Invariance, PTL

(* set_force_offline: once the calls that forced it have returned the probe
   is offline, whatever checks were under way.                             *)
THEOREM ForcedOffline == IpSpec => []ForcedMeansOffline
<1>1. Inv => ForcedMeansOffline
    BY DEF Inv, ForcedPending, ForcedMeansOffline
<1> QED BY <1>1, Invariance, PTL

(* _run_check: an unforced probe reports a loss only after Threshold
   consecutive failures that no toggle interrupted.                        *)
THEOREM LossNeedsThreshold == IpSpec => LostOnlyAtThreshold
<1>1. Inv /\ [IpNext]_ipVars => [online /\ ~ online' => force \/ failures >= Threshold]_ipVars
    BY LossStep
<1> QED BY <1>1, Invariance, PTL DEF IpSpec, LostOnlyAtThreshold

(* The probe's state is well typed, force takes it offline, and without force
   only Threshold failures in a row do.                                    *)
THEOREM Hysteresis == IpSpec => ProbeHysteresis
BY TypeCorrect, ForcedOffline, LossNeedsThreshold, PTL DEF ProbeHysteresis

=============================================================================
