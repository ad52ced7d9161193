----------------------- MODULE PluginLifecycle_proofs -----------------------
(***************************************************************************)
(* Proofs about PluginLifecycle for any plugins, dependencies, start order *)
(* and requests (early ones included): a hung plugin stays hung, and       *)
(* nothing that was given up or stopped is switched on again.              *)
(*                                                                         *)
(* StoppedIsInactive is not inductive: a start() worker may set _active in *)
(* the state DISCOVERED, so Inv adds that no worker exists in that state.  *)
(***************************************************************************)
EXTENDS PluginLifecycle, TLAPS

LifeType ==
    /\ state \in [Insts -> States]
    /\ active \in [Insts -> BOOLEAN]
    /\ starter \in [Insts -> {"none", "run", "got", "registered", "ok", "fail"}]

(* A plugin with a start() worker has left DISCOVERED for good. *)
StartedIsKnown == \A i \in Insts : starter[i] # "none" => state[i] # "discovered"

Inv == LifeType /\ StoppedIsInactive /\ StartedIsKnown

(* What every step keeps: the invariant, and hung plugins. *)
HungStays == \A i \in Insts : state[i] = "hung" => state'[i] = "hung"

-----------------------------------------------------------------------------
(* PlInit establishes the inductive invariant: nothing has been started. *)
LEMMA InitInv == PlInit => Inv
BY DEF PlInit, Inv, LifeType, StoppedIsInactive, StartedIsKnown, States

(* A step that touches neither states nor workers keeps the invariant. *)
LEMMA Untouched ==
    ASSUME Inv, UNCHANGED <<state, active, starter>>
    PROVE  Inv' /\ HungStays
BY DEF Inv, LifeType, StoppedIsInactive, StartedIsKnown, HungStays

(* A plugin that loses its readiness becomes inactive; only a state that is
   neither hung nor able to be active may be left for another one.         *)
LEMMA LoseKeeps ==
    ASSUME Inv, NEW i, NEW s \in {"stopping", "stopped", "failed", "hung"},
           state[i] = "hung" => s = "hung",
           Lose(i, s), UNCHANGED starter
    PROVE  Inv' /\ HungStays
BY DEF Inv, LifeType, StoppedIsInactive, StartedIsKnown, HungStays, Lose, PlSetState, States

(* mark_start_failed switches the plugin off in the states it leaves. *)
LEMMA FailStartKeeps ==
    ASSUME Inv, NEW i, FailStart(i), UNCHANGED starter
    PROVE  Inv' /\ HungStays
BY DEF Inv, LifeType, StoppedIsInactive, StartedIsKnown, HungStays, FailStart, PlSetState,
       AfterStartFailed, States

(* mark_ready leaves only STARTING. *)
LEMMA ReadyKeeps ==
    ASSUME Inv, NEW i, BecomeReady(i), UNCHANGED starter
    PROVE  Inv' /\ HungStays
BY DEF Inv, LifeType, StoppedIsInactive, StartedIsKnown, HungStays, BecomeReady, PlSetState,
       AfterReady, States

(* The start() worker: _active takes effect only before the plugin is given up. *)
LEMMA StarterKeeps ==
    ASSUME Inv, NEW i \in Insts, StarterStep(i)
    PROVE  Inv' /\ HungStays
<1>1. CASE PlAcquire(i)
      BY <1>1 DEF PlAcquire, MayActivate, Inv, LifeType, StoppedIsInactive, StartedIsKnown,
                  HungStays, States
<1>2. CASE RegisterCleanup(i)
      BY <1>2 DEF RegisterCleanup, Inv, LifeType, StoppedIsInactive, StartedIsKnown, HungStays
<1>3. CASE StartReturns(i)
      BY <1>3 DEF StartReturns, Inv, LifeType, StoppedIsInactive, StartedIsKnown, HungStays
<1>4. CASE MarkReady(i)
      BY <1>4, ReadyKeeps DEF MarkReady
<1> QED  BY <1>1, <1>2, <1>3, <1>4 DEF StarterStep

(* The thread of a lost provider blocks only plugins that are ready. *)
LEMMA NotifyKeeps ==
    ASSUME Inv, NEW p \in Insts, Notify(p)
    PROVE  Inv' /\ HungStays
<1> DEFINE lost == IF down \/ p \notin PlRegistered THEN {} ELSE LostWith(p)
<1>1. \A i \in lost : state[i] = "ready"
      BY DEF LostWith, ReadyPlugins
<1>2. /\ state' = [i \in Insts |-> IF i \in lost THEN "blocked" ELSE state[i]]
      /\ active' = [i \in Insts |-> active[i] /\ i \notin lost]
      /\ starter' = starter
      BY DEF Notify
<1> HIDE DEF lost
<1> QED  BY <1>1, <1>2 DEF Inv, LifeType, StoppedIsInactive, StartedIsKnown, HungStays, States

(* Starting and stopping a plugin on behalf of the main or a remote thread *)
LEMMA CallKeeps ==
    ASSUME Inv, NEW c \in PlCallers, CallStep(c)
    PROVE  Inv' /\ HungStays
<1>1. CASE PlMarkStarting(c)
      BY <1>1, ZenonT(30) DEF PlMarkStarting, PlSetState, Inv, LifeType, StoppedIsInactive, StartedIsKnown,
                  HungStays, States
<1>2. CASE StartedInTime(c)
  <2>1. UNCHANGED starter  BY <1>2 DEF StartedInTime
  <2>2. \/ FailStart(cur[c]) \/ BecomeReady(cur[c]) \/ UNCHANGED <<state, active>>
        BY <1>2 DEF StartedInTime
  <2> QED  BY <2>1, <2>2, FailStartKeeps, ReadyKeeps, Untouched
<1>3. CASE PlStartTimesOut(c) \/ StopTimesOut(c)
  <2>1. Lose(cur[c], "hung") /\ UNCHANGED starter
        BY <1>3 DEF PlStartTimesOut, StopTimesOut, GiveUp
  <2> QED  BY <2>1, LoseKeeps
<1>4. CASE WaitReady(c)
  <2>1. UNCHANGED starter  BY <1>4 DEF WaitReady
  <2>2. Lose(cur[c], "hung") \/ UNCHANGED <<state, active>>
        BY <1>4 DEF WaitReady, GiveUp
  <2> QED  BY <2>1, <2>2, LoseKeeps, Untouched
<1>5. CASE RequestStop(c)
  <2>1. Lose(cur[c], AfterRequestStop(state[cur[c]])) /\ UNCHANGED starter
        BY <1>5 DEF RequestStop
  <2> QED  BY <2>1, LoseKeeps DEF AfterRequestStop
<1>6. CASE SpawnStop(c)
      BY <1>6, Untouched DEF SpawnStop
<1>7. CASE StoppedInTime(c)
  <2>1. UNCHANGED starter  BY <1>7 DEF StoppedInTime
  <2>2. Lose(cur[c], AfterStopped(state[cur[c]])) \/ FailStart(cur[c])
        BY <1>7 DEF StoppedInTime
  <2> QED  BY <2>1, <2>2, LoseKeeps, FailStartKeeps DEF AfterStopped
<1> QED  BY <1>1, <1>2, <1>3, <1>4, <1>5, <1>6, <1>7 DEF CallStep

(* The startup loop *)
LEMMA BootKeeps ==
    ASSUME Inv,
           BootBlocked \/ BootPlugin \/ BootStarted \/ BootDropped \/ BootDone
    PROVE  Inv' /\ HungStays
<1>1. CASE BootBlocked
  <2> DEFINE i == Lookup(Head(todo))
  <2>1. /\ state' = [state EXCEPT ![i] = AfterBlocked(state[i])]
        /\ UNCHANGED <<active, starter>>
        BY <1>1 DEF BootBlocked, PlSetState
  <2> HIDE DEF i
  <2> QED  BY <2>1 DEF AfterBlocked, Inv, LifeType, StoppedIsInactive, StartedIsKnown,
                       HungStays, States
<1>2. CASE BootDropped
  <2>1. FailStart(cur[Main]) /\ UNCHANGED starter  BY <1>2 DEF BootDropped
  <2> QED  BY <2>1, FailStartKeeps
<1>3. CASE BootPlugin \/ BootStarted \/ BootDone
  <2>1. UNCHANGED <<state, active, starter>>
        BY <1>3 DEF BootPlugin, BootStarted, BootDone
  <2> QED  BY <2>1, Untouched
<1> QED  BY <1>1, <1>2, <1>3

(* The shutdown sweep *)
LEMMA SweepKeeps ==
    ASSUME Inv,
           \/ SweepHung \/ SweepBlocked \/ SweepCleaned \/ SweepStop \/ SweepStopped
           \/ SweepDeadline \/ SweepDone
    PROVE  Inv' /\ HungStays
<1>1. CASE SweepBlocked
  <2> DEFINE i == Head(todo)
  <2>1. state[i] = "blocked" /\ UNCHANGED starter  BY <1>1 DEF SweepBlocked
  <2>2. Lose(i, "stopped") \/ UNCHANGED <<state, active>>  BY <1>1 DEF SweepBlocked
  <2> QED  BY <2>1, <2>2, LoseKeeps, Untouched
<1>2. CASE SweepCleaned
  <2>1. Lose(cur[Main], AfterStopped(state[cur[Main]])) /\ UNCHANGED starter
        BY <1>2 DEF SweepCleaned
  <2> QED  BY <2>1, LoseKeeps DEF AfterStopped
<1>3. CASE SweepDeadline
  <2> DEFINE rest == Range(todo)
  <2>1. /\ state' = [i \in Insts |-> IF i \in rest THEN "hung" ELSE state[i]]
        /\ active' = [i \in Insts |-> active[i] /\ i \notin rest]
        /\ starter' = starter
        BY <1>3 DEF SweepDeadline
  <2> HIDE DEF rest
  <2> QED  BY <2>1 DEF Inv, LifeType, StoppedIsInactive, StartedIsKnown, HungStays, States
<1>4. CASE SweepHung \/ SweepStop \/ SweepStopped \/ SweepDone
  <2>1. UNCHANGED <<state, active, starter>>
        BY <1>4 DEF SweepHung, SweepStop, SweepStopped, SweepDone
  <2> QED  BY <2>1, Untouched
<1> QED  BY <1>1, <1>2, <1>3, <1>4

(* Requests: a new instance is DISCOVERED until it is refused or started. *)
LEMMA RequestKeeps ==
    ASSUME Inv,
           \/ EnableEnds \/ DisableEnds
           \/ \E i \in Insts : EnablePlugin(i)
           \/ \E n \in Names : DisablePlugin(n)
    PROVE  Inv' /\ HungStays
<1>1. CASE \E i \in Insts : EnablePlugin(i)
  <2>1. PICK i \in Insts : EnablePlugin(i)  BY <1>1
  <2>2. /\ state[i] = "discovered"
        /\ state' = [state EXCEPT ![i] = "blocked"] \/ UNCHANGED state
        /\ UNCHANGED <<active, starter>>
        BY <2>1 DEF EnablePlugin, PlSetState
  <2> QED  BY <2>2 DEF Inv, LifeType, StoppedIsInactive, StartedIsKnown, HungStays, States
<1>2. CASE EnableEnds \/ DisableEnds \/ \E n \in Names : DisablePlugin(n)
  <2>1. UNCHANGED <<state, active, starter>>
        BY <1>2 DEF EnableEnds, DisableEnds, DisablePlugin
  <2> QED  BY <2>1, Untouched
<1> QED  BY <1>1, <1>2

(* Every step of the specification keeps the invariant and hung plugins. *)
LEMMA StepKeeps ==
    ASSUME Inv, [PlNext]_plVars
    PROVE  Inv' /\ HungStays
<1>1. CASE \E i \in Insts : StarterStep(i)
      BY <1>1, StarterKeeps
<1>2. CASE \E i \in Insts : StopperStep(i) \/ CleanerStep(i)
  <2>1. UNCHANGED <<state, active, starter>>
        BY <1>2 DEF StopperStep, PlStopReturns, StopCleanup, StopDone, CleanerStep, CleanupThread,
                    PlRelease
  <2> QED  BY <2>1, Untouched
<1>3. CASE \E i \in Insts : Vanish(i)
  <2>1. PICK i \in Insts : Lose(i, "hung") /\ UNCHANGED starter
        BY <1>3 DEF Vanish
  <2> QED  BY <2>1, LoseKeeps
<1>4. CASE \E i \in Insts : Notify(i)
      BY <1>4, NotifyKeeps
<1>5. CASE MainStep
      BY <1>5, CallKeeps, BootKeeps, SweepKeeps DEF MainStep, PlCallers
<1>6. CASE RemoteStep \/ (\E i \in Insts : EnablePlugin(i)) \/ \E n \in Names : DisablePlugin(n)
      BY <1>6, CallKeeps, RequestKeeps DEF RemoteStep, PlCallers
<1>7. CASE ShutdownBegins
      BY <1>7, Untouched DEF ShutdownBegins
<1>8. CASE UNCHANGED plVars
      BY <1>8, Untouched DEF plVars
<1> QED  BY <1>1, <1>2, <1>3, <1>4, <1>5, <1>6, <1>7, <1>8 DEF PlNext

-----------------------------------------------------------------------------
(* A plugin that was given up or stopped is never active again, whatever its
   late start() does (PluginBase._active, mark_ready).                     *)
THEOREM NeverRevived == PlSpec => []StoppedIsInactive
<1>1. Inv /\ [PlNext]_plVars => Inv'
      BY StepKeeps
<1>2. Inv => StoppedIsInactive
      BY DEF Inv
<1> QED  BY <1>1, <1>2, InitInv, PTL DEF PlSpec

(* No step of any thread takes a plugin out of HUNG. *)
THEOREM HungForGood == PlSpec => HungIsFinal
<1>1. Inv /\ [PlNext]_plVars => Inv'
      BY StepKeeps
<1>2. Inv /\ [PlNext]_plVars => [HungStays]_plVars
      BY StepKeeps
<1>3. [HungStays]_plVars => [\A i \in Insts : state[i] = "hung" => state'[i] = "hung"]_plVars
      BY DEF HungStays
<1> QED  BY <1>1, <1>2, <1>3, InitInv, PTL DEF PlSpec, HungIsFinal
=============================================================================
