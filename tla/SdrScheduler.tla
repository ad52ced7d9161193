---------------------------- MODULE SdrScheduler ----------------------------
(***************************************************************************)
(* Time-sharing of one RTL-SDR dongle (src/reticulumpi/sdr_scheduler.py)   *)
(* by decoder plugins (builtin_plugins/signal_plugin_base.py).             *)
(*                                                                         *)
(* One Condition protects the scheduler's state, but it is released around *)
(* every device claim, every plugin callback and every lease release, so   *)
(* the scheduler thread, the plugins' control threads, their process       *)
(* monitors, their retry workers and the application thread interleave.    *)
(* An action is one critical section, or one unlocked call.                *)
(*                                                                         *)
(* A member of Regs is one start of a plugin: the plugin instance and the  *)
(* SignalSlot it registers.  Generations and claim ids are compared for    *)
(* equality only, so "the next number" is the least one nobody remembers.  *)
(***************************************************************************)
EXTENDS Integers, Sequences

CONSTANTS Regs,         \* plugin instances
          Owner,        \* the plugin name ("caller") of an instance
          Prio,         \* 0 critical, 1 scheduled, 2 background, per caller
          Override,     \* weather_alerts_override_lock
          Outsiders,    \* callers that claim the dongle without the scheduler
          MaxRestarts,  \* decoder restarts allowed within the restart window
          Gens,         \* allocation generations
          Ids,          \* claim ids
          Capturing,    \* the instances that end a capture by themselves
          Failing,      \* the instances whose decoder may fail
          Stopping,     \* the instances a user may disable while the application runs
          Shutdowns,    \* whether the application may shut down
          Unplugs,      \* whether the dongle may disappear
          None

Callers == {Owner[r] : r \in Regs}

ASSUME OwnerAssumption == Owner \in [Regs -> Callers]
ASSUME PrioAssumption == Prio \in [Callers -> 0 .. 2]
ASSUME FlagAssumption == {Override, Shutdowns, Unplugs} \subseteq BOOLEAN
ASSUME EnvironmentAssumption == Capturing \cup Failing \cup Stopping \subseteq Regs
ASSUME TokenAssumption == Gens \subseteq Nat \ {0} /\ Ids \subseteq Nat \ {0}
ASSUME RestartAssumption == MaxRestarts \in Nat
ASSUME NoneAssumption == None \notin Regs \cup Callers \cup Outsiders
ASSUME OutsiderAssumption == Outsiders \cap Callers = {}
ASSUME ThreadAssumption == {"sched", "app"} \cap Regs = {}

VARIABLES
    running,      \* _running
    slots,        \* DongleState.slots in insertion order, as instances
    holder,       \* current_holder
    lockedBy,     \* locked_by
    relockAfter,  \* relock_after
    bgOrder,      \* bg_order
    bgIndex,      \* bg_index, modulo a common multiple of the lengths bg_order can have
    sliceOver,    \* bg_slice_seconds have passed since bg_last_rotation
    gen,          \* DongleState.generation
    slot,         \* the SignalSlot of each instance
    plug,         \* the SignalPluginBase of each instance
    mon,          \* its process monitor or capture thread; late: a newer group was launched
    worker,       \* its retry workers: one asleep with the current epoch, one resuming
    claimed,      \* rtlsdr's claims of this dongle
    present,      \* the dongle is enumerated
    pc,           \* scheduler, application and control threads
    sv,           \* locals of the scheduler thread
    yv            \* locals of _do_yield, per thread

schedVars == <<running, slots, holder, lockedBy, relockAfter, bgOrder, bgIndex, sliceOver, gen, slot>>
plugVars == <<plug, mon, worker>>
vars == <<running, slots, holder, lockedBy, relockAfter, bgOrder, bgIndex, sliceOver, gen,
          slot, plug, mon, worker, claimed, present, pc, sv, yv>>

Sched == "sched"
App == "app"
Threads == Regs \cup {Sched, App}

NoGen == -1     \* _dongle_generation is None

NewSlot == [active |-> FALSE, lease |-> 0, relReq |-> FALSE, susp |-> FALSE,
            alloc |-> 0, win |-> "none"]

NewPlugin == [act |-> FALSE, dact |-> FALSE, dgen |-> NoGen, grp |-> FALSE,
              open |-> FALSE, budget |-> 0]

IdleMonitor == [pc |-> "idle", gen |-> NoGen, lease |-> 0, reg |-> None, late |-> FALSE]

IdleSched == [c |-> None, r |-> None, gen |-> 0, lease |-> 0, res |-> "ok",
              hold |-> None, lock |-> None, then |-> "idle"]

IdleYield == [r |-> None, lease |-> 0]

-----------------------------------------------------------------------------
(* Fresh tokens *)

GensUsed == {gen, sv.gen} \cup
            UNION {{slot[r].alloc, plug[r].dgen, mon[r].gen} : r \in Regs}

IdsUsed == {sv.lease} \cup {yv[t].lease : t \in Threads} \cup
           {k.id : k \in claimed} \cup
           UNION {{slot[r].lease, mon[r].lease} : r \in Regs}

(* dongle.generation += 1 *)
Bump(g) == /\ g \in Gens \ GensUsed
           /\ \A h \in Gens \ GensUsed : g <= h
           /\ gen' = g

BumpGen == \E g \in Gens : Bump(g)

FreshId(i) == i \in Ids \ IdsUsed /\ \A j \in Ids \ IdsUsed : i <= j

(* rtlsdr.claim_device for one dongle: another caller's claim makes it busy,
   the caller's own claim is replaced.                                     *)
BusyFor(c) == \E k \in claimed : k.caller # c

(* Mutant: the device is freed, whoever's claim it is. *)
ReleasedWholly(id) == {}

Released(id) == {k \in claimed : k.id # id}

ReleasedBy(c) == {k \in claimed : k.caller # c}

-----------------------------------------------------------------------------
(* Slots, windows and arbitration *)

(* dongle.slots.get(caller) *)
Registered == {slots[i] : i \in DOMAIN slots}

SlotOf(c) == IF \E r \in Registered : Owner[r] = c
             THEN CHOOSE r \in Registered : Owner[r] = c
             ELSE None

Suspended(c) == SlotOf(c) # None /\ slot[SlotOf(c)].susp

(* list.remove and dict.pop: a sequence without its first e *)
Without(s, e) ==
    IF \E i \in DOMAIN s : s[i] = e
    THEN LET i == CHOOSE j \in DOMAIN s : s[j] = e
         IN  SubSeq(s, 1, i - 1) \o SubSeq(s, i + 1, Len(s))
    ELSE s

BgPeriod == 12   \* a multiple of every length of bg_order up to four

HolderInBg == \E i \in DOMAIN bgOrder : bgOrder[i] = holder

BgAt(i) == bgOrder[(i % Len(bgOrder)) + 1]

(* How far _pick_background may have to advance to a slot not suspended.  A
   caller of bg_order always has a slot (BgOrderExact), so the branch that
   drops one without is not taken.                                         *)
BgSkips(from) == {k \in 0 .. Len(bgOrder) - 1 : ~ Suspended(BgAt(from + k))}

FirstSkip(from) == CHOOSE k \in BgSkips(from) : \A j \in BgSkips(from) : k <= j

(* Mutant of PickBackground: an elapsed slice does not advance the position. *)
PickBackgroundNoAdvance ==
    IF bgOrder = <<>> \/ BgSkips(bgIndex) = {} THEN [c |-> None, idx |-> bgIndex]
    ELSE [c |-> BgAt(bgIndex + FirstSkip(bgIndex)),
          idx |-> (bgIndex + FirstSkip(bgIndex)) % BgPeriod]

(* _pick_background: the caller and the new bg_index *)
PickBackground ==
    LET from == IF HolderInBg THEN bgIndex + 1 ELSE bgIndex
    IN  IF bgOrder = <<>> THEN [c |-> None, idx |-> bgIndex]
        ELSE IF HolderInBg /\ ~ sliceOver THEN [c |-> holder, idx |-> bgIndex]
        ELSE IF BgSkips(from) = {}
             THEN [c |-> None, idx |-> (from + Len(bgOrder)) % BgPeriod]
             ELSE [c |-> BgAt(from + FirstSkip(from)),
                   idx |-> (from + FirstSkip(from)) % BgPeriod]

(* _peek_background: the position already selected, without rotating *)
PeekBackground ==
    IF bgOrder = <<>> THEN None
    ELSE IF HolderInBg /\ ~ sliceOver THEN holder
    ELSE IF BgSkips(bgIndex) = {} THEN None
    ELSE BgAt(bgIndex + FirstSkip(bgIndex))

(* The slots that compete in the foreground: critical ones, and scheduled ones
   with an open window.  The first registered of the best priority wins.   *)
Urgent(p) == {i \in DOMAIN slots : /\ Prio[Owner[slots[i]]] = p
                                   /\ ~ slot[slots[i]].susp
                                   /\ p = 1 => slot[slots[i]].win = "open"}

Foreground == IF Urgent(0) # {} THEN Urgent(0) ELSE Urgent(1)

FirstForeground == Owner[slots[CHOOSE i \in Foreground : \A j \in Foreground : i <= j]]

(* _pick_winner, and the same with mutate_background = False *)
PickWinner == IF Foreground # {} THEN [c |-> FirstForeground, idx |-> bgIndex]
                                 ELSE PickBackground

PeekWinner == IF Foreground # {} THEN FirstForeground ELSE PeekBackground

(* Mutant of CanPreempt: a lock is never overridden. *)
CanPreemptNoOverride(w) ==
    /\ lockedBy # holder
    /\ \/ SlotOf(holder) = None
       \/ Prio[w] = 2 /\ Prio[holder] = 2
       \/ Prio[w] < Prio[holder]

(* _can_preempt(current = holder, winner) *)
CanPreempt(w) ==
    IF lockedBy = holder
    THEN Prio[w] = 0 /\ Override
    ELSE \/ SlotOf(holder) = None
         \/ Prio[w] = 2 /\ Prio[holder] = 2
         \/ Prio[w] < Prio[holder]

-----------------------------------------------------------------------------
(* Critical sections shared by several threads *)

(* _do_yield up to the release of the lock, for a holder with a slot *)
DoYield(t, c, preempted) ==
    LET r == SlotOf(c)
    IN  /\ slot' = [slot EXCEPT ![r].active = FALSE, ![r].alloc = 0, ![r].lease = 0]
        /\ holder' = None
        /\ BumpGen
        /\ IF lockedBy = c /\ preempted
           THEN lockedBy' = None /\ relockAfter' = c
           ELSE /\ relockAfter' = IF relockAfter = c THEN None ELSE relockAfter
                /\ UNCHANGED lockedBy
        /\ yv' = [yv EXCEPT ![t] = [r |-> r, lease |-> slot[r].lease]]

(* _do_acquire up to the release of the lock *)
BeginAcquire(c) ==
    LET r == SlotOf(c)
    IN  IF r = None \/ Suspended(c)
        THEN /\ pc' = [pc EXCEPT ![Sched] = "idle"]
             /\ sv' = IdleSched
             /\ UNCHANGED <<gen, slot>>
        ELSE \E g \in Gens :
             /\ Bump(g)
             /\ slot' = [slot EXCEPT ![r].relReq = FALSE, ![r].alloc = g]
             /\ sv' = [IdleSched EXCEPT !.c = c, !.r = r, !.gen = g]
             /\ pc' = [pc EXCEPT ![Sched] = "claim"]

(* _release_slot: the slot registered under the caller's name now, unless a
   generation is given and the slot has another allocation.  The lease is
   returned by a later, unlocked step.                                     *)
ReleaseRefused(c, g) ==
    g # NoGen /\ (SlotOf(c) = None \/ (SlotOf(c) # None /\ slot[SlotOf(c)].alloc # g))

ReleaseSlot(c, g, suspend) ==
    LET r == SlotOf(c)
    IN  IF ReleaseRefused(c, g)
        THEN UNCHANGED <<slot, gen, holder, bgIndex, lockedBy, relockAfter>>
        ELSE /\ IF r = None
                THEN UNCHANGED <<slot, gen>>
                ELSE /\ slot' = [slot EXCEPT ![r].active = FALSE, ![r].relReq = TRUE,
                                   ![r].susp = @ \/ suspend, ![r].lease = 0, ![r].alloc = 0]
                     /\ BumpGen
             /\ IF holder = c
                THEN /\ holder' = None
                     /\ bgIndex' = IF bgOrder = <<>> THEN bgIndex
                                   ELSE (bgIndex + 1) % Len(bgOrder)
                ELSE UNCHANGED <<holder, bgIndex>>
             /\ lockedBy' = IF lockedBy = c THEN None ELSE lockedBy
             /\ relockAfter' = IF relockAfter = c THEN None ELSE relockAfter

ReleasedReg(c, g) == IF ReleaseRefused(c, g) THEN None ELSE SlotOf(c)

ReleasedLease(c, g) ==
    IF ReleasedReg(c, g) = None THEN 0 ELSE slot[SlotOf(c)].lease

-----------------------------------------------------------------------------
Init ==
    /\ running = TRUE
    /\ slots = <<>>
    /\ holder = None /\ lockedBy = None /\ relockAfter = None
    /\ bgOrder = <<>>
    /\ bgIndex = 0
    /\ sliceOver = TRUE
    /\ gen = 0
    /\ slot = [r \in Regs |-> NewSlot]
    /\ plug = [r \in Regs |-> NewPlugin]
    /\ mon = [r \in Regs |-> IdleMonitor]
    /\ worker = [r \in Regs |-> {}]
    /\ claimed = {}
    /\ present = TRUE
    /\ pc = [t \in Threads |-> IF t = Sched THEN "idle" ELSE IF t = App THEN "up" ELSE "new"]
    /\ sv = IdleSched
    /\ yv = [t \in Threads |-> IdleYield]

-----------------------------------------------------------------------------
(* The scheduler thread *)

Goto(t, label) == pc' = [pc EXCEPT ![t] = label]

SchedIdle == Goto(Sched, "idle") /\ sv' = IdleSched

(* _scheduler_loop: _running is tested before the lock is taken. *)
Loop ==
    /\ pc[Sched] = "idle" /\ running
    /\ Goto(Sched, "eval")
    /\ UNCHANGED <<schedVars, plugVars, claimed, present, sv, yv>>

(* _evaluate that changes nothing but the background position: no winner, the
   holder wins again, or the winner may not preempt (a strict serial slot is
   not probed then).                                                        *)
EvaluateKeep ==
    LET w == PickWinner
    IN  /\ pc[Sched] = "eval"
        /\ \/ w.c = holder
           \/ /\ w.c = None /\ holder # None
              /\ ~ (SlotOf(holder) # None /\ Prio[holder] = 1)
           \/ w.c # None /\ holder # None /\ ~ CanPreempt(w.c)
        /\ bgIndex' = w.idx
        /\ Goto(Sched, "idle")
        /\ UNCHANGED <<running, slots, holder, lockedBy, relockAfter, bgOrder, sliceOver,
                       gen, slot, plug, mon, worker, claimed, present, sv, yv>>

(* _evaluate when a scheduled holder's window is over and nobody else wins *)
EvaluateWindowEnd ==
    LET w == PickWinner
    IN  /\ pc[Sched] = "eval"
        /\ w.c = None /\ holder # None
        /\ SlotOf(holder) # None /\ Prio[holder] = 1
        /\ bgIndex' = w.idx
        /\ DoYield(Sched, holder, FALSE)
        /\ sv' = [IdleSched EXCEPT !.then = "bg"]
        /\ Goto(Sched, "ycb")
        /\ UNCHANGED <<running, slots, bgOrder, sliceOver, plug, mon, worker,
                       claimed, present>>

(* _evaluate with a free dongle: straight to _do_acquire *)
EvaluateAcquire ==
    LET w == PickWinner
    IN  /\ pc[Sched] = "eval"
        /\ w.c # None /\ holder = None
        /\ bgIndex' = w.idx
        /\ BeginAcquire(w.c)
        /\ UNCHANGED <<running, slots, holder, lockedBy, relockAfter, bgOrder, sliceOver,
                       plug, mon, worker, claimed, present, yv>>

(* _evaluate with a winner that may preempt: _preflight_winner_identity_locked
   up to the release of the lock                                           *)
EvaluatePreflight ==
    LET w == PickWinner
        r == SlotOf(w.c)
    IN  /\ pc[Sched] = "eval"
        /\ w.c # None /\ holder # None /\ w.c # holder
        /\ CanPreempt(w.c)
        /\ bgIndex' = w.idx
        /\ IF slot[r].active \/ slot[r].lease # 0
           THEN SchedIdle
           ELSE /\ sv' = [IdleSched EXCEPT !.c = w.c, !.r = r, !.gen = gen,
                                           !.hold = holder, !.lock = lockedBy]
                /\ Goto(Sched, "pfclaim")
        /\ UNCHANGED <<running, slots, holder, lockedBy, relockAfter, bgOrder, sliceOver,
                       gen, slot, plug, mon, worker, claimed, present, yv>>

(* claim_device, in the preflight and in _do_acquire after the USB settling
   delay.  RuntimeError when the dongle is not enumerated, DeviceBusyError
   when somebody else has it.                                              *)
ClaimDevice ==
    /\ pc[Sched] \in {"pfclaim", "claim"}
    /\ \/ /\ ~ present
          /\ sv' = [sv EXCEPT !.res = "absent"]
          /\ UNCHANGED claimed
       \/ /\ present /\ BusyFor(sv.c)
          /\ sv' = [sv EXCEPT !.res = "busy"]
          /\ UNCHANGED claimed
       \/ /\ present /\ ~ BusyFor(sv.c)
          /\ \E i \in Ids :
                /\ FreshId(i)
                /\ sv' = [sv EXCEPT !.res = "ok", !.lease = i]
                /\ claimed' = ReleasedBy(sv.c) \cup {[id |-> i, caller |-> sv.c]}
    /\ Goto(Sched, IF pc[Sched] = "claim" THEN "claimed" ELSE "pfback")
    /\ UNCHANGED <<schedVars, plugVars, present, yv>>

(* Mutants of PreflightCurrent: a lock taken meanwhile, or a changed winner, is
   not noticed.                                                            *)
PreflightCurrentAnyLock ==
    gen = sv.gen /\ SlotOf(sv.c) = sv.r /\ holder = sv.hold /\ PeekWinner = sv.c

PreflightCurrentAnyWinner ==
    gen = sv.gen /\ SlotOf(sv.c) = sv.r /\ holder = sv.hold /\ lockedBy = sv.lock

(* The lock is back: nothing the preflight relied on has changed. *)
PreflightCurrent ==
    /\ gen = sv.gen
    /\ SlotOf(sv.c) = sv.r
    /\ holder = sv.hold
    /\ lockedBy = sv.lock
    /\ PeekWinner = sv.c

(* Mutant of PreflightStop: the early return forgets the probe's lease. *)
PreflightStopKeepsLease ==
    /\ pc[Sched] = "pfback"
    /\ ~ PreflightCurrent \/ sv.res = "absent"
    /\ SchedIdle
    /\ UNCHANGED <<schedVars, plugVars, claimed, present, yv>>

(* The rest of _preflight_winner_identity_locked when the pass must stop: the
   state moved on, or the dongle is absent.                                *)
PreflightStop ==
    /\ pc[Sched] = "pfback"
    /\ ~ PreflightCurrent \/ sv.res = "absent"
    /\ claimed' = Released(sv.lease)
    /\ SchedIdle
    /\ UNCHANGED <<schedVars, plugVars, present, yv>>

(* The rest of it when the handoff goes on, with _do_yield of the holder *)
PreflightHandoff ==
    /\ pc[Sched] = "pfback"
    /\ PreflightCurrent /\ sv.res # "absent"
    /\ claimed' = Released(sv.lease)
    /\ IF SlotOf(holder) = None
       THEN /\ holder' = None
            /\ BeginAcquire(sv.c)
            /\ UNCHANGED <<lockedBy, relockAfter, yv>>
       ELSE /\ DoYield(Sched, holder, TRUE)
            /\ sv' = [IdleSched EXCEPT !.c = sv.c, !.then = "acquire"]
            /\ Goto(Sched, "ycb")
    /\ UNCHANGED <<running, slots, bgOrder, bgIndex, sliceOver, plugVars, present>>

(* _evaluate after _do_yield, or a discarded acquisition *)
AfterYield ==
    /\ pc[Sched] = "yback"
    /\ \/ /\ sv.then = "acquire"
          /\ BeginAcquire(sv.c)
          /\ UNCHANGED bgIndex
       \/ /\ sv.then = "bg"
          /\ bgIndex' = PickBackground.idx
          /\ BeginAcquire(PickBackground.c)
       \/ /\ sv.then = "idle"
          /\ SchedIdle
          /\ UNCHANGED <<bgIndex, gen, slot>>
    /\ UNCHANGED <<running, slots, holder, lockedBy, relockAfter, bgOrder, sliceOver,
                   plugVars, claimed, present, yv>>

AcquireCurrent == SlotOf(sv.c) = sv.r /\ slot[sv.r].alloc = sv.gen

(* _do_acquire after the claim, under the lock *)
AcquireCheck ==
    /\ pc[Sched] = "claimed"
    /\ IF AcquireCurrent /\ sv.res = "ok"
       THEN Goto(Sched, "cb") /\ UNCHANGED <<slot, sv>>
       ELSE /\ slot' = [slot EXCEPT ![sv.r].alloc = IF @ = sv.gen THEN 0 ELSE @]
            /\ IF sv.lease # 0 THEN Goto(Sched, "stalerel") /\ UNCHANGED sv
                               ELSE SchedIdle
    /\ UNCHANGED <<running, slots, holder, lockedBy, relockAfter, bgOrder, bgIndex,
                   sliceOver, gen, plugVars, claimed, present, yv>>

ReleaseStale ==
    /\ pc[Sched] = "stalerel"
    /\ claimed' = Released(sv.lease)
    /\ SchedIdle
    /\ UNCHANGED <<schedVars, plugVars, present, yv>>

(* acquire_cb = SignalPluginBase._on_acquire: an inactive plugin returns as if
   it had launched; else it notes its allocation generation.               *)
OnAcquire ==
    /\ pc[Sched] = "cb"
    /\ IF plug[sv.r].act
       THEN /\ plug' = [plug EXCEPT ![sv.r].dact = TRUE,
                          ![sv.r].dgen = IF SlotOf(sv.c) = None THEN 0
                                         ELSE slot[SlotOf(sv.c)].alloc]
            /\ Goto(Sched, "launch")
       ELSE Goto(Sched, "cbback") /\ UNCHANGED plug
    /\ UNCHANGED <<schedVars, mon, worker, claimed, present, sv, yv>>

(* _launch_subprocess succeeds; a pending retry is over. *)
LaunchOk ==
    /\ pc[Sched] = "launch"
    /\ plug' = [plug EXCEPT ![sv.r].grp = TRUE, ![sv.r].open = TRUE]
    /\ worker' = [worker EXCEPT ![sv.r] = @ \ {"sleep"}]
    /\ mon' = [mon EXCEPT ![sv.r].late = mon[sv.r].pc # "idle"]
    /\ Goto(Sched, "cbback")
    /\ UNCHANGED <<schedVars, claimed, present, sv, yv>>

(* _launch_subprocess raises, or stop cancels it: an active plugin goes on to
   _schedule_sdr_retry.                                                    *)
LaunchFail ==
    /\ pc[Sched] = "launch"
    /\ sv.r \in Failing \/ ~ plug[sv.r].act
    /\ plug' = [plug EXCEPT ![sv.r].dact = FALSE,
                            ![sv.r].dgen = IF plug[sv.r].act THEN @ ELSE NoGen]
    /\ Goto(Sched, IF plug[sv.r].act THEN "lsuspend" ELSE "lrelease")
    /\ UNCHANGED <<schedVars, mon, worker, claimed, present, sv, yv>>

(* _schedule_sdr_retry on the scheduler thread: suspend the slot ... *)
LaunchSuspend ==
    LET g == plug[sv.r].dgen
    IN  /\ pc[Sched] = "lsuspend"
        /\ ReleaseSlot(sv.c, g, TRUE)
        /\ plug' = [plug EXCEPT ![sv.r].dgen = NoGen, ![sv.r].grp = FALSE]
        /\ sv' = [sv EXCEPT !.hold = ReleasedReg(sv.c, g)]
        /\ Goto(Sched, "lretry")
        /\ UNCHANGED <<running, slots, bgOrder, sliceOver, mon, worker, claimed, present, yv>>

(* ... and start a backoff worker, if the restart budget allows. *)
(* Mutant of RetryAllowed: no limit. *)
RetryAllowedUnlimited(r, reg) == reg # None /\ plug[r].budget < MaxRestarts + 1

RetryAllowed(r, reg) == reg # None /\ plug[r].budget < MaxRestarts

ScheduleRetry(r, reg) ==
    /\ plug' = [plug EXCEPT ![r].budget = IF RetryAllowed(r, reg) THEN @ + 1 ELSE @]
    /\ worker' = [worker EXCEPT ![r] = IF RetryAllowed(r, reg) THEN @ \cup {"sleep"}
                                       ELSE @ \ {"sleep"}]

LaunchRetry ==
    /\ pc[Sched] = "lretry"
    /\ ScheduleRetry(sv.r, sv.hold)
    /\ Goto(Sched, "lrelease")
    /\ UNCHANGED <<schedVars, mon, claimed, present, sv, yv>>

(* _do_acquire's handler of a failed acquire_cb: the lease is returned. *)
LaunchRelease ==
    /\ pc[Sched] = "lrelease"
    /\ claimed' = Released(sv.lease)
    /\ Goto(Sched, "lback")
    /\ UNCHANGED <<schedVars, plugVars, present, sv, yv>>

LaunchBack ==
    /\ pc[Sched] = "lback"
    /\ slot' = [slot EXCEPT ![sv.r].alloc = IF @ = sv.gen THEN 0 ELSE @]
    /\ SchedIdle
    /\ UNCHANGED <<running, slots, holder, lockedBy, relockAfter, bgOrder, bgIndex,
                   sliceOver, gen, plugVars, claimed, present, yv>>

(* Mutants of GrantStale: a release, or the scheduler's stop, is not noticed. *)
GrantStaleIgnoringRelease == ~ running \/ SlotOf(sv.c) # sv.r

GrantStaleIgnoringStop == SlotOf(sv.c) # sv.r \/ gen # sv.gen \/ slot[sv.r].relReq

(* The grant is stale when acquire_cb returns: the scheduler stopped, the slot
   was removed or replaced, the generation moved, or a release was asked for. *)
GrantStale == \/ ~ running
              \/ SlotOf(sv.c) # sv.r
              \/ gen # sv.gen
              \/ slot[sv.r].relReq

(* _discard_successful_acquisition: yield_cb, then the lease is released. *)
Discard ==
    /\ pc[Sched] = "cbback" /\ GrantStale
    /\ slot' = [slot EXCEPT ![sv.r].alloc = 0,
                  ![sv.r].relReq = @ /\ ~ (running /\ SlotOf(sv.c) = sv.r /\ gen = sv.gen)]
    /\ relockAfter' = IF running /\ SlotOf(sv.c) = None /\ relockAfter = sv.c
                      THEN None ELSE relockAfter
    /\ yv' = [yv EXCEPT ![Sched] = [r |-> sv.r, lease |-> sv.lease]]
    /\ sv' = IdleSched
    /\ Goto(Sched, "ycb")
    /\ UNCHANGED <<running, slots, holder, lockedBy, bgOrder, bgIndex, sliceOver, gen,
                   plugVars, claimed, present>>

IndexIn(s, c) == CHOOSE i \in DOMAIN s : s[i] = c

(* The rest of _do_acquire: the grant *)
Grant ==
    /\ pc[Sched] = "cbback" /\ ~ GrantStale
    /\ slot' = [slot EXCEPT ![sv.r].active = TRUE, ![sv.r].lease = sv.lease]
    /\ holder' = sv.c
    /\ IF Prio[sv.c] = 2
       THEN sliceOver' = FALSE /\ bgIndex' = IndexIn(bgOrder, sv.c) - 1
       ELSE UNCHANGED <<sliceOver, bgIndex>>
    /\ IF relockAfter = sv.c THEN lockedBy' = sv.c /\ relockAfter' = None
                             ELSE UNCHANGED <<lockedBy, relockAfter>>
    /\ SchedIdle
    /\ UNCHANGED <<running, slots, bgOrder, gen, plugVars, claimed, present, yv>>

-----------------------------------------------------------------------------
(* yield_cb and the lease release, on whatever thread runs _do_yield or
   _discard_successful_acquisition                                         *)

(* Mutant of OnYield: the process group is signalled and not waited for. *)
OnYieldNoWait(t) ==
    LET r == yv[t].r
    IN  /\ pc[t] = "ycb"
        /\ plug' = [plug EXCEPT ![r].dact = FALSE, ![r].dgen = NoGen, ![r].grp = FALSE]
        /\ Goto(t, "yrelease")
        /\ UNCHANGED <<schedVars, mon, worker, claimed, present, sv, yv>>

(* _on_yield, with the first half of _kill_subprocess: the process group is
   detached; only a thread that found one waits for it.                    *)
OnYield(t) ==
    LET r == yv[t].r
    IN  /\ pc[t] = "ycb"
        /\ plug' = [plug EXCEPT ![r].dact = FALSE, ![r].dgen = NoGen, ![r].grp = FALSE]
        /\ Goto(t, IF plug[r].grp THEN "ykill" ELSE "yrelease")
        /\ UNCHANGED <<schedVars, mon, worker, claimed, present, sv, yv>>

(* ManagedProcessGroup.stop: the pipeline is gone and its monitor joined, but
   not the monitor of an earlier group.                                    *)
MonitorJoined(r) == mon[r].pc = "idle" \/ mon[r].late

OnYieldKilled(t) ==
    /\ pc[t] = "ykill"
    /\ MonitorJoined(yv[t].r)
    /\ plug' = [plug EXCEPT ![yv[t].r].open = FALSE]
    /\ Goto(t, "yrelease")
    /\ UNCHANGED <<schedVars, mon, worker, claimed, present, sv, yv>>

(* Mutant of YieldRelease: the release names the caller and not the lease. *)
YieldReleaseByCaller(t) ==
    /\ pc[t] = "yrelease"
    /\ claimed' = ReleasedBy(Owner[yv[t].r])
    /\ yv' = [yv EXCEPT ![t] = IdleYield]
    /\ Goto(t, IF t = App THEN "down" ELSE "yback")
    /\ UNCHANGED <<schedVars, plugVars, present, sv>>

(* lease.release(), or release_device when the slot had no lease *)
YieldRelease(t) ==
    /\ pc[t] = "yrelease"
    /\ claimed' = IF yv[t].lease # 0 THEN Released(yv[t].lease)
                                     ELSE ReleasedBy(Owner[yv[t].r])
    /\ yv' = [yv EXCEPT ![t] = IdleYield]
    /\ Goto(t, IF t = App THEN "down" ELSE "yback")
    /\ UNCHANGED <<schedVars, plugVars, present, sv>>

YieldStep(t) == OnYield(t) \/ OnYieldKilled(t) \/ YieldRelease(t)

-----------------------------------------------------------------------------
(* Control thread of a plugin instance *)

(* start: register.  The application starts an instance only after the earlier
   one of that name has stopped.                                           *)
Start(r) ==
    /\ pc[r] = "new" /\ pc[App] = "up"
    /\ \A q \in Regs : q # r /\ Owner[q] = Owner[r] => pc[q] \in {"new", "done"}
    /\ plug' = [plug EXCEPT ![r].act = TRUE]
    /\ slots' = Append(slots, r)
    /\ bgOrder' = IF Prio[Owner[r]] = 2 THEN Append(bgOrder, Owner[r]) ELSE bgOrder
    /\ BumpGen
    /\ Goto(r, "run")
    /\ UNCHANGED <<running, holder, lockedBy, relockAfter, bgIndex, sliceOver, slot,
                   mon, worker, claimed, present, sv, yv>>

(* stop, before unregister: sleeping retry workers are outdated. *)
Stop(r) ==
    /\ pc[r] = "run"
    /\ pc[App] = "shutdown" \/ (pc[App] = "up" /\ r \in Stopping)
    /\ plug' = [plug EXCEPT ![r].act = FALSE]
    /\ worker' = [worker EXCEPT ![r] = @ \ {"sleep"}]
    /\ Goto(r, "unregister")
    /\ UNCHANGED <<schedVars, mon, claimed, present, sv, yv>>

(* unregister of an active slot: _do_yield first *)
UnregisterYield(r) ==
    /\ pc[r] = "unregister" /\ slot[r].active
    /\ DoYield(r, Owner[r], FALSE)
    /\ Goto(r, "ycb")
    /\ UNCHANGED <<running, slots, bgOrder, bgIndex, sliceOver, plugVars, claimed,
                   present, sv>>

(* Mutant of UnregisterPop: the caller stays in bg_order. *)
UnregisterPopKeepsOrder(r) ==
    /\ \/ pc[r] = "unregister" /\ ~ slot[r].active
       \/ pc[r] = "yback"
    /\ BumpGen
    /\ slots' = Without(slots, r)
    /\ lockedBy' = IF lockedBy = Owner[r] THEN None ELSE lockedBy
    /\ Goto(r, "kill")
    /\ UNCHANGED <<running, holder, relockAfter, bgOrder, bgIndex, sliceOver, slot, plugVars,
                   claimed, present, sv, yv>>

(* the rest of unregister: the slot is dropped *)
UnregisterPop(r) ==
    /\ \/ pc[r] = "unregister" /\ ~ slot[r].active
       \/ pc[r] = "yback"
    /\ BumpGen
    /\ slots' = Without(slots, r)
    /\ bgOrder' = Without(bgOrder, Owner[r])
    /\ lockedBy' = IF lockedBy = Owner[r] THEN None ELSE lockedBy
    /\ Goto(r, "kill")
    /\ UNCHANGED <<running, holder, relockAfter, bgIndex, sliceOver, slot, plugVars,
                   claimed, present, sv, yv>>

(* stop's own _kill_subprocess *)
KillDetach(r) ==
    /\ pc[r] = "kill"
    /\ plug' = [plug EXCEPT ![r].grp = FALSE]
    /\ Goto(r, IF plug[r].grp THEN "killwait" ELSE "done")
    /\ UNCHANGED <<schedVars, mon, worker, claimed, present, sv, yv>>

KillWait(r) ==
    /\ pc[r] = "killwait"
    /\ MonitorJoined(r)
    /\ plug' = [plug EXCEPT ![r].open = FALSE]
    /\ Goto(r, "done")
    /\ UNCHANGED <<schedVars, mon, worker, claimed, present, sv, yv>>

(* lock_dongle and unlock_dongle, from the dashboard *)
Lock(r) ==
    /\ pc[r] = "run" /\ plug[r].dact
    /\ holder = Owner[r]
    /\ lockedBy' = Owner[r]
    /\ UNCHANGED <<running, slots, holder, relockAfter, bgOrder, bgIndex, sliceOver, gen,
                   slot, plugVars, claimed, present, pc, sv, yv>>

Unlock(r) ==
    /\ pc[r] = "run"
    /\ lockedBy = Owner[r]
    /\ lockedBy' = None
    /\ UNCHANGED <<running, slots, holder, relockAfter, bgOrder, bgIndex, sliceOver, gen,
                   slot, plugVars, claimed, present, pc, sv, yv>>

(* add_window and remove_windows of a scheduled plugin *)
SetWindow(r, w) ==
    /\ r \in Registered /\ Prio[Owner[r]] = 1
    /\ slot' = [slot EXCEPT ![r].win = w]
    /\ UNCHANGED <<running, slots, holder, lockedBy, relockAfter, bgOrder, bgIndex,
                   sliceOver, gen, plugVars, claimed, present, pc, sv, yv>>

AddWindow(r) == pc[r] = "run" /\ slot[r].win = "none" /\ SetWindow(r, "future")
RemoveWindows(r) == pc[r] = "run" /\ slot[r].win # "none" /\ SetWindow(r, "none")

(* The wall clock reaches a window's start; it passes its end
   (_expire_windows).                                                      *)
WindowOpens(r) == slot[r].win = "future" /\ SetWindow(r, "open")
WindowCloses(r) == slot[r].win = "open" /\ SetWindow(r, "none")

ControlStep(r) ==
    \/ Start(r) \/ Stop(r) \/ UnregisterYield(r) \/ UnregisterPop(r)
    \/ KillDetach(r) \/ KillWait(r)
    \/ Lock(r) \/ Unlock(r)
    \/ AddWindow(r) \/ RemoveWindows(r) \/ WindowOpens(r) \/ WindowCloses(r)

-----------------------------------------------------------------------------
(* Process monitor and retry worker of a plugin instance *)

MonGoto(r, label) == mon' = [mon EXCEPT ![r].pc = label]

(* The decoder exits; the monitor has terminated the whole pipeline and calls
   _on_decoder_failure.                                                    *)
PipelineFails(r) ==
    /\ r \in Failing
    /\ plug[r].open /\ mon[r].pc = "idle"
    /\ plug' = [plug EXCEPT ![r].open = FALSE]
    /\ MonGoto(r, "hook")
    /\ UNCHANGED <<schedVars, worker, claimed, present, pc, sv, yv>>

(* _schedule_sdr_retry: the group is forgotten and the generation read, before
   the scheduler's lock is taken.                                          *)
FailureHook(r) ==
    /\ mon[r].pc = "hook"
    /\ plug' = [plug EXCEPT ![r].grp = FALSE, ![r].dact = FALSE]
    /\ mon' = [mon EXCEPT ![r].pc = "suspend", ![r].gen = plug[r].dgen]
    /\ UNCHANGED <<schedVars, worker, claimed, present, pc, sv, yv>>

(* A scheduled capture is complete: the pipeline is killed, then the dongle
   released without suspending the slot.                                   *)
CaptureDone(r) ==
    /\ r \in Capturing
    /\ plug[r].open /\ plug[r].grp /\ mon[r].pc = "idle"
    /\ plug' = [plug EXCEPT ![r].open = FALSE, ![r].grp = FALSE, ![r].dact = FALSE]
    /\ mon' = [mon EXCEPT ![r].pc = "released", ![r].gen = plug[r].dgen]
    /\ UNCHANGED <<schedVars, worker, claimed, present, pc, sv, yv>>

(* suspend or dongle_released with that generation *)
MonitorRelease(r) ==
    LET c == Owner[r]
        g == mon[r].gen
        next == CASE mon[r].pc = "suspend" -> "lease"
                  [] mon[r].pc = "released" -> "lastlease"
                  [] mon[r].pc = "exhausted" -> "lastlease"
    IN  /\ mon[r].pc \in {"suspend", "released", "exhausted"}
        /\ ReleaseSlot(c, g, mon[r].pc # "released")
        /\ mon' = [mon EXCEPT ![r].pc = next, ![r].gen = NoGen,
                      ![r].lease = ReleasedLease(c, g), ![r].reg = ReleasedReg(c, g)]
        /\ UNCHANGED <<running, slots, bgOrder, sliceOver, plug, worker, claimed, present,
                       pc, sv, yv>>

(* The lease is returned after the lock; then the plugin forgets its
   generation.                                                             *)
MonitorLease(r) ==
    /\ mon[r].pc \in {"lease", "lastlease"}
    /\ claimed' = Released(mon[r].lease)
    /\ mon' = [mon EXCEPT ![r] = IF mon[r].pc = "lastlease" THEN IdleMonitor
                                 ELSE [mon[r] EXCEPT !.pc = "retry", !.lease = 0]]
    /\ plug' = [plug EXCEPT ![r].dgen = NoGen]
    /\ UNCHANGED <<schedVars, worker, present, pc, sv, yv>>

(* The rest of _schedule_sdr_retry; without a retry, _on_decoder_exhausted
   follows.                                                                *)
MonitorRetry(r) ==
    /\ mon[r].pc = "retry"
    /\ ScheduleRetry(r, mon[r].reg)
    /\ mon' = [mon EXCEPT ![r] = IF RetryAllowed(r, mon[r].reg) THEN IdleMonitor
                                 ELSE [IdleMonitor EXCEPT !.pc = "exhaust", !.late = mon[r].late]]
    /\ UNCHANGED <<schedVars, claimed, present, pc, sv, yv>>

(* _on_decoder_exhausted: release once more if the plugin looks active. *)
MonitorExhaust(r) ==
    /\ mon[r].pc = "exhaust"
    /\ plug' = [plug EXCEPT ![r].dact = FALSE]
    /\ mon' = [mon EXCEPT ![r] =
                 IF plug[r].dact \/ plug[r].dgen # NoGen
                 THEN [mon[r] EXCEPT !.pc = "exhausted", !.gen = plug[r].dgen]
                 ELSE IdleMonitor]
    /\ UNCHANGED <<schedVars, worker, claimed, present, pc, sv, yv>>

(* _resume_after_backoff: the plugin is active and its epoch unchanged ... *)
WorkerWakes(r) ==
    /\ "sleep" \in worker[r]
    /\ worker' = [worker EXCEPT ![r] = (@ \ {"sleep"}) \cup
                                       (IF plug[r].act THEN {"resume"} ELSE {})]
    /\ UNCHANGED <<schedVars, plug, mon, claimed, present, pc, sv, yv>>

(* Mutant of ResumeTarget: no registration token. *)
ResumeTargetByCaller(r) ==
    LET q == SlotOf(Owner[r])
    IN  IF running /\ q # None /\ Suspended(Owner[r]) THEN q ELSE None

(* ... resume, which checks the registration token *)
ResumeTarget(r) == IF running /\ SlotOf(Owner[r]) = r /\ slot[r].susp THEN r ELSE None

Resume(r) ==
    /\ "resume" \in worker[r]
    /\ worker' = [worker EXCEPT ![r] = @ \ {"resume"}]
    /\ IF ResumeTarget(r) # None
       THEN /\ slot' = [slot EXCEPT ![ResumeTarget(r)].susp = FALSE,
                                    ![ResumeTarget(r)].relReq = FALSE]
            /\ BumpGen
       ELSE UNCHANGED <<slot, gen>>
    /\ UNCHANGED <<running, slots, holder, lockedBy, relockAfter, bgOrder, bgIndex,
                   sliceOver, plug, mon, claimed, present, pc, sv, yv>>

(* A restart falls out of the ten-minute window. *)
RestartForgotten(r) ==
    /\ plug[r].budget > 0
    /\ plug' = [plug EXCEPT ![r].budget = @ - 1]
    /\ UNCHANGED <<schedVars, mon, worker, claimed, present, pc, sv, yv>>

MonitorStep(r) ==
    \/ PipelineFails(r) \/ FailureHook(r) \/ CaptureDone(r) \/ MonitorRelease(r)
    \/ MonitorLease(r) \/ MonitorRetry(r) \/ MonitorExhaust(r)

WorkerStep(r) == WorkerWakes(r) \/ Resume(r)

-----------------------------------------------------------------------------
(* Application thread and environment *)

(* ReticulumPiApp.shutdown: no plugin is started from now on; the plugins are
   stopped, each within a timeout, and then the scheduler, even if a plugin
   hangs.                                                                  *)
Shutdown ==
    /\ Shutdowns /\ pc[App] = "up"
    /\ Goto(App, "shutdown")
    /\ UNCHANGED <<schedVars, plugVars, claimed, present, sv, yv>>

(* SdrScheduler.stop up to _do_yield's callback, or without a holder *)
StopScheduler ==
    /\ pc[App] = "shutdown"
    /\ running' = FALSE
    /\ IF holder # None /\ SlotOf(holder) # None
       THEN DoYield(App, holder, FALSE) /\ Goto(App, "ycb")
       ELSE /\ holder' = None
            /\ Goto(App, "down")
            /\ UNCHANGED <<lockedBy, relockAfter, gen, slot, yv>>
    /\ UNCHANGED <<slots, bgOrder, bgIndex, sliceOver, plugVars, claimed, present, sv>>

(* bg_slice_seconds pass on the monotonic clock. *)
SliceElapses ==
    /\ ~ sliceOver
    /\ sliceOver' = TRUE
    /\ UNCHANGED <<running, slots, holder, lockedBy, relockAfter, bgOrder, bgIndex, gen,
                   slot, plugVars, claimed, present, pc, sv, yv>>

(* The dongle drops off the bus or comes back. *)
Replug ==
    /\ Unplugs
    /\ present' = ~ present
    /\ UNCHANGED <<schedVars, plugVars, claimed, pc, sv, yv>>

(* A direct consumer claims the dongle, or gives it back. *)
OutsiderClaims(o) ==
    /\ present /\ claimed = {}
    /\ \E i \in Ids : FreshId(i) /\ claimed' = {[id |-> i, caller |-> o]}
    /\ UNCHANGED <<schedVars, plugVars, present, pc, sv, yv>>

OutsiderReleases(o) ==
    /\ \E k \in claimed : k.caller = o
    /\ claimed' = ReleasedBy(o)
    /\ UNCHANGED <<schedVars, plugVars, present, pc, sv, yv>>

SchedStep ==
    \/ Loop \/ EvaluateKeep \/ EvaluateWindowEnd \/ EvaluateAcquire \/ EvaluatePreflight
    \/ ClaimDevice \/ PreflightStop \/ PreflightHandoff \/ AfterYield
    \/ AcquireCheck \/ ReleaseStale \/ OnAcquire \/ LaunchOk \/ LaunchFail
    \/ LaunchSuspend \/ LaunchRetry \/ LaunchRelease \/ LaunchBack
    \/ Discard \/ Grant

Next ==
    \/ SchedStep
    \/ \E t \in Threads : YieldStep(t)
    \/ \E r \in Regs : ControlStep(r) \/ MonitorStep(r) \/ WorkerStep(r) \/ RestartForgotten(r)
    \/ Shutdown \/ StopScheduler \/ SliceElapses \/ Replug
    \/ \E o \in Outsiders : OutsiderClaims(o) \/ OutsiderReleases(o)

Spec == Init /\ [][Next]_vars

-----------------------------------------------------------------------------
(* Fairness.  Every thread that holds the lock or runs a callback gets on: the
   code blocks only for bounded times there.  Time passes and sleeping retry
   workers wake.  Nothing is assumed of users, decoders or other programs.  *)
UnregisterStep(r) == UnregisterYield(r) \/ UnregisterPop(r) \/ KillDetach(r) \/ KillWait(r)

HookStep(r) == \/ FailureHook(r) \/ MonitorRelease(r) \/ MonitorLease(r)
               \/ MonitorRetry(r) \/ MonitorExhaust(r)

Fairness ==
    /\ WF_vars(SchedStep)
    /\ WF_vars(SliceElapses)
    /\ \A t \in Threads : WF_vars(YieldStep(t))
    /\ \A r \in Regs : /\ WF_vars(UnregisterStep(r))
                       /\ WF_vars(HookStep(r))
                       /\ WF_vars(WorkerStep(r))

FairSpec == Spec /\ Fairness

-----------------------------------------------------------------------------
(* Properties *)

(* Every variable keeps its type. *)
TypeOK ==
    /\ running \in BOOLEAN /\ sliceOver \in BOOLEAN /\ present \in BOOLEAN
    /\ Registered \subseteq Regs
    /\ {holder, lockedBy, relockAfter} \subseteq Callers \cup {None}
    /\ {bgOrder[k] : k \in DOMAIN bgOrder} \subseteq Callers
    /\ bgIndex \in Nat
    /\ gen \in Gens \cup {0}
    /\ slot \in [Regs -> [active : BOOLEAN, lease : Ids \cup {0}, relReq : BOOLEAN,
                          susp : BOOLEAN, alloc : Gens \cup {0},
                          win : {"none", "future", "open"}]]
    /\ plug \in [Regs -> [act : BOOLEAN, dact : BOOLEAN, dgen : Gens \cup {NoGen, 0},
                          grp : BOOLEAN, open : BOOLEAN, budget : 0 .. MaxRestarts]]
    /\ mon \in [Regs -> [pc : {"idle", "hook", "suspend", "released", "exhausted", "lease",
                               "lastlease", "retry", "exhaust"},
                         gen : Gens \cup {NoGen, 0}, lease : Ids \cup {0},
                         reg : Regs \cup {None}, late : BOOLEAN]]
    /\ worker \in [Regs -> SUBSET {"sleep", "resume"}]
    /\ claimed \subseteq [id : Ids, caller : Callers \cup Outsiders]

(* register and unregister keep bg_order the list of the registered background
   callers in order of registration, so _pick_background never meets a caller
   without a slot.                                                         *)
BgOrderExact ==
    /\ {bgOrder[k] : k \in DOMAIN bgOrder} = {Owner[r] : r \in {q \in Registered : Prio[Owner[q]] = 2}}
    /\ \A i, j \in DOMAIN bgOrder : i < j =>
          \E a, b \in DOMAIN slots : /\ a < b
                                     /\ Owner[slots[a]] = bgOrder[i]
                                     /\ Owner[slots[b]] = bgOrder[j]

(* An active slot is the holder's and its lease is a live claim of the dongle:
   no stale release, retry worker or late callback takes the claim from under
   a granted plugin.                                                       *)
ActiveSlotHasClaim ==
    \A r \in Registered : slot[r].active =>
        /\ holder = Owner[r]
        /\ [id |-> slot[r].lease, caller |-> Owner[r]] \in claimed

(* A claim made for a plugin is remembered by whoever will release it: its
   registered slot, the scheduler's pending acquisition, a yield or a release
   in progress.                                                            *)
NoLeakedClaim ==
    \A k \in claimed : k.caller \in Callers =>
        \/ k.id \in {sv.lease} \cup {yv[t].lease : t \in Threads}
        \/ \E r \in Regs : k.id = mon[r].lease \/ (r \in Registered /\ k.id = slot[r].lease)

(* A suspended slot neither holds the dongle nor keeps a lease, even when the
   failure is reported while the scheduler is granting it.                 *)
SuspendedIsIdle ==
    \A r \in Regs : slot[r].susp => ~ slot[r].active /\ slot[r].lease = 0

(* At most one decoder pipeline has the dongle open: a lease is returned only
   when the pipeline it was for is gone.                                   *)
OneOpenPipeline ==
    \A q, r \in Regs : plug[q].open /\ plug[r].open => q = r

(* An open pipeline belongs to a plugin that owns a claim of the dongle. *)
OpenPipelineHasClaim ==
    \A r \in Regs : plug[r].open => \E k \in claimed : k.caller = Owner[r]

(* Two plugins that are both running never have pipelines open together, even
   while other plugins are being stopped.                                  *)
RunningPipelinesExclusive ==
    \A q, r \in Regs : /\ plug[q].open /\ plug[q].act
                       /\ plug[r].open /\ plug[r].act
                       => q = r

(* A handoff in progress: this step takes the dongle from the holder for sv.c. *)
HandoffStep == pc[Sched] = "pfback" /\ pc'[Sched] = "ycb"

(* A locked dongle is handed to another plugin only when that one is critical
   and may override locks, also when the lock comes during the preflight.  *)
LockRespected ==
    [][HandoffStep /\ lockedBy = holder => Override /\ Prio[sv.c] = 0]_vars

(* The dongle is taken from its holder only for a plugin still eligible then:
   not suspended, its window open, or the holder's slice over.             *)
HandoffToEligible ==
    [][HandoffStep =>
         /\ ~ Suspended(sv.c)
         /\ Prio[sv.c] = 1 => slot[SlotOf(sv.c)].win = "open"
         /\ Prio[sv.c] = 2 /\ Prio[holder] = 2 => sliceOver]_vars

(* Once stop has cleared _running no acquisition in flight becomes a grant. *)
NoGrantAfterStop ==
    [][~ running => \A r \in Regs : slot'[r].active => slot[r].active]_vars

(* A suspended slot becomes eligible again only through the retry worker of the
   instance that registered it: a worker of an earlier registration that slept
   through unregister and register revives nothing.                        *)
RevivedByOwnWorker ==
    [][\A r \in Regs : slot[r].susp /\ ~ slot'[r].susp => "resume" \in worker[r]]_vars

(* Users do not toggle locks for ever: each toggle restarts the preflight. *)
LockSettles == \E c \in Callers \cup {None} : <>[](lockedBy = c)

(* README.md: "safety-of-life signals always preempt background monitoring".
   A critical plugin that is registered and not suspended gets the dongle,
   whatever lower plugins do with it, locks included.                      *)
Served(r) == \/ holder = Owner[r] /\ slot[r].active
             \/ r \notin Registered \/ slot[r].susp \/ ~ running

CriticalServed ==
    LockSettles => \A r \in Regs : Prio[Owner[r]] = 0 => (r \in Registered ~> Served(r))

(* Background plugins take turns: a registered one gets the dongle, unless a
   more urgent plugin is served or somebody locks it.                      *)
BackgroundServed ==
    LockSettles => \A r \in Regs : Prio[Owner[r]] = 2 =>
        (r \in Registered ~> Served(r) \/ Foreground # {} \/ lockedBy # None)

-----------------------------------------------------------------------------
(* Conjunctions the runs check *)

(* No two pipelines have the dongle open, and an open one is claimed by its plugin. *)
PipelinesAreClaimed == OneOpenPipeline /\ OpenPipelineHasClaim

(* A handoff respects the lock and goes to a plugin that is still eligible. *)
ArbitrationRules == LockRespected /\ HandoffToEligible

(* After failures and unplugging every claim is known to whoever must return it,
   and a suspended slot neither holds the dongle nor keeps a lease.        *)
FaultsContained == NoLeakedClaim /\ SuspendedIsIdle

(* Over restarts under one name an active slot owns a claim, and the rotation
   lists exactly the background plugins that are registered.               *)
SlotsExact == ActiveSlotHasClaim /\ BgOrderExact

=============================================================================
