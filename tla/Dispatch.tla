------------------------------ MODULE Dispatch ------------------------------
(***************************************************************************)
(* How the daemon hands work to plugins without being held up by them: the *)
(* announce dispatcher with a mailbox per subscriber (announce_dispatcher  *)
(* .py), and the bounded pools of daemon workers behind the event bus and  *)
(* the executors (event_bus.py, daemon_executor.py).                       *)
(***************************************************************************)
EXTENDS Integers, FiniteSets, SequencesExt

CONSTANTS
    AnSubs,       \* subscriptions
    AnCount,      \* announces in a behaviour
    AnQueueMax,   \* max_queue
    AnBoxMax,     \* _DEFAULT_SUBSCRIBER_QUEUE
    AnSlow        \* breaker_threshold

VARIABLES
    anActive,     \* _active
    anCame,       \* announces received so far
    anQueue,      \* _queue
    anItem,       \* what the dispatch loop works on, 0 when it waits
    anLeft,       \* the subscriptions of its snapshot it has not looked at yet
    anSub,        \* the subscriptions
    anServed,     \* the last announce a subscriber's callback got
    anStop        \* stop()

anVars == <<anActive, anCame, anQueue, anItem, anLeft, anSub, anServed, anStop>>

NoSub == [reg |-> FALSE, active |-> FALSE, box |-> <<>>, worker |-> "none", slow |-> 0,
          off |-> FALSE, leaving |-> "no"]

AnInit ==
    /\ anActive = TRUE /\ anCame = 0 /\ anQueue = <<>> /\ anItem = 0 /\ anLeft = {}
    /\ anSub = [s \in AnSubs |-> NoSub]
    /\ anServed = [s \in AnSubs |-> 0]
    /\ anStop = "no"

Subscribe(s) ==
    /\ anSub[s] = NoSub
    /\ anSub' = [anSub EXCEPT ![s].reg = TRUE, ![s].active = TRUE, ![s].worker = "get"]
    /\ UNCHANGED <<anActive, anCame, anQueue, anItem, anLeft, anServed, anStop>>

(* RNS delivers an announce; a full queue drops it. *)
Announce ==
    /\ anActive /\ anCame < AnCount
    /\ anCame' = anCame + 1
    /\ anQueue' = IF Len(anQueue) < AnQueueMax THEN Append(anQueue, anCame + 1) ELSE anQueue
    /\ UNCHANGED <<anActive, anItem, anLeft, anSub, anServed, anStop>>

(* _dispatch_loop takes an announce and a snapshot of the subscriptions. *)
DispatchTakes ==
    /\ anActive /\ anItem = 0 /\ anQueue # <<>>
    /\ anItem' = Head(anQueue) /\ anQueue' = Tail(anQueue)
    /\ anLeft' = {s \in AnSubs : anSub[s].reg}
    /\ UNCHANGED <<anActive, anCame, anSub, anServed, anStop>>

AtSub(s, more) == anSub' = [anSub EXCEPT ![s] = more @@ @]

(* Mutant of DispatchTo: the loop waits for room in the mailbox. *)
DispatchToBlocking(s) ==
    /\ s \in anLeft
    /\ anSub[s].off \/ Len(anSub[s].box) < AnBoxMax
    /\ anLeft' = anLeft \ {s} /\ anItem' = IF anLeft' = {} THEN 0 ELSE anItem
    /\ IF anSub[s].off THEN UNCHANGED anSub ELSE AtSub(s, [box |-> Append(anSub[s].box, anItem)])
    /\ UNCHANGED <<anActive, anCame, anQueue, anServed, anStop>>

(* Mutant of DispatchTo: the newest first. *)
DispatchToFront(s) ==
    /\ s \in anLeft
    /\ anLeft' = anLeft \ {s} /\ anItem' = IF anLeft' = {} THEN 0 ELSE anItem
    /\ IF anSub[s].off \/ Len(anSub[s].box) >= AnBoxMax THEN UNCHANGED anSub
       ELSE AtSub(s, [box |-> <<anItem>> \o anSub[s].box])
    /\ UNCHANGED <<anActive, anCame, anQueue, anServed, anStop>>

(* One subscription of the snapshot: disabled, not concerned, served, or its
   mailbox is full, which drops the announce and disables it.              *)
DispatchTo(s) ==
    /\ s \in anLeft
    /\ anLeft' = anLeft \ {s} /\ anItem' = IF anLeft' = {} THEN 0 ELSE anItem
    /\ \/ UNCHANGED anSub                                      \* the aspect does not match
       \/ ~anSub[s].off /\ IF Len(anSub[s].box) < AnBoxMax
                           THEN AtSub(s, [box |-> Append(anSub[s].box, anItem)])
                           ELSE AtSub(s, [off |-> TRUE])
    /\ UNCHANGED <<anActive, anCame, anQueue, anServed, anStop>>

DispatchNobody ==
    /\ anItem # 0 /\ anLeft = {} /\ anItem' = 0
    /\ UNCHANGED <<anActive, anCame, anQueue, anLeft, anSub, anServed, anStop>>

(* _subscriber_loop: the sentinel (0) ends it; what it takes when inactive or
   disabled is discarded.                                                  *)
WorkerTakes(s) ==
    LET sub == anSub[s] IN
    /\ sub.worker = "get" /\ sub.active /\ sub.box # <<>>
    /\ LET item == Head(sub.box) IN
       CASE item = 0 -> AtSub(s, [worker |-> "ended", box |-> Tail(sub.box)]) /\ UNCHANGED anServed
         [] item # 0 /\ sub.off -> AtSub(s, [box |-> Tail(sub.box)]) /\ UNCHANGED anServed
         [] OTHER -> AtSub(s, [worker |-> "enter", box |-> Tail(sub.box)])
                     /\ anServed' = [anServed EXCEPT ![s] = item]
    /\ UNCHANGED <<anActive, anCame, anQueue, anItem, anLeft, anStop>>

CallbackEntered(s) ==
    /\ anSub[s].worker = "enter" /\ AtSub(s, [worker |-> "call"])
    /\ UNCHANGED <<anActive, anCame, anQueue, anItem, anLeft, anServed, anStop>>

WorkerLeaves(s) ==
    /\ anSub[s].worker = "get" /\ ~anSub[s].active
    /\ AtSub(s, [worker |-> "ended"])
    /\ UNCHANGED <<anActive, anCame, anQueue, anItem, anLeft, anServed, anStop>>

(* The callback returns, in time, too late or by an exception. *)
CallbackReturns(s) ==
    LET sub == anSub[s]
        slow == IF sub.slow < AnSlow THEN sub.slow + 1 ELSE AnSlow IN
    /\ sub.worker = "call"
    /\ \/ AtSub(s, [worker |-> "get", slow |-> 0])
       \/ AtSub(s, [worker |-> "get"])
       \/ AtSub(s, [worker |-> "get", slow |-> slow, off |-> sub.off \/ slow = AnSlow])
    /\ UNCHANGED <<anActive, anCame, anQueue, anItem, anLeft, anServed, anStop>>

CooldownEnds(s) ==
    /\ anSub[s].off /\ AtSub(s, [off |-> FALSE])
    /\ UNCHANGED <<anActive, anCame, anQueue, anItem, anLeft, anServed, anStop>>

(* unsubscribe: out of the table, then inactive with a sentinel, then a short
   join of the worker                                                      *)
Unsubscribe(s) ==
    /\ anSub[s].reg /\ anSub[s].leaving = "no"
    /\ AtSub(s, [reg |-> FALSE, leaving |-> "yes"])
    /\ UNCHANGED <<anActive, anCame, anQueue, anItem, anLeft, anServed, anStop>>

StopSubscription(s) ==
    /\ anSub[s].leaving = "yes"
    /\ AtSub(s, [active |-> FALSE, leaving |-> "joining",
                 box |-> IF Len(anSub[s].box) < AnBoxMax THEN Append(anSub[s].box, 0)
                         ELSE anSub[s].box])
    /\ UNCHANGED <<anActive, anCame, anQueue, anItem, anLeft, anServed, anStop>>

(* worker.join(timeout=0.1): it returns whatever the worker is doing. *)
JoinWorker(s) ==
    /\ anSub[s].leaving = "joining"
    /\ AtSub(s, [leaving |-> "left"])
    /\ UNCHANGED <<anActive, anCame, anQueue, anItem, anLeft, anServed, anStop>>

(* stop: inactive, the dispatch loop joined for at most five seconds, then
   every subscription                                                      *)
StopDispatcher ==
    /\ \/ anStop = "no" /\ anStop' = "joining" /\ anActive' = FALSE /\ UNCHANGED anSub
       \/ /\ anStop = "joining" /\ anStop' = "subs" /\ UNCHANGED anActive
          /\ anSub' = [s \in AnSubs |-> IF anSub[s].reg
                         THEN [anSub[s] EXCEPT !.reg = FALSE, !.leaving = "yes"] ELSE anSub[s]]
       \/ /\ anStop = "subs" /\ \A s \in AnSubs : anSub[s].leaving \notin {"yes", "joining"}
          /\ anStop' = "stopped" /\ UNCHANGED <<anActive, anSub>>
    /\ UNCHANGED <<anCame, anQueue, anItem, anLeft, anServed>>

DispatchStep == DispatchTakes \/ DispatchNobody \/ \E s \in AnSubs : DispatchTo(s)

AnNext ==
    \/ Announce \/ DispatchStep \/ StopDispatcher
    \/ \E s \in AnSubs : \/ Subscribe(s) \/ Unsubscribe(s) \/ StopSubscription(s) \/ JoinWorker(s)
                         \/ WorkerTakes(s) \/ CallbackEntered(s) \/ WorkerLeaves(s) \/ CallbackReturns(s) \/ CooldownEnds(s)

AnSpec == AnInit /\ [][AnNext]_anVars

AnTypeOK ==
    /\ anCame \in 0..AnCount /\ Len(anQueue) <= AnQueueMax /\ anItem \in 0..AnCount
    /\ \A s \in AnSubs : /\ Len(anSub[s].box) <= AnBoxMax
                         /\ anSub[s].worker \in {"none", "get", "enter", "call", "ended"}
                         /\ anSub[s].slow \in 0..AnSlow

(* A subscriber gets announces in the order they came, none of them twice. *)
ServedInOrder ==
    [][\A s \in AnSubs :
          anSub[s].worker = "get" /\ anSub'[s].worker = "enter" => anServed'[s] > anServed[s]]_anVars

(* When unsubscribe or stop has returned, the callback of the subscription is
   entered for one announce at most, the one its worker had already taken:
   the join gives up after a tenth of a second.                            *)
NotCalledAfterLeaving ==
    [][\A s \in AnSubs : anSub[s].leaving = "left" =>
          /\ anServed'[s] = anServed[s]
          /\ anSub'[s].worker \in {"enter", "call"} => anSub[s].worker \in {"enter", "call"}]_anVars

(* "one slow consumer cannot delay unrelated announces": the dispatcher goes
   on although a callback never returns.                                   *)
DispatchGoesOn ==
    \A n \in 1..AnCount : n \in ToSet(anQueue) ~> (n \notin ToSet(anQueue) \/ ~anActive)

-----------------------------------------------------------------------------
(* The pools.  The executors check and put a task under their lock; the pool
   of the event bus puts it after it has let the lock go.                  *)

CONSTANTS
    WpKind,       \* "bus" or "executor"
    WpTasks, WpWorkers,
    WpMax         \* max_pending

VARIABLES
    wpOpen,       \* _active, or not _shutdown
    wpQueue,      \* _queue; "stop" is the sentinel
    wpTask,       \* the tasks, with the states of their futures
    wpWorker,     \* the worker threads: "get", "ended" or the task they run
    wpEnd         \* shutdown(): "no", "drain", "stops" or "done"

wpVars == <<wpOpen, wpQueue, wpTask, wpWorker, wpEnd>>

WpInit ==
    /\ wpOpen = TRUE /\ wpQueue = <<>> /\ wpEnd = "no"
    /\ wpTask = [t \in WpTasks |-> "new"]
    /\ wpWorker = [w \in WpWorkers |-> "get"]

WpPut(t) ==
    IF Len(wpQueue) < WpMax
    THEN wpTask' = [wpTask EXCEPT ![t] = "queued"] /\ wpQueue' = Append(wpQueue, t)
    ELSE wpTask' = [wpTask EXCEPT ![t] = "refused"] /\ UNCHANGED wpQueue

Submit(t) ==
    /\ wpTask[t] = "new"
    /\ CASE ~wpOpen -> wpTask' = [wpTask EXCEPT ![t] = "refused"] /\ UNCHANGED wpQueue
         [] wpOpen /\ WpKind = "bus" -> wpTask' = [wpTask EXCEPT ![t] = "checked"] /\ UNCHANGED wpQueue
         [] OTHER -> WpPut(t)
    /\ UNCHANGED <<wpOpen, wpWorker, wpEnd>>

SubmitPuts(t) ==
    /\ wpTask[t] = "checked" /\ WpPut(t)
    /\ UNCHANGED <<wpOpen, wpWorker, wpEnd>>

(* A worker takes the next entry; a future that was cancelled is skipped. *)
PoolWorkerTakes(w) ==
    /\ wpWorker[w] = "get" /\ wpQueue # <<>> /\ wpQueue' = Tail(wpQueue)
    /\ LET t == Head(wpQueue) IN
       IF t = "stop" THEN wpWorker' = [wpWorker EXCEPT ![w] = "ended"] /\ UNCHANGED wpTask
       ELSE IF wpTask[t] = "queued"
       THEN wpWorker' = [wpWorker EXCEPT ![w] = t] /\ wpTask' = [wpTask EXCEPT ![t] = "running"]
       ELSE UNCHANGED <<wpWorker, wpTask>>
    /\ UNCHANGED <<wpOpen, wpEnd>>

(* The callback returns or raises; a blocked one never does. *)
PoolWorkerEnds(w) ==
    /\ wpWorker[w] \in WpTasks
    /\ wpTask' = [wpTask EXCEPT ![wpWorker[w]] = "done"]
    /\ wpWorker' = [wpWorker EXCEPT ![w] = "get"]
    /\ UNCHANGED <<wpOpen, wpQueue, wpEnd>>

(* The owner of a future gives it up, as the dashboard's timeouts do. *)
Cancel(t) ==
    /\ WpKind = "executor" /\ wpTask[t] = "queued"
    /\ wpTask' = [wpTask EXCEPT ![t] = "cancelled"]
    /\ UNCHANGED <<wpOpen, wpQueue, wpWorker, wpEnd>>

PoolShutdown ==
    /\ wpEnd = "no" /\ wpEnd' = "drain" /\ wpOpen' = FALSE
    /\ UNCHANGED <<wpQueue, wpTask, wpWorker>>

(* Mutant of PoolDrains: the entries go, their futures do not hear of it. *)
PoolDrainsSilently ==
    /\ wpEnd = "drain"
    /\ IF wpQueue = <<>> THEN wpEnd' = "stops" /\ UNCHANGED <<wpQueue, wpTask>>
       ELSE wpQueue' = Tail(wpQueue) /\ UNCHANGED <<wpEnd, wpTask>>
    /\ UNCHANGED <<wpOpen, wpWorker>>

(* The entries that wait are taken out one by one, beside the workers, and
   their futures cancelled.                                                *)
PoolDrains ==
    /\ wpEnd = "drain"
    /\ IF wpQueue = <<>> THEN wpEnd' = "stops" /\ UNCHANGED <<wpQueue, wpTask>>
       ELSE /\ wpQueue' = Tail(wpQueue) /\ UNCHANGED wpEnd
            /\ wpTask' = [wpTask EXCEPT ![Head(wpQueue)] = "cancelled"]
    /\ UNCHANGED <<wpOpen, wpWorker>>

(* Mutant of PoolStops: one sentinel. *)
PoolStopsOne ==
    /\ wpEnd = "stops" /\ wpEnd' = "done" /\ wpQueue' = Append(wpQueue, "stop")
    /\ UNCHANGED <<wpOpen, wpTask, wpWorker>>

(* One sentinel for each worker, as far as the queue has room. *)
PoolStops ==
    /\ wpEnd = "stops" /\ wpEnd' = "done"
    /\ LET room == WpMax - Len(wpQueue)
           n == IF room < Cardinality(WpWorkers) THEN room ELSE Cardinality(WpWorkers) IN
       wpQueue' = wpQueue \o [k \in 1..n |-> "stop"]
    /\ UNCHANGED <<wpOpen, wpTask, wpWorker>>

WpNext ==
    \/ \E t \in WpTasks : Submit(t) \/ SubmitPuts(t) \/ Cancel(t)
    \/ \E w \in WpWorkers : PoolWorkerTakes(w) \/ PoolWorkerEnds(w)
    \/ PoolShutdown \/ PoolDrains \/ PoolStops

WpSpec == WpInit /\ [][WpNext]_wpVars

WpTypeOK ==
    /\ wpTask \in [WpTasks -> {"new", "checked", "queued", "running", "done", "refused", "cancelled"}]
    /\ wpWorker \in [WpWorkers -> {"get", "ended"} \cup WpTasks]
    /\ Len(wpQueue) <= WpMax

(* A task is in one place: once in the queue while it waits, with one worker
   while it runs; so it is neither lost nor run twice, whatever submissions,
   cancellations and a shutdown do beside the workers.                     *)
TaskInOnePlace ==
    \A t \in WpTasks :
        /\ Cardinality({w \in WpWorkers : wpWorker[w] = t}) = IF wpTask[t] = "running" THEN 1 ELSE 0
        /\ Cardinality({i \in DOMAIN wpQueue : wpQueue[i] = t})
              \in CASE wpTask[t] = "queued" -> {1} [] wpTask[t] = "cancelled" -> {0, 1} [] OTHER -> {0}

(* A future whose task was accepted is settled whatever comes, a shutdown
   included, unless every worker is blocked; the wait of an HTTP handler ends. *)
FutureSettles ==
    WpKind = "executor" =>
        \A t \in WpTasks : wpTask[t] = "queued" ~>
            \/ wpTask[t] \in {"running", "done", "cancelled"}
            \/ \A w \in WpWorkers : wpWorker[w] \in WpTasks

(* A worker that is not blocked ends after a shutdown. *)
PoolWorkersEnd ==
    \A w \in WpWorkers : wpEnd = "done" /\ wpWorker[w] = "get" ~> wpWorker[w] # "get"

(* Announces are served in order, nobody is called again after leaving, and the
   pools keep every task in one place.                                       *)
DispatchOrdered ==
    /\ [](AnTypeOK /\ WpTypeOK /\ TaskInOnePlace)
    /\ ServedInOrder
    /\ NotCalledAfterLeaving
=============================================================================
