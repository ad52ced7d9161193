------------------------------ MODULE MeshBridge ------------------------------
(***************************************************************************)
(* Two plugins that answer what the meshes bring, each on several worker   *)
(* threads of the event bus: mesh_bridge.py (Mb), which relays between     *)
(* Meshtastic and MeshCore, and meshtastic_responder.py (Mr).  Texts are   *)
(* members of a set; filters, sizes and channel maps are left out.         *)
(***************************************************************************)
EXTENDS Integers, Sequences, FiniteSets

CONSTANTS
    MbJobs,       \* worker threads that run the handlers
    MbTexts,
    MbOperators,  \* callers of set_running
    MbTtl,        \* dedup_ttl_seconds and the breaker's window, in ticks
    MbMax,        \* dedup_max_entries
    MbThreshold,  \* auto_pause_threshold
    MbTicks, MbEvents, MbToggles, \* bounds; the last counts toggles and restarts
    MrJobs, MrNodes, MrCooldown, MrMax, \* MrMax: _COOLDOWN_PRUNE_THRESHOLD
    MrTicks, MrMessages, MrStops

ASSUME MeshBridgeAssumption ==
    /\ MbTtl \in Nat /\ MbMax \in Nat \ {0} /\ MbThreshold \in Nat \ {0}
    /\ {MbTicks, MbEvents, MbToggles, MrTicks, MrMessages, MrStops, MrMax} \subseteq Nat
    /\ MrCooldown \in Nat \ {0}

-----------------------------------------------------------------------------
(* The bridge. *)
VARIABLES
    mbNow,      \* monotonic clock
    mbGrace,    \* the start is more recent than startup_grace_seconds
    mbRunning,  \* _running
    mbStored,   \* running in the state file
    mbCache,    \* _dedup_cache in the order of the dict: <<key, time>>
    mbRecent,   \* _recent_relays
    mbJob,      \* job -> [pc, key, at, tagged]
    mbCall,     \* operator -> [pc, to]
    mbQueued,   \* relays that wait in the hub's outbound queue
    mbTwice,    \* history: a key was taken twice within its TTL
    mbTaken,    \* history: key -> time it was last taken, and still cached
    mbSent,     \* history: times of the transmissions since the last resume
    mbIntent,   \* history: what the last set_running that returned asked for
    mbOverlap,  \* history: two set_running overlapped since, or a write failed
    mbEvents, mbToggles

mbCount == <<mbEvents, mbToggles>>
mbHist == <<mbTwice, mbTaken, mbSent, mbIntent, mbOverlap>>
mbVars == <<mbNow, mbGrace, mbRunning, mbStored, mbCache, mbRecent, mbJob, mbCall, mbQueued, mbHist, mbCount>>

MbKeys == {"mesh", "core"} \X MbTexts
MbIdle == [pc |-> "idle", key |-> <<>>, at |-> 0]
MbCallers == MbOperators \cup MbJobs
MbDone == [pc |-> "idle", to |-> TRUE]

MbInit ==
    /\ mbNow = 0 /\ mbGrace = TRUE /\ mbRunning = TRUE /\ mbStored = TRUE /\ mbCache = <<>> /\ mbRecent = <<>>
    /\ mbJob = [j \in MbJobs |-> MbIdle] /\ mbCall = [o \in MbCallers |-> MbDone] /\ mbQueued = 0
    /\ mbTwice = FALSE /\ mbTaken = [k \in MbKeys |-> -1] /\ mbSent = <<>>
    /\ mbIntent = TRUE /\ mbOverlap = FALSE /\ mbEvents = 0 /\ mbToggles = 0

(* A job ends within the TTL: the gateways' own timeouts are shorter. *)
MbTick ==
    /\ mbNow < MbTicks /\ mbNow' = mbNow + 1 /\ mbGrace' = FALSE
    /\ \A j \in MbJobs : mbJob[j].pc # "idle" => mbNow - mbJob[j].at < MbTtl
    /\ UNCHANGED <<mbRunning, mbStored, mbCache, mbRecent, mbJob, mbCall, mbQueued, mbHist, mbCount>>

(* A message arrives; what is early, tagged, or comes while paused is dropped. *)
Hears(j, key, tagged) ==
    /\ mbJob[j].pc = "idle" /\ mbCall[j].pc = "idle" /\ mbEvents < MbEvents
    /\ ~mbGrace /\ mbRunning /\ ~tagged /\ mbEvents' = mbEvents + 1
    /\ mbJob' = [mbJob EXCEPT ![j] = [pc |-> "dedup", key |-> key, at |-> mbNow]]
    /\ UNCHANGED <<mbNow, mbGrace, mbRunning, mbStored, mbCache, mbRecent, mbCall, mbQueued, mbHist, mbToggles>>

(* A key is written in its place, or at the end; what is too much goes: the
   expired entries first, then the oldest.                                  *)
Entry(cache, key) == {i \in 1..Len(cache) : cache[i][1] = key}
Bounded(cache, now) ==
    IF Len(cache) <= MbMax THEN cache
    ELSE LET young == SelectSeq(cache, LAMBDA e : e[2] > now - MbTtl)
         IN IF Len(young) <= MbMax THEN young ELSE SubSeq(young, Len(young) - MbMax + 1, Len(young))
Recorded(cache, key, now) ==
    Bounded(IF Entry(cache, key) = {} THEN Append(cache, <<key, now>>)
            ELSE [i \in 1..Len(cache) |-> IF cache[i][1] = key THEN <<key, now>> ELSE cache[i]], now)
SeenLately(key, now) == \E i \in Entry(mbCache, key) : now - mbCache[i][2] <= MbTtl
Taken(cache, keys, at) == [k \in MbKeys |-> IF Entry(cache, k) = {} THEN -1 ELSE IF k \in keys THEN at ELSE mbTaken[k]]
TakenLately(key, at) == mbTaken[key] >= 0 /\ at - mbTaken[key] <= MbTtl

(* Mutant of ChecksAndRecords: the key is recorded only after the send. *)
ChecksOnly(j) ==
    /\ mbJob[j].pc = "dedup"
    /\ LET key == mbJob[j].key at == mbJob[j].at IN
       IF SeenLately(key, at)
       THEN mbJob' = [mbJob EXCEPT ![j] = MbIdle] /\ UNCHANGED <<mbTwice, mbTaken>>
       ELSE /\ mbTwice' = (mbTwice \/ TakenLately(key, at)) /\ mbTaken' = [mbTaken EXCEPT ![key] = at]
            /\ mbJob' = [mbJob EXCEPT ![j].pc = "send"]
    /\ UNCHANGED <<mbNow, mbGrace, mbRunning, mbStored, mbCache, mbRecent, mbCall, mbQueued, mbSent, mbIntent, mbOverlap, mbCount>>

(* One step under the lock: a duplicate is dropped, anything else is taken. *)
ChecksAndRecords(j) ==
    /\ mbJob[j].pc = "dedup"
    /\ LET key == mbJob[j].key at == mbJob[j].at cache == Recorded(mbCache, key, at) IN
       IF SeenLately(key, at)
       THEN mbJob' = [mbJob EXCEPT ![j] = MbIdle] /\ UNCHANGED <<mbCache, mbTwice, mbTaken>>
       ELSE /\ mbCache' = cache /\ mbTwice' = (mbTwice \/ TakenLately(key, at))
            /\ mbTaken' = Taken(cache, {key}, at) /\ mbJob' = [mbJob EXCEPT ![j].pc = "send"]
    /\ UNCHANGED <<mbNow, mbGrace, mbRunning, mbStored, mbRecent, mbCall, mbQueued, mbSent, mbIntent, mbOverlap, mbCount>>

(* The hub, or without one the gateway, sends the text, queues it or refuses. *)
Dispatches(j) ==
    /\ mbJob[j].pc = "send"
    /\ \/ /\ mbJob' = [mbJob EXCEPT ![j].pc = "record"]
          /\ mbSent' = (IF mbRunning THEN Append(mbSent, mbNow) ELSE mbSent) /\ UNCHANGED mbQueued
       \/ mbJob' = [mbJob EXCEPT ![j] = MbIdle] /\ mbQueued' \in {mbQueued, mbQueued + 1} /\ UNCHANGED mbSent
    /\ UNCHANGED <<mbNow, mbGrace, mbRunning, mbStored, mbCache, mbRecent, mbCall, mbTwice, mbTaken, mbIntent, mbOverlap, mbCount>>
(* What was queued goes out later, whatever the bridge is doing then. *)
HubDrains ==
    /\ mbQueued > 0 /\ mbQueued' = mbQueued - 1
    /\ UNCHANGED <<mbNow, mbGrace, mbRunning, mbStored, mbCache, mbRecent, mbJob, mbCall, mbHist, mbCount>>

(* After a success the key is recorded for both meshes, with the time of its
   arrival, so that an untagged echo is not relayed back.                   *)
Opposite(key) == <<IF key[1] = "mesh" THEN "core" ELSE "mesh", key[2]>>
RecordsBoth(j) ==
    /\ mbJob[j].pc = "record"
    /\ LET key == mbJob[j].key at == mbJob[j].at
           cache == Recorded(Recorded(mbCache, key, at), Opposite(key), at) IN
       mbCache' = cache /\ mbTaken' = Taken(cache, {key, Opposite(key)}, at)
    /\ mbJob' = [mbJob EXCEPT ![j].pc = "breaker"]
    /\ UNCHANGED <<mbNow, mbGrace, mbRunning, mbStored, mbRecent, mbCall, mbQueued, mbTwice, mbSent, mbIntent, mbOverlap, mbCount>>

InWindow(times) == SelectSeq(times, LAMBDA t : t >= mbNow - MbTtl)
Tripped(n) == n > MbThreshold

(* Mutant of Counts: the relays of the whole window are forgotten. *)
CountsLast(j) ==
    /\ mbJob[j].pc = "breaker"
    /\ mbRecent' = <<mbNow>> /\ mbJob' = [mbJob EXCEPT ![j] = MbIdle]
    /\ mbCall' = [mbCall EXCEPT ![j] = IF Tripped(Len(mbRecent')) THEN [pc |-> "set", to |-> FALSE] ELSE @]
    /\ UNCHANGED <<mbNow, mbGrace, mbRunning, mbStored, mbCache, mbQueued, mbHist, mbCount>>

(* The breaker counts the relay and, over the threshold, pauses the bridge. *)
Counts(j) ==
    /\ mbJob[j].pc = "breaker"
    /\ mbRecent' = InWindow(Append(mbRecent, mbNow)) /\ mbJob' = [mbJob EXCEPT ![j] = MbIdle]
    /\ mbCall' = [mbCall EXCEPT ![j] = IF Tripped(Len(mbRecent')) THEN [pc |-> "set", to |-> FALSE] ELSE @]
    /\ UNCHANGED <<mbNow, mbGrace, mbRunning, mbStored, mbCache, mbQueued, mbHist, mbCount>>

(* set_running: the state changes under the lock ... *)
Toggles(o, to) ==
    /\ mbCall[o].pc = "idle" /\ mbToggles < MbToggles /\ mbToggles' = mbToggles + 1
    /\ mbCall' = [mbCall EXCEPT ![o] = [pc |-> "set", to |-> to]]
    /\ UNCHANGED <<mbNow, mbGrace, mbRunning, mbStored, mbCache, mbRecent, mbJob, mbQueued, mbHist, mbEvents>>
Sets(c) ==
    /\ mbCall[c].pc = "set"
    /\ LET others == \E d \in MbCallers \ {c} : mbCall[d].pc = "write" IN
       IF mbRunning # mbCall[c].to
       THEN mbCall' = [mbCall EXCEPT ![c].pc = "write"] /\ mbOverlap' = others
       ELSE mbCall' = [mbCall EXCEPT ![c] = MbDone] /\ UNCHANGED mbOverlap
    /\ mbRunning' = mbCall[c].to
    /\ IF mbCall[c].to THEN mbRecent' = <<>> /\ mbSent' = <<>> ELSE UNCHANGED <<mbRecent, mbSent>>
    /\ UNCHANGED <<mbNow, mbGrace, mbStored, mbCache, mbJob, mbQueued, mbTwice, mbTaken, mbIntent, mbCount>>

(* Mutant of Persists: only a resumption is written. *)
PersistsResume(c) ==
    /\ mbCall[c].pc = "write" /\ mbStored' = (mbStored \/ mbCall[c].to)
    /\ mbIntent' = mbCall[c].to /\ mbCall' = [mbCall EXCEPT ![c] = MbDone]
    /\ UNCHANGED <<mbNow, mbGrace, mbRunning, mbCache, mbRecent, mbJob, mbQueued, mbTwice, mbTaken, mbSent, mbOverlap, mbCount>>

(* ... and is written after it, which may fail and is then only logged. *)
Persists(c) ==
    /\ mbCall[c].pc = "write"
    /\ \/ mbStored' = mbCall[c].to /\ UNCHANGED mbOverlap
       \/ mbOverlap' = TRUE /\ UNCHANGED mbStored
    /\ mbIntent' = mbCall[c].to /\ mbCall' = [mbCall EXCEPT ![c] = MbDone]
    /\ UNCHANGED <<mbNow, mbGrace, mbRunning, mbCache, mbRecent, mbJob, mbQueued, mbTwice, mbTaken, mbSent, mbCount>>

(* The service is restarted: memory is lost, the state file is read. *)
MbRestart ==
    /\ mbToggles < MbToggles /\ mbToggles' = mbToggles + 1
    /\ \A c \in MbCallers : mbCall[c].pc # "write"
    /\ mbRunning' = mbStored /\ mbGrace' = TRUE /\ mbCache' = <<>> /\ mbRecent' = <<>> /\ mbSent' = <<>>
    /\ mbJob' = [j \in MbJobs |-> MbIdle] /\ mbCall' = [o \in MbCallers |-> MbDone]
    /\ mbTaken' = [k \in MbKeys |-> -1]
    /\ UNCHANGED <<mbNow, mbStored, mbQueued, mbTwice, mbIntent, mbOverlap, mbEvents>>

MbNext ==
    \/ MbTick \/ HubDrains \/ MbRestart
    \/ \E j \in MbJobs :
         \/ ChecksAndRecords(j) \/ Dispatches(j) \/ RecordsBoth(j) \/ Counts(j)
         \/ \E key \in MbKeys, tagged \in BOOLEAN : Hears(j, key, tagged)
    \/ \E o \in MbOperators, to \in BOOLEAN : Toggles(o, to)
    \/ \E c \in MbCallers : Sets(c) \/ Persists(c)

MbSpec == MbInit /\ [][MbNext]_mbVars

MbTypeOK ==
    /\ mbNow \in 0..MbTicks /\ {mbRunning, mbStored, mbGrace} \subseteq BOOLEAN /\ Len(mbCache) <= MbMax
    /\ \A j \in MbJobs : mbJob[j].key \in MbKeys \cup {<<>>} /\ mbJob[j].at <= mbNow
    /\ mbQueued \in 0..MbEvents

(* However many threads hear it, a message is relayed once per TTL, and its
   untagged echo not at all, unless the cache had to drop it (_relay,
   _dedup_check_and_record).                                                *)
RelayedOnce == ~mbTwice

(* A storm is cut: with more relays in the window than the threshold since the
   last resumption, the bridge is paused, or a job that counts its relay or
   pauses is still under way (_check_circuit_breaker, set_running).         *)
BreakerBounds ==
    Len(InWindow(mbSent)) > MbThreshold =>
        ~mbRunning \/ \E j \in MbJobs : mbJob[j].pc # "idle" \/ mbCall[j].pc # "idle"

(* A restart finds the bridge as the last set_running left it, the breaker's
   included; two that overlap are the exception (set_running, _load_state). *)
PauseSurvives ==
    ~mbOverlap /\ (\A c \in MbCallers : mbCall[c].pc # "write") => mbStored = mbRunning /\ mbRunning = mbIntent

(* What a reader expects of "stop all relaying": nothing queued by the bridge
   goes out while it is paused.  The hub's queue does not know of the pause.  *)
PauseStopsAll == [][mbQueued' < mbQueued => mbRunning]_mbVars

-----------------------------------------------------------------------------
(* The responder. *)
VARIABLES
    mrReal,     \* time that passed since the start
    mrWall,     \* time.time(), which the node's owner or NTP sets
    mrOn,       \* subscribed
    mrLast,     \* _node_cooldowns; 0 is no entry
    mrJob,      \* job -> [pc, node]
    mrOwn,      \* _own_node_id is known
    mrUp,       \* the gateway is ready and knows its node id
    mrAt,       \* history: node -> real time it was last admitted; -1 when a
                \* stop or a clock set forward has made the window void
    mrEarly,    \* history: a node was admitted twice within a cooldown
    mrMessages, mrStops

mrVars == <<mrReal, mrWall, mrOn, mrLast, mrJob, mrOwn, mrUp, mrAt, mrEarly, mrMessages, mrStops>>

MrSelf == "self"
MrAll == MrNodes \cup {MrSelf}
MrIdle == [pc |-> "idle", node |-> MrSelf]
MrForgotten == [n \in MrAll |-> 0]
MrVoid == [n \in MrAll |-> -1]

MrInit ==
    /\ mrReal = 0 /\ mrWall = MrCooldown + 1 /\ mrOn = TRUE /\ mrLast = MrForgotten
    /\ mrJob = [j \in MrJobs |-> MrIdle] /\ mrOwn = FALSE /\ mrUp = FALSE
    /\ mrAt = MrVoid /\ mrEarly = FALSE /\ mrMessages = 0 /\ mrStops = 0

MrTick ==
    /\ mrReal < MrTicks /\ mrReal' = mrReal + 1 /\ mrWall' = mrWall + 1
    /\ UNCHANGED <<mrOn, mrLast, mrJob, mrOwn, mrUp, mrAt, mrEarly, mrMessages, mrStops>>
MrClockSet ==
    /\ mrStops < MrStops /\ mrStops' = mrStops + 1
    /\ mrWall' \in {mrWall - 1, mrWall + MrCooldown}
    /\ mrAt' = (IF mrWall' > mrWall THEN MrVoid ELSE mrAt)
    /\ UNCHANGED <<mrReal, mrOn, mrLast, mrJob, mrOwn, mrUp, mrEarly, mrMessages>>
MrGateway ==
    /\ mrUp' = ~mrUp
    /\ UNCHANGED <<mrReal, mrWall, mrOn, mrLast, mrJob, mrOwn, mrAt, mrEarly, mrMessages, mrStops>>

(* A trigger from a node; the own node's is dropped once its id is known. *)
MrHears(j, n) ==
    /\ mrOn /\ mrJob[j].pc = "idle" /\ mrMessages < MrMessages /\ mrMessages' = mrMessages + 1
    /\ mrOwn' = (mrOwn \/ mrUp)
    /\ mrJob' = IF n = MrSelf /\ mrOwn' THEN mrJob ELSE [mrJob EXCEPT ![j] = [pc |-> "cooldown", node |-> n]]
    /\ UNCHANGED <<mrReal, mrWall, mrOn, mrLast, mrUp, mrAt, mrEarly, mrStops>>

Pruned(last) ==
    IF Cardinality({n \in MrAll : last[n] > 0}) <= MrMax THEN last
    ELSE [n \in MrAll |-> IF last[n] > mrWall - MrCooldown THEN last[n] ELSE 0]
Admitted(n) == mrEarly \/ (mrAt[n] >= 0 /\ mrReal - mrAt[n] < MrCooldown)
Cooling(n) == mrWall - mrLast[n] < MrCooldown

(* Mutant of ChecksCooldown: a full table is emptied. *)
ChecksCooldownEmptied(j) ==
    /\ mrJob[j].pc = "cooldown"
    /\ LET n == mrJob[j].node last == [mrLast EXCEPT ![n] = mrWall] IN
       IF Cooling(n) THEN mrJob' = [mrJob EXCEPT ![j] = MrIdle] /\ UNCHANGED <<mrLast, mrAt, mrEarly>>
       ELSE /\ mrLast' = (IF Pruned(last) # last THEN [MrForgotten EXCEPT ![n] = mrWall]
                           ELSE IF Cardinality({m \in MrAll : last[m] > 0}) > MrMax THEN MrForgotten ELSE last)
            /\ mrJob' = [mrJob EXCEPT ![j].pc = "reply"]
            /\ mrEarly' = Admitted(n) /\ mrAt' = [mrAt EXCEPT ![n] = mrReal]
    /\ UNCHANGED <<mrReal, mrWall, mrOn, mrOwn, mrUp, mrMessages, mrStops>>

(* _check_cooldown, one step under the lock: a cooling node is refused. *)
ChecksCooldown(j) ==
    /\ mrJob[j].pc = "cooldown"
    /\ LET n == mrJob[j].node IN
       IF Cooling(n) THEN mrJob' = [mrJob EXCEPT ![j] = MrIdle] /\ UNCHANGED <<mrLast, mrAt, mrEarly>>
       ELSE /\ mrLast' = Pruned([mrLast EXCEPT ![n] = mrWall]) /\ mrJob' = [mrJob EXCEPT ![j].pc = "reply"]
            /\ mrEarly' = Admitted(n) /\ mrAt' = [mrAt EXCEPT ![n] = mrReal]
    /\ UNCHANGED <<mrReal, mrWall, mrOn, mrOwn, mrUp, mrMessages, mrStops>>

(* The command runs; its answer is sent, or refused by the gateway. *)
MrReplies(j) ==
    /\ mrJob[j].pc = "reply" /\ mrJob' = [mrJob EXCEPT ![j] = MrIdle]
    /\ UNCHANGED <<mrReal, mrWall, mrOn, mrLast, mrOwn, mrUp, mrAt, mrEarly, mrMessages, mrStops>>

(* A stop unsubscribes and forgets the cooldowns; handlers under way go on.
   A start begins anew, also with the own node id.                          *)
MrStopStart ==
    /\ mrStops < MrStops /\ mrStops' = mrStops + 1 /\ mrOn' = ~mrOn
    /\ mrLast' = MrForgotten /\ mrAt' = MrVoid /\ mrOwn' = (mrOn /\ mrOwn)
    /\ UNCHANGED <<mrReal, mrWall, mrJob, mrUp, mrEarly, mrMessages>>

MrNext ==
    \/ MrTick \/ MrClockSet \/ MrGateway \/ MrStopStart
    \/ \E j \in MrJobs : ChecksCooldown(j) \/ MrReplies(j) \/ (\E n \in MrAll : MrHears(j, n))

MrSpec == MrInit /\ [][MrNext]_mrVars

MrTypeOK ==
    /\ mrReal \in 0..MrTicks /\ mrWall \in Nat /\ mrLast \in [MrAll -> Nat]
    /\ mrAt \in [MrAll -> -1..MrTicks]
    /\ \A j \in MrJobs : mrJob[j].pc \in {"idle", "cooldown", "reply"}

(* A node is admitted once per cooldown of real time, however many handlers
   run, however full the table is and although the clock is set back; a stop
   and a clock set forward begin a new window (_check_cooldown).            *)
OncePerCooldown == ~mrEarly

(* What the two plugins owe the meshes, for the runs. *)
MeshAnswers ==
    /\ [](/\ MbTypeOK /\ RelayedOnce /\ BreakerBounds /\ PauseSurvives
          /\ MrTypeOK /\ OncePerCooldown)

=============================================================================
