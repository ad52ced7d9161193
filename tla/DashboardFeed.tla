---------------------------- MODULE DashboardFeed ----------------------------
(***************************************************************************)
(* What the dashboard's clients are told (builtin_plugins/web_dashboard/   *)
(* websocket_handler.py, broadcast_registry.py, api_cache.py).             *)
(*                                                                         *)
(* df...: the broadcast loops send what has changed since their last       *)
(* round; a client that joins gets a snapshot first.  The metrics feed     *)
(* keeps a warm copy for it, also while nobody is connected; the spectrum  *)
(* feed sends everything again from time to time.  One key of the data is  *)
(* followed; its value 0 is "not there".  A client merges what it gets into *)
(* what it has: a message without the key leaves its view of it alone.     *)
(* br...: the registry collects the plugins' data under a time budget.     *)
(* ac...: the response cache of one endpoint of the HTTP API.              *)
(***************************************************************************)
EXTENDS Integers, FiniteSets

CONSTANTS
    DfClients,     \* clients
    DfValues,      \* values of the key
    DfChanges,     \* bound on its changes
    DfResync,      \* spectrum_resync_cycles
    BrPlugins,     \* the plugins of one tier are 1..BrPlugins
    AcVersions,    \* bound on the changes of what an endpoint reads
    AcRequests     \* concurrent requests

ASSUME DashboardFeedAssumption ==
    /\ DfValues \subseteq Nat \ {0} /\ DfResync \in Nat \ {0} /\ {DfChanges, AcVersions} \subseteq Nat
    /\ BrPlugins \in 1..3

VARIABLES
    dfKind,        \* which loop this is: "metrics" or "spectrum"
    dfBeside,      \* the data has other keys beside this one
    dfSrc,         \* the value the plugin would report now
    dfPrev,        \* prev_data
    dfWarm,        \* _warm_cache_data, NoCopy before the first
    dfClient,      \* a client: its state, the snapshot collected for it and its view
    dfLoop,        \* the loop: collecting, comparing, sending
    dfCycle,       \* cycle_count, up to the next resync
    dfChanged      \* changes so far

dfVars == <<dfKind, dfBeside, dfSrc, dfPrev, dfWarm, dfClient, dfLoop, dfCycle, dfChanged>>

DfAway == [pc |-> "no", snap |-> 0, view |-> 0]
DfIdle == [pc |-> "idle", data |-> 0, payload |-> FALSE]
NoCopy == -1

(* What a client shows of the key after a message with these data *)
Merged(view, data) == IF data = 0 THEN view ELSE data

DfInit ==
    /\ dfKind \in {"metrics", "spectrum"} /\ dfBeside \in BOOLEAN /\ dfSrc \in DfValues \cup {0}
    /\ dfKind = "metrics" => dfBeside           \* ws_stats is always there
    /\ dfPrev = 0 /\ dfWarm = NoCopy /\ dfClient = [c \in DfClients |-> DfAway]
    /\ dfLoop = DfIdle /\ dfCycle = 0 /\ dfChanged = 0

Connected == {c \in DfClients : dfClient[c].pc # "no"}

(* The plugin reports something else, nothing, or something again. *)
SourceChanges ==
    /\ dfChanged < DfChanges /\ dfChanged' = dfChanged + 1
    /\ dfSrc' \in (DfValues \cup {0}) \ {dfSrc}
    /\ UNCHANGED <<dfKind, dfBeside, dfPrev, dfWarm, dfClient, dfLoop, dfCycle>>

(* A client joins: the metrics feed gives it the warm copy at once, if that
   is recent; otherwise, and in the spectrum feed, a snapshot is collected. *)
ClientJoins ==
    /\ \E c \in DfClients \ Connected :
         \/ dfKind = "metrics" /\ dfWarm # NoCopy
            /\ dfClient' = [dfClient EXCEPT ![c] = [pc |-> "in", snap |-> 0, view |-> dfWarm]]
         \/ dfClient' = [dfClient EXCEPT ![c].pc = "collect"]
    /\ UNCHANGED <<dfKind, dfBeside, dfSrc, dfPrev, dfWarm, dfLoop, dfCycle, dfChanged>>

(* The snapshot is collected by the executor, or (spectrum) on the spot. *)
SnapshotCollected ==
    /\ \E c \in Connected :
         /\ dfClient[c].pc = "collect"
         /\ dfClient' = [dfClient EXCEPT ![c] =
              IF dfKind = "metrics" THEN [@ EXCEPT !.pc = "snap", !.snap = dfSrc]
              ELSE [@ EXCEPT !.pc = "in", !.view = Merged(@, dfSrc)]]
    /\ UNCHANGED <<dfKind, dfBeside, dfSrc, dfPrev, dfWarm, dfLoop, dfCycle, dfChanged>>

SnapshotSent ==
    /\ \E c \in Connected : /\ dfClient[c].pc = "snap"
                            /\ dfClient' = [dfClient EXCEPT ![c] = [pc |-> "in", snap |-> 0,
                                                                view |-> Merged(@.view, @.snap)]]
    /\ UNCHANGED <<dfKind, dfBeside, dfSrc, dfPrev, dfWarm, dfLoop, dfCycle, dfChanged>>

(* _handle_snapshot_request: a client asks for everything again. *)
SnapshotRequested ==
    /\ dfKind = "metrics"
    /\ \E c \in Connected :
         /\ dfClient[c].pc = "in"
         /\ \/ dfWarm # NoCopy /\ dfClient' = [dfClient EXCEPT ![c].view = Merged(@, dfWarm)]
            \/ dfClient' = [dfClient EXCEPT ![c].pc = "collect"]
    /\ UNCHANGED <<dfKind, dfBeside, dfSrc, dfPrev, dfWarm, dfLoop, dfCycle, dfChanged>>

ClientLeaves ==
    /\ \E c \in Connected : dfClient' = [dfClient EXCEPT ![c] = DfAway]
    /\ UNCHANGED <<dfKind, dfBeside, dfSrc, dfPrev, dfWarm, dfLoop, dfCycle, dfChanged>>

(* Nobody is connected: the heartbeat keeps the warm copy, and what was sent
   last stays what it was.                                                 *)
Heartbeat ==
    /\ dfKind = "metrics" /\ dfLoop.pc = "idle" /\ Connected = {} /\ dfWarm' = dfSrc
    /\ UNCHANGED <<dfKind, dfBeside, dfSrc, dfPrev, dfClient, dfLoop, dfCycle, dfChanged>>

RoundCollects ==
    /\ dfLoop.pc = "idle" /\ Connected # {}
    /\ dfLoop' = [pc |-> "diff", data |-> dfSrc, payload |-> FALSE]
    /\ UNCHANGED <<dfKind, dfBeside, dfSrc, dfPrev, dfWarm, dfClient, dfCycle, dfChanged>>

(* Mutant of RoundCompares: the spectrum feed never resynchronises. *)
RoundComparesOnly ==
    /\ dfLoop.pc = "diff" /\ dfCycle' = 0
    /\ dfWarm' = IF dfKind = "metrics" THEN dfLoop.data ELSE dfWarm
    /\ dfPrev' = dfLoop.data
    /\ dfLoop' = [dfLoop EXCEPT !.pc = "send", !.payload = dfLoop.data # dfPrev]
    /\ UNCHANGED <<dfKind, dfBeside, dfSrc, dfClient, dfChanged>>

(* _diff_payload (the key's new value, or that it was removed), or everything
   there is when the cycle is one of the resyncs: that does not speak of what
   was removed.                                                            *)
RoundCompares ==
    /\ dfLoop.pc = "diff" /\ (dfBeside \/ dfLoop.data # 0)
    /\ dfCycle' = IF dfKind = "spectrum" THEN (dfCycle + 1) % DfResync ELSE 0
    /\ dfWarm' = IF dfKind = "metrics" THEN dfLoop.data ELSE dfWarm
    /\ dfPrev' = dfLoop.data
    /\ LET resync == dfKind = "spectrum" /\ dfCycle' = 0
       IN dfLoop' = [dfLoop EXCEPT !.pc = "send",
                       !.payload = IF resync THEN dfLoop.data # 0 ELSE dfLoop.data # dfPrev]
    /\ UNCHANGED <<dfKind, dfBeside, dfSrc, dfClient, dfChanged>>

(* "if not data: continue": nothing at all was collected; the round neither
   counts nor says that the keys are gone.                                 *)
RoundFindsNothing ==
    /\ dfLoop.pc = "diff" /\ ~dfBeside /\ dfLoop.data = 0 /\ dfLoop' = DfIdle
    /\ UNCHANGED <<dfKind, dfBeside, dfSrc, dfPrev, dfWarm, dfClient, dfCycle, dfChanged>>

(* The message goes to the clients of this moment. *)
RoundSends ==
    /\ dfLoop.pc = "send" /\ dfLoop' = DfIdle
    /\ dfClient' = [c \in DfClients |->
         IF dfLoop.payload /\ c \in Connected THEN [dfClient[c] EXCEPT !.view = dfLoop.data]
         ELSE dfClient[c]]
    /\ UNCHANGED <<dfKind, dfBeside, dfSrc, dfPrev, dfWarm, dfCycle, dfChanged>>

DfRound == Heartbeat \/ RoundCollects \/ RoundCompares \/ RoundFindsNothing \/ RoundSends
DfHandler == SnapshotCollected \/ SnapshotSent

DfNext == SourceChanges \/ ClientJoins \/ DfHandler \/ SnapshotRequested \/ ClientLeaves \/ DfRound

DfTypeOK ==
    /\ {dfSrc, dfPrev} \subseteq DfValues \cup {0} /\ dfWarm \in DfValues \cup {0, NoCopy}
    /\ dfClient \in [DfClients -> [pc : {"no", "collect", "snap", "in"}, snap : DfValues \cup {0},
                                   view : DfValues \cup {0}]]
    /\ dfLoop.pc \in {"idle", "diff", "send"} /\ dfCycle \in 0..(DfResync - 1)

Shows(kind, c) ==
    (dfKind = kind /\ dfClient[c].pc = "in") ~> (dfClient[c].view = dfSrc \/ dfSrc = 0 \/ dfClient[c].pc # "in")

(* Once the plugin's data no longer change and are there, every spectrum
   client shows them, whatever rounds its snapshot has crossed and however
   often they were away meanwhile.  (That they are gone is not always told.) *)
SpectrumConverges == \A c \in DfClients : Shows("spectrum", c)

(* The same for the metrics feed: the snapshot is for a client "instead of
   waiting up to 5s for the next broadcast cycle" (line 803).  The code sends
   the difference from the last round, which is not the snapshot.          *)
MetricsConverge == \A c \in DfClients : Shows("metrics", c)

-----------------------------------------------------------------------------
(* BroadcastRegistry.collect, one tier *)

VARIABLES
    brCycle,       \* _cycle_count modulo the possible numbers of plugins
    brDisabled,    \* _disabled
    brRan,         \* the plugins whose data the last round has
    brSkipped      \* the last wake-up collected nothing

brVars == <<brCycle, brDisabled, brRan, brSkipped>>

BrInit == brCycle = 0 /\ brDisabled = {} /\ brRan = {} /\ brSkipped = TRUE

Enabled == (1..BrPlugins) \ brDisabled

(* The enabled plugins in their order: the one with this many before it *)
Nth(k) == CHOOSE p \in Enabled : Cardinality({q \in Enabled : q < p}) = k

(* Mutant of Rotated: every round starts at the same plugin. *)
InOrder(start, k) == Nth(k)

Rotated(start, k) == Nth((start + k) % Cardinality(Enabled))

(* A collection takes as many plugins as its budget allows, at least one if
   there is one; those that do not answer in time are disabled and their data
   left out.                                                               *)
CollectTier(cycle, ran) ==
    LET n == Cardinality(Enabled)
    IN \E many \in (IF n = 0 THEN {0} ELSE 1..n) :
         LET took == {Rotated(cycle % n, k) : k \in 0..(many - 1)}
         IN \E hung \in SUBSET took : ran = took \ hung /\ brDisabled' = brDisabled \cup hung

(* The loop wakes up and counts the cycle: it collects, or does not (nobody
   is connected and the heartbeat is not due, or a collection is running). *)
WakesUp ==
    /\ brCycle' = (brCycle + 1) % 6
    /\ \/ brSkipped' = TRUE /\ UNCHANGED <<brDisabled, brRan>>
       \/ brSkipped' = FALSE /\ CollectTier(brCycle', brRan')

(* A client's snapshot is collected as of cycle 0, beside the rounds. *)
SnapshotTier == (\E ran \in SUBSET Enabled : CollectTier(0, ran)) /\ UNCHANGED <<brCycle, brRan, brSkipped>>

BrNext == WakesUp \/ SnapshotTier

BrTypeOK == brCycle \in 0..5 /\ brDisabled \cup brRan \subseteq 1..BrPlugins /\ brSkipped \in BOOLEAN

(* "so a tight budget doesn't permanently starve the same plugins": as long as
   every wake-up collects, which it does while a client is connected and the
   collections keep up, every plugin is collected again and again, or it hung
   and is disabled.                                                        *)
NobodyStarves ==
    <>[]~brSkipped => \A p \in 1..BrPlugins : []<>(p \in brRan \cup brDisabled)

-----------------------------------------------------------------------------
(* api_cache *)

AcActors == AcRequests \cup {"refresh"}

VARIABLES
    acSrc,         \* the version of what the endpoint reads
    acEntry,       \* the cached response: its version and age (fresh, stale, old)
    acLock,        \* the holder of the cache's lock
    acActor        \* a request or the refresh task: its state and what its handler has read

acVars == <<acSrc, acEntry, acLock, acActor>>

AcIdle == [pc |-> "idle", read |-> 0]

AcInit ==
    /\ acSrc = 1 /\ acEntry = [ver |-> 0, age |-> "old"] /\ acLock = "none"
    /\ acActor = [a \in AcActors |-> AcIdle]

AcChanges == acSrc < AcVersions /\ acSrc' = acSrc + 1 /\ UNCHANGED <<acEntry, acLock, acActor>>

AcAges ==
    /\ acEntry.age # "old" /\ acEntry' = [acEntry EXCEPT !.age = IF @ = "fresh" THEN "stale" ELSE "old"]
    /\ UNCHANGED <<acSrc, acLock, acActor>>

(* A request: answered from a fresh entry; from a stale one, with a refresh
   started unless one is under way; or it queues for the lock.             *)
AcRequest(r) ==
    /\ acActor[r].pc = "idle"
    /\ CASE acEntry.age = "fresh" -> UNCHANGED acActor
         [] acEntry.age = "stale" ->
              acActor' = IF acActor["refresh"].pc = "idle" THEN [acActor EXCEPT !["refresh"].pc = "queue"] ELSE acActor
         [] OTHER -> acActor' = [acActor EXCEPT ![r].pc = "queue"]
    /\ acActor' # acActor /\ UNCHANGED <<acSrc, acEntry, acLock>>

(* Mutant of AcEnters: the refresh does not take the lock. *)
AcEntersUnlocked(a) ==
    /\ acActor[a].pc = "queue" /\ (acLock = "none" \/ a = "refresh")
    /\ IF acEntry.age = "fresh" THEN acActor' = [acActor EXCEPT ![a] = AcIdle] /\ UNCHANGED acLock
       ELSE /\ acLock' = IF a = "refresh" THEN acLock ELSE a
            /\ acActor' = [acActor EXCEPT ![a].pc = "run"]
    /\ UNCHANGED <<acSrc, acEntry>>

(* The lock is taken; who waited meanwhile may find the entry fresh. *)
AcEnters(a) ==
    /\ acActor[a].pc = "queue" /\ acLock = "none"
    /\ IF acEntry.age = "fresh" THEN acActor' = [acActor EXCEPT ![a] = AcIdle] /\ UNCHANGED acLock
       ELSE acLock' = a /\ acActor' = [acActor EXCEPT ![a].pc = "run"]
    /\ UNCHANGED <<acSrc, acEntry>>

AcHandlerReads(a) ==
    /\ acActor[a].pc = "run" /\ acActor' = [acActor EXCEPT ![a] = [pc |-> "put", read |-> acSrc]]
    /\ UNCHANGED <<acSrc, acEntry, acLock>>

(* The response is cached if it is cacheable; an error of a refresh is
   swallowed, and either way the lock is free.                             *)
AcPuts(a) ==
    /\ acActor[a].pc = "put"
    /\ acEntry' \in {acEntry, [ver |-> acActor[a].read, age |-> "fresh"]}
    /\ acActor' = [acActor EXCEPT ![a] = AcIdle]
    /\ acLock' = IF acLock = a THEN "none" ELSE acLock
    /\ UNCHANGED acSrc

AcNext ==
    \/ AcChanges \/ AcAges \/ \E r \in AcRequests : AcRequest(r)
    \/ \E a \in AcActors : AcEnters(a) \/ AcHandlerReads(a) \/ AcPuts(a)

AcTypeOK ==
    /\ acSrc \in 1..AcVersions /\ acEntry.ver \in 0..AcVersions
    /\ acEntry.age \in {"fresh", "stale", "old"} /\ acLock \in AcActors \cup {"none"}
    /\ \A a \in AcActors : acActor[a].pc \in {"idle", "queue", "run", "put"}

(* A response is not replaced by one that was computed from older data: the
   requests and the refresh of an endpoint run their handlers one at a time. *)
CacheGoesForward == [][acEntry'.ver >= acEntry.ver]_acVars
=============================================================================
