-------------------------- MODULE DashboardServer --------------------------
(* The dashboard's process side (web_dashboard/plugin.py): bringing the server
   up and down with its readiness marker, keeping its TLS material valid,
   restarting the services on request (api.py), and the cache of map tiles the
   proxy and the prefetch share (tile_prefetch.py, server.py).               *)
EXTENDS Integers, Sequences, FiniteSets, SequencesExt

CONSTANTS
    TlVersions,    \* bound: certificates there can be
    RsRequests,    \* restart requests
    TcFetchers,    \* requests of the tile proxy, and the prefetch
    TcTiles,       \* tiles
    TcMax          \* _tile_max_bytes, in tiles

-----------------------------------------------------------------------------
(* The server thread, and the thread that starts and stops the plugin *)

VARIABLES
    wdStarter,     \* where start() or stop() is
    wdServer,      \* where the server thread is
    wdMarker,      \* the marker "dashboard-ready"
    wdListening,   \* the site accepts connections
    wdReady,       \* _server_ready
    wdError,       \* _server_error
    wdStop,        \* loop.stop() is queued on the loop
    wdShutdown,    \* _shutdown(): not asked for, queued, or done
    wdLate         \* a wait of start() or stop() has ended in its timeout

wdVars == <<wdStarter, wdServer, wdMarker, wdListening, wdReady, wdError, wdStop, wdShutdown, wdLate>>

WdInit ==
    /\ wdStarter = "idle" /\ wdServer = "none" /\ wdMarker = FALSE /\ wdListening = FALSE
    /\ wdReady = FALSE /\ wdError = FALSE /\ wdStop = FALSE /\ wdShutdown = "no" /\ wdLate = FALSE

WdStart ==
    /\ wdStarter = "idle" /\ wdStarter' = "wait" /\ wdServer' = "thread" /\ wdMarker' = FALSE
    /\ UNCHANGED <<wdListening, wdReady, wdError, wdStop, wdShutdown, wdLate>>

(* The loop first, then the runner, then the site. *)
LoopMade ==
    /\ wdServer = "thread" /\ wdServer' = "loop"
    /\ UNCHANGED <<wdStarter, wdMarker, wdListening, wdReady, wdError, wdStop, wdShutdown, wdLate>>

RunnerMade ==
    /\ wdServer = "loop" /\ ~wdStop /\ wdServer' = "runner"
    /\ UNCHANGED <<wdStarter, wdMarker, wdListening, wdReady, wdError, wdStop, wdShutdown, wdLate>>

(* Mutant of SiteStarts: the marker is published with the bind still to come. *)
SiteStartsPublished ==
    /\ wdServer = "runner" /\ wdServer' = "site" /\ wdMarker' = TRUE
    /\ UNCHANGED <<wdStarter, wdListening, wdReady, wdError, wdStop, wdShutdown, wdLate>>

SiteStarts ==
    /\ wdServer = "runner" /\ ~wdStop /\ wdServer' = "site" /\ wdListening' = TRUE
    /\ UNCHANGED <<wdStarter, wdMarker, wdReady, wdError, wdStop, wdShutdown, wdLate>>

(* The last part of _start_server is one step of the loop: a stop that was
   queued meanwhile is spent by run_until_complete, which ends anyway, and
   run_forever begins without it.                                          *)
Publishes ==
    /\ wdServer = "site" /\ wdServer' = "up" /\ wdMarker' = TRUE /\ wdReady' = TRUE /\ wdStop' = FALSE
    /\ UNCHANGED <<wdStarter, wdListening, wdError, wdShutdown, wdLate>>

(* The bind fails, or something after it. *)
ServerFails ==
    /\ wdServer \in {"loop", "runner", "site"} /\ wdServer' = "ending" /\ wdListening' = FALSE
    /\ wdError' = TRUE /\ wdReady' = TRUE /\ wdMarker' = FALSE
    /\ UNCHANGED <<wdStarter, wdStop, wdShutdown, wdLate>>

(* The loop stops, whatever it had to do. *)
LoopStops ==
    /\ wdStop /\ wdServer \in {"loop", "runner", "site", "up"}
    /\ wdServer' = "ending" /\ wdStop' = FALSE /\ wdListening' = FALSE
    /\ IF wdServer = "up" THEN UNCHANGED <<wdError, wdReady, wdMarker>>
       ELSE wdError' = TRUE /\ wdReady' = TRUE /\ wdMarker' = FALSE
    /\ UNCHANGED <<wdStarter, wdShutdown, wdLate>>

ServerEnds ==
    /\ wdServer = "ending" /\ wdServer' = "ended" /\ wdMarker' = FALSE
    /\ UNCHANGED <<wdStarter, wdListening, wdReady, wdError, wdStop, wdShutdown, wdLate>>

(* _shutdown, on the loop: the runner is cleaned up, and every other task of
   the loop cancelled, a start that is still under way among them.          *)
ShutdownRuns ==
    /\ wdShutdown = "queued" /\ wdServer \in {"runner", "site", "up"}
    /\ wdShutdown' = "done" /\ wdListening' = FALSE
    /\ wdServer' = IF wdServer = "up" THEN "up" ELSE "ending"
    /\ UNCHANGED <<wdStarter, wdMarker, wdReady, wdError, wdStop, wdLate>>

Started ==
    /\ wdStarter = "wait" /\ wdReady /\ wdStarter' = IF wdError THEN "clear" ELSE "running"
    /\ UNCHANGED <<wdServer, wdMarker, wdListening, wdReady, wdError, wdStop, wdShutdown, wdLate>>

StartTimesOut ==
    /\ wdStarter = "wait" /\ ~wdReady /\ wdStarter' = "clear" /\ wdLate' = TRUE
    /\ UNCHANGED <<wdServer, wdMarker, wdListening, wdReady, wdError, wdStop, wdShutdown>>

StopBegins ==
    /\ wdStarter = "running" /\ wdStarter' = "clear"
    /\ UNCHANGED <<wdServer, wdMarker, wdListening, wdReady, wdError, wdStop, wdShutdown, wdLate>>

(* Mutant of StopClears: the marker stays until the server has ended. *)
StopClearsNothing ==
    /\ wdStarter = "clear" /\ wdStarter' = "ask"
    /\ UNCHANGED <<wdServer, wdMarker, wdListening, wdReady, wdError, wdStop, wdShutdown, wdLate>>

StopClears ==
    /\ wdStarter = "clear" /\ wdStarter' = "ask" /\ wdMarker' = FALSE
    /\ UNCHANGED <<wdServer, wdListening, wdReady, wdError, wdStop, wdShutdown, wdLate>>

HasLoop == wdServer \notin {"none", "thread"}
HasRunner == HasLoop /\ wdServer # "loop"

(* The shutdown is queued on the loop and awaited; on a loop that is closed
   the call raises and the rest of stop() is left out.                     *)
StopAsks ==
    /\ wdStarter = "ask"
    /\ IF ~HasRunner THEN wdStarter' = "halt" /\ UNCHANGED wdShutdown
       ELSE IF wdServer = "ended" THEN wdStarter' = "raised" /\ UNCHANGED wdShutdown
       ELSE wdStarter' = "await" /\ wdShutdown' = "queued"
    /\ UNCHANGED <<wdServer, wdMarker, wdListening, wdReady, wdError, wdStop, wdLate>>

StopAwaited ==
    /\ wdStarter = "await" /\ wdStarter' = "halt"
    /\ wdLate' = (wdLate \/ wdShutdown # "done")
    /\ UNCHANGED <<wdServer, wdMarker, wdListening, wdReady, wdError, wdStop, wdShutdown>>

StopHalts ==
    /\ wdStarter = "halt"
    /\ IF wdServer = "ended" THEN wdStarter' = "raised" /\ UNCHANGED wdStop
       ELSE wdStarter' = "join" /\ wdStop' = HasLoop
    /\ UNCHANGED <<wdServer, wdMarker, wdListening, wdReady, wdError, wdShutdown, wdLate>>

StopJoins ==
    /\ wdStarter = "join" /\ wdStarter' = "stopped"
    /\ wdLate' = (wdLate \/ wdServer # "ended")
    /\ UNCHANGED <<wdServer, wdMarker, wdListening, wdReady, wdError, wdStop, wdShutdown>>

WdThread ==
    \/ LoopMade \/ RunnerMade \/ SiteStarts \/ Publishes \/ ServerFails \/ LoopStops
    \/ ServerEnds \/ ShutdownRuns
WdCaller ==
    \/ WdStart \/ Started \/ StartTimesOut \/ StopBegins \/ StopClears \/ StopAsks
    \/ StopAwaited \/ StopHalts \/ StopJoins
WdNext == WdThread \/ WdCaller

WdTypeOK ==
    /\ wdStarter \in {"idle", "wait", "running", "clear", "ask", "await", "halt", "join", "stopped", "raised"}
    /\ wdServer \in {"none", "thread", "loop", "runner", "site", "up", "ending", "ended"}
    /\ {wdMarker, wdListening, wdReady, wdError, wdStop, wdLate} \subseteq BOOLEAN
    /\ wdShutdown \in {"no", "queued", "done"}

(* The marker is there only while the dashboard accepts connections, and it is
   gone from the moment stop() has cleared it, unless a wait of start() or
   stop() has run out.                                                      *)
MarkerTruthful ==
    wdMarker /\ ~wdLate => wdListening /\ wdStarter \notin {"ask", "await", "halt", "join", "stopped"}

-----------------------------------------------------------------------------
(* TLS material: certificates are numbered, 0 is material that cannot be used.
   One is "fresh", within the 30 days before its end ("ending") or expired,
   and it covers the node's names or not.                                    *)

VARIABLES
    tlManaged,     \* _tls_managed: the dashboard owns the bundle
    tlAge,         \* of each certificate
    tlNamed,       \* the certificates that cover the names of today
    tlDisk,        \* the certificate in the files
    tlCtx,         \* the one the live context presents
    tlState,       \* _tls_state
    tlListener,    \* the site, and the runner with its accepted connections
    tlMarker,      \* the marker "dashboard-ready"
    tlMade,        \* certificates made so far
    tlChecked      \* nothing has changed since the last check

tlVars ==
    <<tlManaged, tlAge, tlNamed, tlDisk, tlCtx, tlState, tlListener, tlMarker, tlMade, tlChecked>>

TlInit ==
    /\ tlManaged \in BOOLEAN /\ tlAge = [v \in 1..TlVersions |-> "fresh"] /\ tlNamed = 1..TlVersions
    /\ tlDisk = 1 /\ tlCtx = 1 /\ tlState = "valid" /\ tlListener = "open" /\ tlMarker = TRUE /\ tlMade = 1
    /\ tlChecked = TRUE

Ages ==
    /\ \E v \in 1..tlMade : /\ tlAge[v] # "expired"
                            /\ tlAge' = [tlAge EXCEPT ![v] = IF @ = "fresh" THEN "ending" ELSE "expired"]
    /\ tlChecked' = FALSE
    /\ UNCHANGED <<tlManaged, tlNamed, tlDisk, tlCtx, tlState, tlListener, tlMarker, tlMade>>

(* The node moves to another network: no certificate so far has its names. *)
NamesChange ==
    /\ tlManaged /\ tlNamed' = tlNamed \ (1..tlMade)
    /\ tlChecked' = FALSE
    /\ UNCHANGED <<tlManaged, tlAge, tlDisk, tlCtx, tlState, tlListener, tlMarker, tlMade>>

FilesDamaged ==
    /\ tlDisk' = 0
    /\ tlChecked' = FALSE
    /\ UNCHANGED <<tlManaged, tlAge, tlNamed, tlCtx, tlState, tlListener, tlMarker, tlMade>>

(* The operator puts a new pair in its place, the dashboard still running. *)
OperatorReplaces ==
    /\ ~tlManaged /\ tlMade < TlVersions /\ tlMade' = tlMade + 1 /\ tlDisk' = tlMade'
    /\ tlChecked' = FALSE
    /\ UNCHANGED <<tlManaged, tlAge, tlNamed, tlCtx, tlState, tlListener, tlMarker>>

(* validate_cert_pair: readable, long enough, and for these names *)
Validates(v, ages) == v # 0 /\ tlAge[v] \in ages /\ v \in tlNamed

(* Mutant of CanCheck: a check that was due is made all the same. *)
CanCheckAlways == tlListener = "open"

CanCheck == tlListener = "open" /\ tlState # "failed_closed"

(* Mutant of OperatorCheck: the material is taken as it is. *)
OperatorCheckTrusts ==
    /\ CanCheck /\ ~tlManaged /\ tlState' = "valid"
    /\ tlChecked' = TRUE
    /\ UNCHANGED <<tlManaged, tlAge, tlNamed, tlDisk, tlCtx, tlListener, tlMarker, tlMade>>

(* The operator's files are only looked at: never replaced, nor loaded again. *)
OperatorCheck ==
    /\ CanCheck /\ ~tlManaged
    /\ IF Validates(tlDisk, {"fresh", "ending"}) THEN tlState' = "valid" /\ UNCHANGED tlMarker
       ELSE tlState' = "failed_closed" /\ tlMarker' = FALSE
    /\ tlChecked' = TRUE
    /\ UNCHANGED <<tlManaged, tlAge, tlNamed, tlDisk, tlCtx, tlListener, tlMade>>

ManagedCheck ==
    /\ CanCheck /\ tlManaged /\ Validates(tlDisk, {"fresh"}) /\ tlState' = "valid"
    /\ tlChecked' = TRUE
    /\ UNCHANGED <<tlManaged, tlAge, tlNamed, tlDisk, tlCtx, tlListener, tlMarker, tlMade>>

Renews == CanCheck /\ tlManaged /\ ~Validates(tlDisk, {"fresh"}) /\ tlMade < TlVersions

(* generate_self_signed_cert: the number of the bundle it would publish *)
Generated == tlMade + 1

(* A new certificate is published, proved in a context of its own and loaded. *)
RenewSucceeds ==
    /\ Renews /\ tlMade' = Generated /\ tlDisk' = Generated /\ tlCtx' = Generated /\ tlState' = "renewed"
    /\ tlChecked' = TRUE
    /\ UNCHANGED <<tlManaged, tlAge, tlNamed, tlListener, tlMarker>>

(* Mutant of RenewFails: the published bundle is left on the disk. *)
RenewFailsForward ==
    /\ Renews
    /\ tlMade' = tlMade + 1 /\ tlDisk' = tlMade' /\ UNCHANGED tlCtx
    /\ IF Validates(tlDisk, {"fresh", "ending"}) THEN tlState' = "degraded" /\ UNCHANGED tlMarker
       ELSE tlState' = "failed_closed" /\ tlMarker' = FALSE
    /\ tlChecked' = TRUE
    /\ UNCHANGED <<tlManaged, tlAge, tlNamed, tlListener>>

(* It fails before or after the publication, perhaps with the new material in
   the live context: what was on the disk is written back and loaded again,
   which may fail as well.  The listener goes on only with a bundle that is
   still valid, and restored.                                               *)
RenewFails ==
    /\ Renews
    /\ \E published, loaded, restored \in BOOLEAN :
         /\ loaded => published
         /\ tlMade' = IF published THEN Generated ELSE tlMade
         /\ tlDisk' = IF published /\ ~(restored /\ tlDisk # 0) THEN Generated ELSE tlDisk
         /\ tlCtx' = IF loaded /\ ~(restored /\ tlDisk # 0) THEN Generated
                     ELSE IF loaded THEN tlDisk ELSE tlCtx
         /\ IF restored /\ Validates(tlDisk, {"fresh", "ending"})
            THEN tlState' = "degraded" /\ UNCHANGED tlMarker
            ELSE tlState' = "failed_closed" /\ tlMarker' = FALSE
    /\ tlChecked' = TRUE
    /\ UNCHANGED <<tlManaged, tlAge, tlNamed, tlListener>>

(* Mutant of SiteStops: the accepted connections are left. *)
SiteStopsOnly ==
    /\ tlState = "failed_closed" /\ tlListener = "open" /\ tlListener' = "site_only"
    /\ UNCHANGED <<tlManaged, tlAge, tlNamed, tlDisk, tlCtx, tlState, tlMarker, tlMade, tlChecked>>

(* _fail_closed_tls_listener goes on after its state is set: the site, then
   the runner and with it the accepted connections.                        *)
SiteStops ==
    /\ tlState = "failed_closed" /\ tlListener = "open" /\ tlListener' = "accepted"
    /\ UNCHANGED <<tlManaged, tlAge, tlNamed, tlDisk, tlCtx, tlState, tlMarker, tlMade, tlChecked>>

RunnerStops ==
    /\ tlListener = "accepted" /\ tlListener' = "closed"
    /\ UNCHANGED <<tlManaged, tlAge, tlNamed, tlDisk, tlCtx, tlState, tlMarker, tlMade, tlChecked>>

TlCheck == OperatorCheck \/ ManagedCheck \/ RenewSucceeds \/ RenewFails
TlCloses == SiteStops \/ RunnerStops
TlNext == Ages \/ NamesChange \/ FilesDamaged \/ OperatorReplaces \/ TlCheck \/ TlCloses

TlTypeOK ==
    /\ {tlManaged, tlMarker, tlChecked} \subseteq BOOLEAN /\ tlMade \in 1..TlVersions
    /\ tlAge \in [1..TlVersions -> {"fresh", "ending", "expired"}]
    /\ tlDisk \in 0..tlMade /\ tlCtx \in 0..tlMade /\ tlNamed \subseteq 1..TlVersions
    /\ tlState \in {"valid", "renewed", "degraded", "failed_closed"}
    /\ tlListener \in {"open", "accepted", "closed"}

(* A check of a managed bundle leaves the dashboard closed, or presenting a
   certificate that has not expired and is the one on the disk: what the next
   start would load.                                                        *)
CheckedIsPresented ==
    tlChecked /\ tlManaged /\ tlState # "failed_closed" => tlAge[tlCtx] # "expired" /\ tlCtx = tlDisk

(* An operator's certificate that comes to its end fails closed ("a certificate
   inside the one-day validity guard fail closed").  The check looks at the
   files, and the live context may have been loaded from others.            *)
OperatorPresentsValid ==
    tlChecked /\ ~tlManaged /\ tlState # "failed_closed" => tlAge[tlCtx] # "expired"

(* Once it has failed closed the dashboard is never "ready" again in this
   process: no later check opens it, whatever the files are then.          *)
FailedStaysClosed ==
    [][tlState = "failed_closed" => tlState' = "failed_closed" /\ ~tlMarker']_tlVars

(* "the HTTPS listener stops", with the connections it had accepted *)
FailsClosed == tlState = "failed_closed" ~> tlListener = "closed"

-----------------------------------------------------------------------------
(* Restarting the services (api.handle_services_restart) *)

VARIABLES
    rsReq,         \* each request: its handler, then its task
    rsState,       \* the state of its operation, "none" before it is accepted
    rsHot,         \* the cooldown is running
    rsCalls,       \* requests the broker is working on: the thread of one survives its task
    rsDown         \* the dashboard's tasks have been cancelled

rsVars == <<rsReq, rsState, rsHot, rsCalls, rsDown>>

RsInit ==
    /\ rsReq = [r \in RsRequests |-> "idle"] /\ rsState = [r \in RsRequests |-> "none"]
    /\ rsHot = FALSE /\ rsCalls = {} /\ rsDown = FALSE

(* The password is checked in the pool of the authentication. *)
Asks(r) ==
    /\ rsReq[r] = "idle" /\ ~rsDown /\ rsReq' = [rsReq EXCEPT ![r] = "confirm"]
    /\ UNCHANGED <<rsState, rsHot, rsCalls, rsDown>>

(* Mutant of Confirmed: the cooldown was looked at before the password. *)
ConfirmedBefore(r) ==
    /\ rsReq[r] = "confirm" /\ ~rsDown
    /\ rsHot' = TRUE /\ rsReq' = [rsReq EXCEPT ![r] = "sleep"]
    /\ rsState' = [rsState EXCEPT ![r] = "accepted"]
    /\ UNCHANGED <<rsCalls, rsDown>>

(* A refused request ends; the cooldown begins with the one that is accepted. *)
Confirmed(r) ==
    /\ rsReq[r] = "confirm" /\ ~rsDown
    /\ \/ rsReq' = [rsReq EXCEPT ![r] = "end"] /\ UNCHANGED <<rsState, rsHot>>
       \/ /\ ~rsHot /\ rsHot' = TRUE /\ rsReq' = [rsReq EXCEPT ![r] = "sleep"]
          /\ rsState' = [rsState EXCEPT ![r] = "accepted"]
    /\ UNCHANGED <<rsCalls, rsDown>>

Requests(r) ==
    /\ rsReq[r] = "sleep" /\ rsReq' = [rsReq EXCEPT ![r] = "call"] /\ rsCalls' = rsCalls \cup {r}
    /\ rsState' = [rsState EXCEPT ![r] = "requesting_control_broker"]
    /\ UNCHANGED <<rsHot, rsDown>>

(* Mutant of BrokerAnswers: the answer is noted whoever has cancelled. *)
BrokerAnswersLate(r) ==
    /\ r \in rsCalls /\ rsCalls' = rsCalls \ {r} /\ rsReq' = [rsReq EXCEPT ![r] = "end"]
    /\ \E s \in {"scheduled", "failed"} : rsState' = [rsState EXCEPT ![r] = s]
    /\ UNCHANGED <<rsHot, rsDown>>

BrokerAnswers(r) ==
    /\ r \in rsCalls /\ rsCalls' = rsCalls \ {r}
    /\ IF rsReq[r] = "call"
       THEN /\ rsReq' = [rsReq EXCEPT ![r] = "end"]
            /\ \E s \in {"scheduled", "failed"} : rsState' = [rsState EXCEPT ![r] = s]
       ELSE UNCHANGED <<rsReq, rsState>>
    /\ UNCHANGED <<rsHot, rsDown>>

(* The two seconds before the call are within the cooldown; the call may not be. *)
CoolsDown ==
    /\ rsHot /\ \A r \in RsRequests : rsReq[r] # "sleep"
    /\ rsHot' = FALSE /\ UNCHANGED <<rsReq, rsState, rsCalls, rsDown>>

TasksCancelled ==
    /\ ~rsDown /\ rsDown' = TRUE
    /\ LET busy == {r \in RsRequests : rsReq[r] \in {"sleep", "call"}}
       IN /\ rsReq' = [r \in RsRequests |-> IF rsReq[r] = "idle" THEN "idle" ELSE "end"]
          /\ rsState' = [r \in RsRequests |-> IF r \in busy THEN "cancelled" ELSE rsState[r]]
    /\ UNCHANGED <<rsHot, rsCalls>>

RsNext ==
    \/ CoolsDown \/ TasksCancelled
    \/ \E r \in RsRequests : Asks(r) \/ Confirmed(r) \/ Requests(r) \/ BrokerAnswers(r)

RsTypeOK ==
    /\ rsReq \in [RsRequests -> {"idle", "confirm", "sleep", "call", "end"}]
    /\ rsState \in [RsRequests -> {"none", "accepted", "requesting_control_broker",
                                   "scheduled", "failed", "cancelled"}]
    /\ rsCalls \subseteq RsRequests /\ {rsHot, rsDown} \subseteq BOOLEAN

(* Of requests whose passwords are checked at the same time one is accepted. *)
OneRestartAccepted == Cardinality({r \in RsRequests : rsReq[r] = "sleep"}) <= 1

(* An operation the shutdown has cancelled stays so, whatever the broker says. *)
CancelledIsFinal == [][\A r \in RsRequests : rsState[r] = "cancelled" => rsState'[r] = "cancelled"]_rsVars

-----------------------------------------------------------------------------
(* The tile cache: one fetch of a tile at a time, by a lock that is registered
   as long as somebody uses it, and files within a budget                    *)

VARIABLES
    tcFetch,       \* each fetcher: its state and its tile
    tcUsers,       \* _tile_locks: who uses the registered lock of a tile
    tcHolder,      \* who holds it
    tcFiles        \* the cached tiles, the oldest first

tcVars == <<tcFetch, tcUsers, tcHolder, tcFiles>>
TcIdle == [pc |-> "idle", tile |-> "none"]

TcInit ==
    /\ tcFetch = [f \in TcFetchers |-> TcIdle] /\ tcUsers = [t \in TcTiles |-> {}]
    /\ tcHolder = [t \in TcTiles |-> "none"] /\ tcFiles = <<>>

InCache(t) == \E i \in 1..Len(tcFiles) : tcFiles[i] = t

(* A tile that is not on the disk is asked for under its lock. *)
TileAsked(f) ==
    /\ tcFetch[f].pc = "idle"
    /\ \E t \in TcTiles :
         /\ ~InCache(t) /\ tcUsers' = [tcUsers EXCEPT ![t] = @ \cup {f}]
         /\ tcFetch' = [tcFetch EXCEPT ![f] = [pc |-> "wait", tile |-> t]]
    /\ UNCHANGED <<tcHolder, tcFiles>>

LockFree(f) == tcHolder[tcFetch[f].tile] = "none"

(* Mutant of LockTaken: the file is not looked for again. *)
LockTakenBlindly(f) ==
    /\ tcFetch[f].pc = "wait" /\ LockFree(f)
    /\ tcHolder' = [tcHolder EXCEPT ![tcFetch[f].tile] = f]
    /\ tcFetch' = [tcFetch EXCEPT ![f].pc = "fetch"] /\ UNCHANGED <<tcUsers, tcFiles>>

LockTaken(f) ==
    /\ tcFetch[f].pc = "wait" /\ LockFree(f)
    /\ tcHolder' = [tcHolder EXCEPT ![tcFetch[f].tile] = f]
    /\ tcFetch' = [tcFetch EXCEPT ![f].pc = IF InCache(tcFetch[f].tile) THEN "done" ELSE "fetch"]
    /\ UNCHANGED <<tcUsers, tcFiles>>

(* What is left after the oldest files have gone, those that could be removed *)
RECURSIVE Evicted(_, _, _)
Evicted(files, kept, incoming) ==
    IF Len(files) + incoming <= TcMax \/ \A i \in 1..Len(files) : files[i] \in kept THEN files
    ELSE Evicted(RemoveAt(files, CHOOSE i \in 1..Len(files) :
                   files[i] \notin kept /\ \A j \in 1..(i - 1) : files[j] \in kept), kept, incoming)

(* Mutant of TileStored: the room for the tile itself is forgotten. *)
TileStoredOver(f) ==
    /\ tcFetch[f].pc = "fetch" /\ tcFetch' = [tcFetch EXCEPT ![f].pc = "done"]
    /\ tcFiles' = Append(Evicted(tcFiles, {}, 0), tcFetch[f].tile)
    /\ UNCHANGED <<tcUsers, tcHolder>>

(* store_tile, under the cache's lock without an await: what cannot be removed
   stays, and the tile is written only if there is room for it.             *)
TileStored(f) ==
    /\ tcFetch[f].pc = "fetch" /\ tcFetch' = [tcFetch EXCEPT ![f].pc = "done"]
    /\ \E kept \in SUBSET TcTiles, written \in BOOLEAN :
         LET left == Evicted(tcFiles, kept, 1)
         IN tcFiles' = IF written /\ Len(left) < TcMax THEN Append(left, tcFetch[f].tile) ELSE left
    /\ UNCHANGED <<tcUsers, tcHolder>>

FetchFails(f) ==
    /\ tcFetch[f].pc = "fetch" /\ tcFetch' = [tcFetch EXCEPT ![f].pc = "done"]
    /\ UNCHANGED <<tcUsers, tcHolder, tcFiles>>

(* Mutant of LeaseEnds: the lock is dropped by the first that has done with it. *)
LeaseEndsForAll(f) ==
    LET t == tcFetch[f].tile
    IN /\ tcFetch[f].pc \in {"done", "wait"} /\ tcFetch' = [tcFetch EXCEPT ![f] = TcIdle]
       /\ tcUsers' = [tcUsers EXCEPT ![t] = {}]
       /\ tcHolder' = [tcHolder EXCEPT ![t] = "none"] /\ UNCHANGED tcFiles

(* The holder is done, or one that waits is cancelled. *)
LeaseEnds(f) ==
    LET t == tcFetch[f].tile
    IN /\ tcFetch[f].pc \in {"done", "wait"} /\ tcFetch' = [tcFetch EXCEPT ![f] = TcIdle]
       /\ tcUsers' = [tcUsers EXCEPT ![t] = @ \ {f}]
       /\ tcHolder' = [tcHolder EXCEPT ![t] = IF @ = f THEN "none" ELSE @] /\ UNCHANGED tcFiles

TcNext ==
    \E f \in TcFetchers :
       TileAsked(f) \/ LockTaken(f) \/ TileStored(f) \/ FetchFails(f) \/ LeaseEnds(f)

TcTypeOK ==
    /\ \A f \in TcFetchers : tcFetch[f].pc \in {"idle", "wait", "fetch", "done"}
    /\ tcUsers \in [TcTiles -> SUBSET TcFetchers]

(* The proxy and the prefetch never store the same tile twice. *)
TilesStoredOnce == \A i, j \in 1..Len(tcFiles) : tcFiles[i] = tcFiles[j] => i = j

(* The files stay within the budget, whatever could not be removed. *)
TilesWithinBudget == Len(tcFiles) <= TcMax

(* The dashboard's server: the readiness marker tells the truth, a checked certificate
   is the one presented, a failed site stays closed, one restart is accepted, a
   cancelled request stays cancelled, and tiles are stored once and within budget. *)
DashboardTruthful ==
    /\ [](/\ WdTypeOK
          /\ TlTypeOK
          /\ RsTypeOK
          /\ TcTypeOK
          /\ MarkerTruthful
          /\ CheckedIsPresented
          /\ OneRestartAccepted
          /\ TilesStoredOnce
          /\ TilesWithinBudget)
    /\ FailedStaysClosed
    /\ CancelledIsFinal
=============================================================================
