-------------------------- MODULE MeshCoreObserver --------------------------
(***************************************************************************)
(* The MeshCore observer (builtin_plugins/meshcore_observer.py).  It reads *)
(* what the radio hears and publishes it to a broker.                      *)
(*                                                                         *)
(* Its own device, if it has one, is run by the gateway's code once more,  *)
(* so MeshCoreLink's actions are that part's.  In shared mode it borrows   *)
(* the gateway's client (ob...): the watcher and the event bus attach and  *)
(* detach, a worker unsubscribes, and a subscription is named by its       *)
(* client and generation.  The broker's side (om...) has the connection    *)
(* loop, paho's thread and stop().                                         *)
(***************************************************************************)
EXTENDS MeshCoreLink

CONSTANTS
    ObClients,     \* bound on the clients the gateway opens
    ObGens,        \* bound on the attachments
    OmClients,     \* bound on the broker clients that are made
    OmLosses,      \* bound on the connections the broker drops
    OmExpiries     \* bound on the tokens that age while they are watched

ASSUME MeshCoreObserverAssumption == {ObClients, ObGens, OmClients, OmLosses, OmExpiries} \subseteq Nat

(* The observer's own device: the gateway's connection loop, open, setup,
   health check, teardown and stop, line by line.                          *)
StandaloneLoop == OwnerTop \/ CheckHealth
StandaloneLease == ClaimsPort
StandaloneOpen == BeginGeneration \/ TrackOpen \/ OpenEnded \/ OpenTimesOutAt \/ McLoopStep
StandaloneSetup == Setup \/ Commit \/ OnDisconnect
StandaloneDisconnect == \/ \E who \in {"owner", "stop"} : DiscBegins(who) \/ DiscEnds(who)
                        \/ TearEnds
StandaloneStop == McStops \/ StopsLoop \/ ReleasesPort

StandaloneNext == StandaloneLoop \/ StandaloneLease \/ StandaloneOpen \/ StandaloneSetup
                  \/ StandaloneDisconnect \/ StandaloneStop

-----------------------------------------------------------------------------
(* Shared mode *)

ObThreads == {"watcher", "bus", "stop"}

VARIABLES
    obActive,      \* _active
    obGen,         \* _connection_generation
    obOn,          \* _connected_device
    obMc,          \* _mc, 0 when there is none
    obSubs,        \* _subscriptions
    obTear,        \* _teardown_attempt
    obLock,        \* the holder of _disconnect_lock
    obThread,      \* what a thread does: attaching, with its client, or detaching
    obTable,       \* the subscriptions that are in the gateway's clients
    obGw,          \* the gateway's client, 0 when it is not connected
    obEvents       \* the gateway's events that the bus has not delivered

obVars == <<obActive, obGen, obOn, obMc, obSubs, obTear, obLock, obThread, obTable, obGw, obEvents>>

ObIdle == [pc |-> "idle", gen |-> 0, mc |-> 0, attaching |-> FALSE]
ObNoTear == [mc |-> 0, subs |-> {}]

ObInit ==
    /\ obActive = TRUE /\ obGen = 0 /\ obOn = FALSE /\ obMc = 0 /\ obSubs = {}
    /\ obTear = ObNoTear /\ obLock = "none" /\ obThread = [t \in ObThreads |-> ObIdle]
    /\ obTable = {} /\ obGw = 0 /\ obEvents = {}

ObTo(t, pc) == obThread' = [obThread EXCEPT ![t].pc = pc]

(* The thread is through; an attachment in progress ends with it. *)
ObReturns(t) == obThread' = [obThread EXCEPT ![t] = [ObIdle EXCEPT !.pc = IF t = "stop" THEN "done" ELSE "idle"]]

ObAttaching == \E t \in ObThreads : obThread[t].attaching
Sub(t) == [client |-> obThread[t].mc, gen |-> obThread[t].gen]
ObIsMine(t) == obActive /\ obGen = obThread[t].gen /\ obMc = obThread[t].mc

(* The gateway connects, announces that it stops, disconnects. *)
GatewayMoves ==
    /\ \/ /\ obGw = 0 /\ \E c \in 1..ObClients : obGw' = c /\ \A s \in obTable : s.client < c
          /\ obEvents' = obEvents \cup {"connected"} /\ UNCHANGED obTable
       \/ obGw # 0 /\ obEvents' = obEvents \cup {"stopping"} /\ UNCHANGED <<obGw, obTable>>
       \/ /\ obGw # 0 /\ obGw' = 0 /\ obEvents' = obEvents \cup {"disconnected"}
          /\ obTable' = {s \in obTable : s.client # obGw}
    /\ UNCHANGED <<obActive, obGen, obOn, obMc, obSubs, obTear, obLock, obThread>>

(* Mutant of AttachBegins: a new attachment keeps the generation. *)
AttachBeginsUnfenced(t) ==
    /\ obThread[t].pc = "idle" /\ obActive /\ ~obOn /\ ~ObAttaching /\ obMc = 0 /\ obTear = ObNoTear
    /\ t = "watcher" \/ "connected" \in obEvents
    /\ obEvents' = IF t = "bus" THEN obEvents \ {"connected"} ELSE obEvents
    /\ obThread' = [obThread EXCEPT ![t] = [pc |-> "borrow", gen |-> obGen, mc |-> 0, attaching |-> TRUE]]
    /\ UNCHANGED <<obActive, obGen, obOn, obMc, obSubs, obTear, obLock, obTable, obGw>>

(* _try_attach_to_gateway, by the watcher or for an event *)
AttachBegins(t) ==
    /\ obThread[t].pc = "idle" /\ obActive /\ ~obOn /\ ~ObAttaching /\ obMc = 0 /\ obTear = ObNoTear
    /\ t = "watcher" \/ "connected" \in obEvents
    /\ obGen < ObGens /\ obGen' = obGen + 1
    /\ obEvents' = IF t = "bus" THEN obEvents \ {"connected"} ELSE obEvents
    /\ obThread' = [obThread EXCEPT ![t] = [pc |-> "borrow", gen |-> obGen + 1, mc |-> 0, attaching |-> TRUE]]
    /\ UNCHANGED <<obActive, obOn, obMc, obSubs, obTear, obLock, obTable, obGw>>

(* The event finds the observer attached, attaching or stopped. *)
IgnoresEvent ==
    /\ obThread["bus"].pc = "idle"
    /\ \/ /\ "connected" \in obEvents /\ obEvents' = obEvents \ {"connected"}
          /\ ~obActive \/ obOn \/ ObAttaching \/ obMc # 0 \/ obTear # ObNoTear
       \/ (obMc = 0 \/ ~obActive) /\ obEvents' = obEvents \cap {"connected"} /\ obEvents' # obEvents
    /\ UNCHANGED <<obActive, obGen, obOn, obMc, obSubs, obTear, obLock, obThread, obTable, obGw>>

(* The gateway's client, if it is ready and connected *)
BorrowsClient(t) ==
    /\ obThread[t].pc = "borrow"
    /\ IF obGw = 0 THEN ObReturns(t)
       ELSE obThread' = [obThread EXCEPT ![t].pc = "publish", ![t].mc = obGw]
    /\ UNCHANGED <<obActive, obGen, obOn, obMc, obSubs, obTear, obLock, obTable, obGw, obEvents>>

PublishesBorrowed(t) ==
    /\ obThread[t].pc = "publish"
    /\ IF obActive /\ obGen = obThread[t].gen /\ obMc = 0
       THEN obMc' = obThread[t].mc /\ obOn' = FALSE /\ obSubs' = {} /\ ObTo(t, "subscribe")
       ELSE ObReturns(t) /\ UNCHANGED <<obMc, obOn, obSubs>>
    /\ UNCHANGED <<obActive, obGen, obTear, obLock, obTable, obGw, obEvents>>

(* The SDK adds the subscription, or raises. *)
Subscribes(t) ==
    /\ obThread[t].pc = "subscribe"
    /\ \/ ObTo(t, "register") /\ obTable' = IF obGw = obThread[t].mc THEN obTable \cup {Sub(t)} ELSE obTable
       \/ ObTo(t, "detach") /\ UNCHANGED obTable
    /\ UNCHANGED <<obActive, obGen, obOn, obMc, obSubs, obTear, obLock, obGw, obEvents>>

(* A subscription that comes after a detachment is kept for its removal. *)
RegistersSub(t) ==
    /\ obThread[t].pc = "register"
    /\ CASE obMc = obThread[t].mc -> obSubs' = obSubs \cup {Sub(t)} /\ UNCHANGED obMc
         [] obMc = 0 -> obMc' = obThread[t].mc /\ obSubs' = {Sub(t)}
         [] OTHER -> UNCHANGED <<obMc, obSubs>>
    /\ ObTo(t, IF ObIsMine(t) THEN "probe" ELSE "detach")
    /\ UNCHANGED <<obActive, obGen, obOn, obTear, obLock, obTable, obGw, obEvents>>

(* Signing is probed; the gateway may have reconnected meanwhile. *)
ProbesSigning(t) ==
    /\ obThread[t].pc = "probe" /\ ObTo(t, IF obGw = obThread[t].mc THEN "commit" ELSE "detach")
    /\ UNCHANGED <<obActive, obGen, obOn, obMc, obSubs, obTear, obLock, obTable, obGw, obEvents>>

(* Mutant of CommitsAttach: the check before the probe was enough. *)
CommitsAnyway(t) ==
    /\ obThread[t].pc = "commit" /\ obOn' = TRUE /\ ObReturns(t)
    /\ UNCHANGED <<obActive, obGen, obMc, obSubs, obTear, obLock, obTable, obGw, obEvents>>

CommitsAttach(t) ==
    /\ obThread[t].pc = "commit"
    /\ IF ObIsMine(t) THEN obOn' = TRUE /\ ObReturns(t)
       ELSE ObTo(t, "detach") /\ UNCHANGED obOn
    /\ UNCHANGED <<obActive, obGen, obMc, obSubs, obTear, obLock, obTable, obGw, obEvents>>

(* _gateway_watcher_loop, _on_gateway_disconnected, _on_plugin_stopping *)
DetachWanted(t) ==
    /\ obThread[t].pc = "idle" /\ obActive
    /\ CASE t = "watcher" -> ~obOn /\ (obMc # 0 \/ obTear # ObNoTear) /\ UNCHANGED obEvents
         [] t = "bus" -> /\ obMc # 0 /\ \E e \in obEvents \ {"connected"} : obEvents' = obEvents \ {e}
         [] OTHER -> FALSE
    /\ ObTo(t, "detach")
    /\ UNCHANGED <<obActive, obGen, obOn, obMc, obSubs, obTear, obLock, obTable, obGw>>

(* _detach_from_gateway, its first lock: what is in flight becomes stale.  A
   generation nobody holds is not counted again, which nobody can tell.    *)
OmInvalidates(t) ==
    /\ obThread[t].pc = "detach" /\ obLock = "none" /\ obLock' = t /\ obOn' = FALSE
    /\ obGen' = IF obOn \/ \E u \in ObThreads : obThread[u].gen = obGen THEN obGen + 1 ELSE obGen
    /\ ObTo(t, "snapshot")
    /\ UNCHANGED <<obActive, obMc, obSubs, obTear, obTable, obGw, obEvents>>

(* its second lock: the client and its subscriptions go to a worker, unless
   there is none or one is at it                                           *)
Snapshots(t) ==
    /\ obThread[t].pc = "snapshot" /\ obOn' = FALSE
    /\ IF obMc = 0 THEN obLock' = "none" /\ ObReturns(t) /\ UNCHANGED obTear
       ELSE /\ obTear' = IF obTear.mc = obMc THEN obTear ELSE [mc |-> obMc, subs |-> obSubs]
            /\ ObTo(t, "wait") /\ UNCHANGED obLock
    /\ UNCHANGED <<obActive, obGen, obMc, obSubs, obTable, obGw, obEvents>>

(* _unsubscribe_shared: an unsubscription that fails keeps the candidate. *)
UnsubscribesShared ==
    /\ obTear # ObNoTear /\ obTear' = ObNoTear
    /\ \E gone \in {obTear.subs, {}} :
         /\ obTable' = obTable \ gone
         /\ IF gone = obTear.subs /\ obMc = obTear.mc THEN obMc' = 0 /\ obSubs' = {}
            ELSE UNCHANGED <<obMc, obSubs>>
    /\ UNCHANGED <<obActive, obGen, obOn, obLock, obThread, obGw, obEvents>>

(* The worker is through or its time is over. *)
DetachReturns(t) ==
    /\ obThread[t].pc = "wait" /\ obLock' = "none" /\ ObReturns(t)
    /\ UNCHANGED <<obActive, obGen, obOn, obMc, obSubs, obTear, obTable, obGw, obEvents>>

ObStops ==
    /\ obThread["stop"].pc = "idle" /\ obActive' = FALSE /\ obEvents' = {} /\ ObTo("stop", "detach")
    /\ UNCHANGED <<obGen, obOn, obMc, obSubs, obTear, obLock, obTable, obGw>>

ObThreadStep(t) ==
    \/ BorrowsClient(t) \/ PublishesBorrowed(t) \/ Subscribes(t) \/ RegistersSub(t)
    \/ ProbesSigning(t) \/ CommitsAttach(t) \/ OmInvalidates(t) \/ Snapshots(t) \/ DetachReturns(t)

ObNext ==
    \/ GatewayMoves \/ IgnoresEvent \/ UnsubscribesShared \/ ObStops
    \/ \E t \in ObThreads \ {"stop"} : AttachBegins(t) \/ DetachWanted(t)
    \/ \E t \in ObThreads : ObThreadStep(t)

ObSpec == ObInit /\ [][ObNext]_obVars

ObTypeOK ==
    /\ {obActive, obOn} \subseteq BOOLEAN /\ obGen \in Nat
    /\ {obMc, obGw} \subseteq 0..ObClients
    /\ obSubs \cup obTable \subseteq [client : 1..ObClients, gen : 1..ObGens]
    /\ obLock \in ObThreads \cup {"none"}
    /\ obEvents \subseteq {"connected", "stopping", "disconnected"}

(* The callbacks a packet would pass: they ask for the client and generation
   that are current and connected.                                         *)
Listening == {s \in obTable : obActive /\ obOn /\ s.gen = obGen /\ s.client = obMc}

(* One packet is captured once, however many subscriptions an interrupted
   attachment has left in the gateway's client, and never by an attachment
   that was overtaken: once its detachment or stop() has begun the observer
   is not connected again by it.                                           *)
CapturedOnce ==
    /\ Cardinality(Listening) <= 1
    /\ obThread["stop"].pc \in {"snapshot", "wait", "done"} => ~obOn

(* "retain this late subscription for bounded removal" (line 1074): every
   subscription in the gateway's client is one the observer knows or is about
   to note.  The code loses one that is noted while a detachment is under way
   that has taken its list before.                                         *)
NoLostSubscription ==
    \A s \in obTable :
       \/ s \in obSubs \/ s \in obTear.subs
       \/ \E t \in ObThreads : obThread[t].pc = "register" /\ Sub(t) = s

-----------------------------------------------------------------------------
(* The broker's side *)

OmIds == 1..OmClients

VARIABLES
    omActive,      \* _active
    omClient,      \* _mqtt_client, 0 when there is none (its generation with it)
    omOn,          \* _connected_mqtt
    omPaho,        \* a paho client: new, dialed (a socket), looping or closed
    omUp,          \* the clients the broker has accepted
    omCallback,    \* the clients whose on_disconnect is due
    omToken,       \* the password of a client: fresh, due (near its end) or expired
    omJwt,         \* _jwt_token and _jwt_expires
    omLoop,        \* _mqtt_connection_loop, with its candidate
    omStop,        \* stop(), with the client it has detached
    omLost, omAged \* the drops and the ageings so far

omVars == <<omActive, omClient, omOn, omPaho, omUp, omCallback, omToken, omJwt, omLoop, omStop,
            omLost, omAged>>

OmInit ==
    /\ omActive = TRUE /\ omClient = 0 /\ omOn = FALSE
    /\ omPaho = [i \in OmIds |-> "none"] /\ omUp = {} /\ omCallback = {}
    /\ omToken = [i \in OmIds |-> "none"] /\ omJwt = "none"
    /\ omLoop = [pc |-> "top", id |-> 0] /\ omStop = [pc |-> "no", id |-> 0]
    /\ omLost = 0 /\ omAged = 0

OmTo(pc) == omLoop' = [omLoop EXCEPT !.pc = pc]
OmMade == {i \in OmIds : omPaho[i] # "none"}

(* _close_mqtt_client: the loop ends and the socket closes. *)
Closes(i) == omPaho' = [omPaho EXCEPT ![i] = "closed"] /\ omUp' = omUp \ {i} /\ omCallback' = omCallback \ {i}

OmTop ==
    /\ omLoop.pc = "top"
    /\ OmTo(CASE ~omActive -> "ended" [] omActive /\ omOn -> "drain" [] OTHER -> "connect")
    /\ UNCHANGED <<omActive, omClient, omOn, omPaho, omUp, omCallback, omToken, omJwt, omStop,
                   omLost, omAged>>

(* _connect_mqtt: the token is refreshed when it is due, then the candidate
   is published, unless the observer stops or an older one is still there.  *)
MakesCandidate ==
    /\ omLoop.pc = "connect" /\ omJwt' = "fresh"
    /\ IF ~omActive \/ omClient # 0
       THEN OmTo("top") /\ UNCHANGED <<omClient, omOn, omPaho, omToken>>
       ELSE \E i \in OmIds :
              /\ OmMade = 1..(i - 1)
              /\ omClient' = i /\ omOn' = FALSE /\ omLoop' = [pc |-> "dial", id |-> i]
              /\ omPaho' = [omPaho EXCEPT ![i] = "new"]
              /\ omToken' = [omToken EXCEPT ![i] = "fresh"]
    /\ UNCHANGED <<omActive, omUp, omCallback, omStop, omLost, omAged>>

(* client.connect() returns, or raises and the candidate is closed. *)
Dials ==
    /\ omLoop.pc = "dial"
    /\ \/ OmTo("start") /\ omPaho' = [omPaho EXCEPT ![omLoop.id] = "dialed"]
       \/ omLost < OmLosses /\ OmTo("close") /\ UNCHANGED omPaho
    /\ omLost' = IF omLoop'.pc = "close" THEN omLost + 1 ELSE omLost
    /\ UNCHANGED <<omActive, omClient, omOn, omUp, omCallback, omToken, omJwt, omStop, omAged>>

(* Mutant of StartsLoop: the network loop is started whatever became of it. *)
StartsLoopAnyway ==
    /\ omLoop.pc = "start"
    /\ omPaho' = [omPaho EXCEPT ![omLoop.id] = "looping"] /\ OmTo("top")
    /\ UNCHANGED <<omActive, omClient, omOn, omUp, omCallback, omToken, omJwt, omStop, omLost, omAged>>

(* loop_start under the lifecycle lock, for a client that is current *)
StartsLoop ==
    /\ omLoop.pc = "start"
    /\ IF omActive /\ omClient = omLoop.id
       THEN omPaho' = [omPaho EXCEPT ![omLoop.id] = "looping"] /\ OmTo("await")
       ELSE OmTo("close") /\ UNCHANGED omPaho
    /\ UNCHANGED <<omActive, omClient, omOn, omUp, omCallback, omToken, omJwt, omStop, omLost, omAged>>

(* The broker's answer is awaited for ten seconds. *)
AwaitsBroker ==
    /\ omLoop.pc = "await"
    /\ \/ omActive /\ omClient = omLoop.id /\ omOn /\ OmTo("drain") /\ UNCHANGED omLost
       \/ (~omActive \/ omClient # omLoop.id) /\ OmTo("close") /\ UNCHANGED omLost
       \/ ~omOn /\ omLost < OmLosses /\ omLost' = omLost + 1 /\ OmTo("close")
       \/ ~omOn /\ omToken[omLoop.id] = "expired" /\ OmTo("close") /\ UNCHANGED omLost
    /\ UNCHANGED <<omActive, omClient, omOn, omPaho, omUp, omCallback, omToken, omJwt, omStop, omAged>>

(* Mutant of ClosesCandidate: what stop() detached is stop()'s to close. *)
ClosesOwnCandidate ==
    /\ omLoop.pc = "close" /\ OmTo("top")
    /\ IF omClient = omLoop.id THEN omClient' = 0 /\ omOn' = FALSE /\ Closes(omLoop.id)
       ELSE UNCHANGED <<omClient, omOn, omPaho, omUp, omCallback>>
    /\ UNCHANGED <<omActive, omToken, omJwt, omStop, omLost, omAged>>

(* _close_mqtt_candidate: also one that stop() has detached and closed, for
   its connect() may have returned later.                                  *)
ClosesCandidate ==
    /\ omLoop.pc = "close" /\ OmTo("top") /\ Closes(omLoop.id)
    /\ IF omClient = omLoop.id THEN omClient' = 0 /\ omOn' = FALSE ELSE UNCHANGED <<omClient, omOn>>
    /\ UNCHANGED <<omActive, omToken, omJwt, omStop, omLost, omAged>>

(* The inner loop: it ends with the connection, and disconnects a client that
   paho reports as lost or whose token is due.                             *)
Drains ==
    /\ omLoop.pc = "drain"
    /\ \/ (~omActive \/ ~omOn) /\ OmTo("top") /\ UNCHANGED <<omClient, omOn, omPaho, omUp, omCallback>>
       \/ /\ omActive /\ omOn /\ omClient # 0
          /\ omClient \notin omUp \/ omJwt # "fresh"
          /\ Closes(omClient) /\ omClient' = 0 /\ omOn' = FALSE /\ OmTo("top")
    /\ UNCHANGED <<omActive, omToken, omJwt, omStop, omLost, omAged>>

(* paho: the broker accepts a token that is not expired. *)
Accepts ==
    \E i \in OmIds \ omUp : omPaho[i] = "looping" /\ i \notin omCallback /\ omToken[i] # "expired"
       /\ omUp' = omUp \cup {i}
       /\ omOn' = (omOn \/ (omActive /\ omClient = i))
       /\ UNCHANGED <<omActive, omClient, omPaho, omCallback, omToken, omJwt, omLoop, omStop, omLost, omAged>>

Drops ==
    /\ omLost < OmLosses /\ omLost' = omLost + 1
    /\ \E i \in omUp : omUp' = omUp \ {i} /\ omCallback' = omCallback \cup {i}
    /\ UNCHANGED <<omActive, omClient, omOn, omPaho, omToken, omJwt, omLoop, omStop, omAged>>

(* on_disconnect, then paho tries again with the password it has *)
ReportsDrop ==
    \E i \in omCallback :
       /\ omCallback' = omCallback \ {i}
       /\ omOn' = (omOn /\ ~(omActive /\ omClient = i))
       /\ UNCHANGED <<omActive, omClient, omPaho, omUp, omToken, omJwt, omLoop, omStop, omLost, omAged>>

(* Time passes: every token grows older. *)
OmAges ==
    /\ omAged < OmExpiries /\ omAged' = omAged + 1
    /\ LET older(x) == CASE x = "fresh" -> "due" [] x = "due" -> "expired" [] OTHER -> x
       IN omJwt' = older(omJwt) /\ omToken' = [i \in OmIds |-> older(omToken[i])]
    /\ UNCHANGED <<omActive, omClient, omOn, omPaho, omUp, omCallback, omLoop, omStop, omLost>>

(* stop(): _disconnect_mqtt detaches under the lock and closes after it. *)
OmStops ==
    \/ /\ omStop.pc = "no" /\ omActive' = FALSE /\ omStop' = [omStop EXCEPT !.pc = "detach"]
       /\ UNCHANGED <<omClient, omOn, omPaho, omUp, omCallback, omToken, omJwt, omLoop, omLost, omAged>>
    \/ /\ omStop.pc = "detach" /\ omStop' = [pc |-> "close", id |-> omClient]
       /\ omClient' = 0 /\ omOn' = FALSE
       /\ UNCHANGED <<omActive, omPaho, omUp, omCallback, omToken, omJwt, omLoop, omLost, omAged>>
    \/ /\ omStop.pc = "close" /\ omStop' = [pc |-> "done", id |-> 0] /\ omOn' = FALSE
       /\ IF omStop.id # 0 THEN Closes(omStop.id) ELSE UNCHANGED <<omPaho, omUp, omCallback>>
       /\ UNCHANGED <<omActive, omClient, omToken, omJwt, omLoop, omLost, omAged>>

OmLoopStep == OmTop \/ MakesCandidate \/ Dials \/ StartsLoop \/ AwaitsBroker \/ ClosesCandidate \/ Drains

OmNext == OmLoopStep \/ Accepts \/ Drops \/ ReportsDrop \/ OmAges \/ OmStops

OmSpec == OmInit /\ [][OmNext]_omVars

OmTypeOK ==
    /\ {omActive, omOn} \subseteq BOOLEAN /\ omClient \in OmIds \cup {0}
    /\ omPaho \in [OmIds -> {"none", "new", "dialed", "looping", "closed"}]
    /\ omUp \cup omCallback \subseteq OmIds
    /\ omToken \in [OmIds -> {"none", "fresh", "due", "expired"}]
    /\ omLost <= OmLosses /\ omAged <= OmExpiries

(* No broker client is forgotten: one with a socket is published, or the
   connection loop or stop() has it in hand to close it; and a connection is
   reported only for a client that is published.                           *)
NoForgottenBroker ==
    /\ \A i \in OmIds : omPaho[i] \in {"dialed", "looping"} =>
          i = omClient \/ i = omStop.id \/ (i = omLoop.id /\ omLoop.pc \in {"dial", "start", "await", "close"})
    /\ omOn => omClient # 0 /\ omPaho[omClient] = "looping"

(* After stop() no client of the observer reaches the broker. *)
BrokerLeftAtStop == ~omActive ~> \A i \in OmIds : omPaho[i] \notin {"dialed", "looping"}

(* "refresh the JWT by cleanly reconnecting before it expires" (line 1322): a
   broker that accepts valid tokens is reached again.  The code waits for
   paho while a client is published, and paho has the old token only.      *)
ObserverReconnects == omActive ~> (omOn \/ ~omActive)

-----------------------------------------------------------------------------
(* The gateway has one client at the device, under its claim, and shows a
   connection only while it is current; the observer captures a packet once
   and forgets no broker (meshcore_gateway.py, meshcore_observer.py).        *)
MeshCoreSafe ==
    /\ McTypeOK /\ OneMeshCoreClient /\ McLeaseCoversDevice /\ ConnectedIsCurrent
    /\ ObTypeOK /\ CapturedOnce
    /\ OmTypeOK /\ NoForgottenBroker
=============================================================================
