----------------------------- MODULE GatewayLife -----------------------------
(***************************************************************************)
(* What others ask of the gateways to the meshes, first the Meshtastic one *)
(* (builtin_plugins/meshtastic_gateway.py): machines that share            *)
(* nothing but its lock, each with its own specification.                  *)
(*                                                                         *)
(*   send      messages and read receipts that the hub and the dashboard   *)
(*             have sent (Sd...);                                          *)
(*   ready     what the plugin shows of its paths (Rd...);                 *)
(*   usb       which device it believes it owns, and resets (Ub...);       *)
(*   nodes     what is known of the nodes of the mesh (Nn...), and the     *)
(*             file that keeps it (Ns...);                                 *)
(*   channels  those of the radio, and the library's copy of them (Ch...)  *)
(*                                                                         *)
(* and of the MeshCore gateway (builtin_plugins/meshcore_gateway.py):      *)
(*                                                                         *)
(*   meshcore  messages that are sent, and whether the radio answers       *)
(*             (Mx...);                                                    *)
(*   heard     messages that come in, some of them twice (Md...).          *)
(***************************************************************************)
EXTENDS Integers, FiniteSets, Sequences

CONSTANTS
    SdMsgs, SdReceipts,  \* messages; those that are read receipts
    SdLinks              \* bound on listeners and on clients

ASSUME GatewayLifeAssumption ==
    /\ SdReceipts \subseteq SdMsgs /\ "free" \notin SdMsgs /\ SdLinks \in Nat

-----------------------------------------------------------------------------
(* send: in MQTT mode, with a serial listener *)

VARIABLES
    sdActive, sdConnected,
    sdGrace,      \* the last loss is no older than reconnect_grace_period
    sdMesh,       \* _mesh_interface: which client, or none (0)
    sdClients,    \* clients made so far
    sdListener,   \* _serial_listener: of which generation, or none (0)
    sdGen,        \* _serial_active_generation
    sdCurrent,    \* it is _serial_open_generation
    sdLock,       \* whose worker holds _serial_operation_lock
    sdMsg,        \* messages: where their caller and their worker are
    sdAir         \* history: how often a message was handed to a radio or a broker

sdVars == <<sdActive, sdConnected, sdGrace, sdMesh, sdClients, sdListener, sdGen, sdCurrent,
            sdLock, sdMsg, sdAir>>
sdLinkVars == <<sdActive, sdConnected, sdGrace, sdMesh, sdClients, sdListener, sdGen, sdCurrent>>

NoIface == <<"none", 0>>
Serial(g) == <<"serial", g>>
Client(n) == <<"mqtt", n>>
SdIfaces == {NoIface} \cup {Serial(g) : g \in 1..SdLinks} \cup {Client(n) : n \in 1..SdLinks}

SdNew == [at |-> "new", iface |-> NoIface, answer |-> "none", worker |-> "none", late |-> FALSE]

SdInit ==
    /\ sdActive = TRUE /\ sdConnected = FALSE /\ sdGrace = FALSE
    /\ sdMesh = 0 /\ sdClients = 0 /\ sdListener = 0 /\ sdGen = 0 /\ sdCurrent = TRUE
    /\ sdLock = "free"
    /\ sdMsg = [m \in SdMsgs |-> SdNew] /\ sdAir = [m \in SdMsgs |-> 0]

(* The links, as their owners publish and take them *)
SdLinkStep ==
    /\ \/ /\ sdActive /\ sdClients < SdLinks                       \* a client is published
          /\ sdMesh' = sdClients + 1 /\ sdClients' = sdClients + 1
          /\ sdConnected' = TRUE
          /\ UNCHANGED <<sdActive, sdGrace, sdListener, sdGen, sdCurrent>>
       \/ /\ sdMesh # 0 /\ sdConnected' = ~ sdConnected            \* lost, or back
          /\ sdGrace' = IF sdConnected THEN TRUE ELSE sdGrace
          /\ UNCHANGED <<sdActive, sdMesh, sdClients, sdListener, sdGen, sdCurrent>>
       \/ /\ sdGrace /\ sdGrace' = FALSE
          /\ UNCHANGED <<sdActive, sdConnected, sdMesh, sdClients, sdListener, sdGen, sdCurrent>>
       \/ /\ sdMesh # 0 /\ sdMesh' = 0 /\ sdConnected' = FALSE     \* _close_mesh_interface
          /\ UNCHANGED <<sdActive, sdGrace, sdClients, sdListener, sdGen, sdCurrent>>
       \/ /\ sdActive /\ sdListener = 0 /\ sdGen < SdLinks         \* a listener is published
          /\ sdGen' = sdGen + 1 /\ sdListener' = sdGen' /\ sdCurrent' = TRUE
          /\ UNCHANGED <<sdActive, sdConnected, sdGrace, sdMesh, sdClients>>
       \/ /\ sdListener # 0 /\ sdListener' = 0 /\ sdCurrent' = FALSE
          /\ UNCHANGED <<sdActive, sdConnected, sdGrace, sdMesh, sdClients, sdGen>>
       \/ /\ sdActive /\ sdActive' = FALSE /\ sdCurrent' = FALSE   \* stop
          /\ UNCHANGED <<sdConnected, sdGrace, sdMesh, sdClients, sdListener, sdGen>>
    /\ UNCHANGED <<sdLock, sdMsg, sdAir>>

(* The interface send_message takes, by LoRa or as it comes *)
SdRoute(lora) ==
    CASE sdListener # 0 /\ lora -> Serial(sdListener)
      [] sdActive /\ sdConnected /\ sdMesh # 0 -> Client(sdMesh)
      [] sdListener # 0 -> Serial(sdListener)
      [] OTHER -> NoIface

(* What get_status tells of the links *)
SdStatus ==
    [connected |-> sdConnected \/ (sdGrace /\ sdActive /\ sdMesh # 0),
     serial_available |-> sdListener # 0]

SdAnswer(m, answer) == sdMsg' = [sdMsg EXCEPT ![m].at = "answered", ![m].answer = answer]
SdGoto(m, label) == sdMsg' = [sdMsg EXCEPT ![m].at = label]
SdWorker(m, label) == sdMsg' = [sdMsg EXCEPT ![m].worker = label]

SdChooses(m, iface) ==
    IF iface = NoIface THEN SdAnswer(m, "not_connected")
    ELSE sdMsg' = [sdMsg EXCEPT ![m].at = "chosen", ![m].iface = iface]

SdAsks(m) ==
    /\ sdMsg[m].at = "new" /\ m \notin SdReceipts
    /\ \/ SdAnswer(m, "rate_limited")
       \/ \E lora \in BOOLEAN : SdChooses(m, SdRoute(lora))
    /\ UNCHANGED <<sdLinkVars, sdLock, sdAir>>

(* send_read_receipt takes the listener. *)
SdReceiptAsks(m) ==
    /\ sdMsg[m].at = "new" /\ m \in SdReceipts
    /\ \/ SdAnswer(m, "rate_limited")
       \/ SdChooses(m, IF sdListener # 0 THEN Serial(sdListener) ELSE NoIface)
    /\ UNCHANGED <<sdLinkVars, sdLock, sdAir>>

(* _serial_generation_is_current, and its counterpart for the client *)
SdIsCurrent(iface) ==
    \/ sdActive /\ sdCurrent /\ sdListener # 0 /\ iface = Serial(sdListener)
    \/ sdActive /\ sdConnected /\ sdMesh # 0 /\ iface = Client(sdMesh)

(* _invoke_interface_operation asks again whose interface it is. *)
SdInvokes(m) ==
    /\ sdMsg[m].at = "chosen"
    /\ IF ~ SdIsCurrent(sdMsg[m].iface) THEN SdAnswer(m, "stale")
       ELSE SdGoto(m, IF sdMsg[m].iface[1] = "serial" THEN "command" ELSE "publish")
    /\ UNCHANGED <<sdLinkVars, sdLock, sdAir>>

(* To the broker the caller hands its message itself; publish refuses, raises or
   takes it ...                                                            *)
SdPublishes(m) ==
    /\ sdMsg[m].at = "publish"
    /\ \/ SdAnswer(m, "delivery_uncertain") /\ sdAir' \in {sdAir, [sdAir EXCEPT ![m] = @ + 1]}
       \/ SdGoto(m, "published") /\ sdAir' = [sdAir EXCEPT ![m] = @ + 1]
    /\ UNCHANGED <<sdLinkVars, sdLock>>

(* ... and what was taken by a client that is no longer the gateway's may be lost. *)
SdPublished(m) ==
    /\ sdMsg[m].at = "published"
    /\ SdAnswer(m, IF SdIsCurrent(sdMsg[m].iface) THEN "sent" ELSE "delivery_uncertain")
    /\ UNCHANGED <<sdLinkVars, sdLock, sdAir>>

(* _run_serial_command: one at a time, and none while a health probe is inside
   the library                                                             *)
SdCommands(m) ==
    /\ sdMsg[m].at = "command"
    /\ \/ ~ SdIsCurrent(sdMsg[m].iface) /\ SdAnswer(m, "stale") /\ UNCHANGED sdLock
       \/ /\ SdIsCurrent(sdMsg[m].iface) /\ UNCHANGED sdLock
          /\ SdAnswer(m, "busy")              \* or no thread could be started
       \/ /\ SdIsCurrent(sdMsg[m].iface) /\ sdLock = "free" /\ sdLock' = m
          /\ sdMsg' = [sdMsg EXCEPT ![m].at = "waits", ![m].worker = "checks"]
    /\ UNCHANGED <<sdLinkVars, sdAir>>

(* Mutant of SdChecks: the worker hands over what its caller may have given up. *)
SdChecksNothing(m) ==
    /\ sdMsg[m].worker = "checks" /\ SdWorker(m, "starts")
    /\ UNCHANGED <<sdLinkVars, sdLock, sdAir>>

(* Its worker looks whether the link is still the one ... *)
SdChecks(m) ==
    /\ sdMsg[m].worker = "checks"
    /\ IF SdIsCurrent(sdMsg[m].iface) THEN SdWorker(m, "starts") /\ UNCHANGED sdLock
       ELSE SdWorker(m, "never started") /\ sdLock' = "free"
    /\ UNCHANGED <<sdLinkVars, sdAir>>

(* ... says that it starts ... *)
SdStarts(m) ==
    /\ sdMsg[m].worker = "starts" /\ SdWorker(m, "started")
    /\ UNCHANGED <<sdLinkVars, sdLock, sdAir>>

(* ... and hands the message over, which fails or not; what returns to a link
   that is no longer the one does not count.                               *)
SdTransmits(m) ==
    /\ sdMsg[m].worker = "started"
    /\ \/ sdAir' \in {sdAir, [sdAir EXCEPT ![m] = @ + 1]} /\ SdWorker(m, "failed")
       \/ sdAir' = [sdAir EXCEPT ![m] = @ + 1] /\ SdWorker(m, "handed over")
    /\ UNCHANGED <<sdLinkVars, sdLock>>

SdWorkerEnds(m) ==
    /\ sdMsg[m].worker \in {"handed over", "failed"}
    /\ SdWorker(m, IF sdMsg[m].worker = "handed over" /\ SdIsCurrent(sdMsg[m].iface)
                   THEN "done" ELSE "doubtful")
    /\ sdLock' = "free"
    /\ UNCHANGED <<sdLinkVars, sdAir>>

SdReturns(m) ==
    /\ sdMsg[m].at = "waits"
    /\ SdAnswer(m, CASE sdMsg[m].worker = "never started" -> "stale"
                     [] sdMsg[m].worker = "done" -> "sent"
                     [] OTHER -> "delivery_uncertain")
    /\ sdMsg[m].worker \in {"never started", "done", "doubtful"}
    /\ UNCHANGED <<sdLinkVars, sdLock, sdAir>>

(* A command that takes too long costs the link its generation ... *)
SdTimesOut(m) ==
    /\ sdMsg[m].at = "waits" /\ sdMsg[m].worker \notin {"never started", "done", "doubtful"}
    /\ SdGoto(m, "timed out")
    /\ sdListener' = IF sdMsg[m].iface = Serial(sdListener) THEN 0 ELSE sdListener
    /\ sdCurrent' = (sdCurrent /\ sdMsg[m].iface # Serial(sdGen))
    /\ UNCHANGED <<sdActive, sdConnected, sdGrace, sdMesh, sdClients, sdGen, sdLock, sdAir>>

(* ... and is answered by what the worker has said so far. *)
SdGivesUp(m) ==
    /\ sdMsg[m].at = "timed out"
    /\ LET started == sdMsg[m].worker \notin {"checks", "starts", "never started"}
       IN  sdMsg' = [sdMsg EXCEPT ![m].at = "answered", ![m].late = sdMsg[m].worker = "starts",
                        ![m].answer = IF started THEN "delivery_uncertain" ELSE "timeout"]
    /\ UNCHANGED <<sdLinkVars, sdLock, sdAir>>

SdNext ==
    \/ SdLinkStep
    \/ \E m \in SdMsgs :
           \/ SdAsks(m) \/ SdReceiptAsks(m) \/ SdInvokes(m) \/ SdPublishes(m)
           \/ SdPublished(m) \/ SdCommands(m) \/ SdChecks(m) \/ SdStarts(m) \/ SdTransmits(m)
           \/ SdWorkerEnds(m) \/ SdReturns(m) \/ SdTimesOut(m) \/ SdGivesUp(m)

SdSpec == SdInit /\ [][SdNext]_sdVars

SdTypeOK ==
    /\ {sdActive, sdConnected, sdGrace, sdCurrent} \subseteq BOOLEAN
    /\ sdMesh \in 0..sdClients /\ sdClients \in 0..SdLinks
    /\ sdListener \in {0, sdGen} /\ sdGen \in 0..SdLinks
    /\ sdLock \in SdMsgs \cup {"free"}
    /\ sdMsg \in [SdMsgs ->
          [at : {"new", "chosen", "publish", "published", "command", "waits", "timed out",
                 "answered"},
           iface : SdIfaces,
           answer : {"none", "sent", "delivery_uncertain", "stale", "busy", "timeout",
                     "rate_limited", "not_connected"},
           worker : {"none", "checks", "starts", "started", "handed over", "failed",
                     "never started", "done", "doubtful"},
           late : BOOLEAN]]
    /\ sdAir \in [SdMsgs -> 0..1]

(* A message that is answered as sent was handed over once, and one that is
   answered with a reason other than that its delivery is uncertain was not and
   will not be, whatever becomes of the link meanwhile: who asked may ask again.
   (A command whose time is up in the moment between its worker's look at the
   link and its word that it starts is the exception.)                     *)
RefusedIsUnsent ==
    \A m \in SdMsgs : sdMsg[m].at = "answered" =>
        /\ sdMsg[m].answer = "sent" => sdAir[m] = 1
        /\ sdMsg[m].answer \notin {"sent", "delivery_uncertain"} /\ ~ sdMsg[m].late => sdAir[m] = 0

(* Nothing is handed to a serial radio by two commands at once. *)
OneAtTheRadio ==
    \A m, n \in SdMsgs :
        {sdMsg[m].worker, sdMsg[n].worker} \subseteq
            {"checks", "starts", "started", "handed over", "failed"} => m = n

(* A message is not refused for want of a link while the status shows one, but
   for the grace in which a lost broker is shown as connected.             *)
StatusIsHonest ==
    \A lora \in BOOLEAN :
        SdRoute(lora) = NoIface /\ sdActive =>
            /\ ~ SdStatus.serial_available
            /\ SdStatus.connected => sdGrace

-----------------------------------------------------------------------------
(* readiness: what the plugin shows of its paths *)

CONSTANTS RdThreads   \* the connection loop, the probe loop, callbacks, senders

VARIABLES
    rdConfig,        \* mode, probe port, watchdog, and whether its dependency fits
    rdActive, rdConnected,
    rdListener,      \* a _serial_listener is published
    rdVerified,      \* _fw_verified_serial_generation is the active generation
    rdPending, rdUnproven, rdFw,
    rdState, rdHealth,   \* of the plugin
    rdTodo,          \* threads: the calls each has still to make
    rdOvertaken      \* history: mark_ready came after what it had not seen

rdVars == <<rdConfig, rdActive, rdConnected, rdListener, rdVerified, rdPending, rdUnproven, rdFw,
            rdState, rdHealth, rdTodo, rdOvertaken>>
rdPathVars == <<rdConnected, rdListener, rdVerified, rdPending, rdUnproven, rdFw>>
rdShownVars == <<rdConfig, rdActive, rdState, rdHealth, rdOvertaken>>

(* What validate_config lets through: settings of the right kind and range, and
   one owner of the serial port.                                           *)
RdConfigs == [mode : {"mqtt", "serial"}, port : BOOLEAN, sound : BOOLEAN,
              watchdog : BOOLEAN, fits : BOOLEAN]
RdValid(config) == config.sound /\ ~ (config.mode = "serial" /\ config.port)

(* start has a watchdog only for a device, asks whether its dependency fits, and
   says so when its threads run already.                                   *)
RdInit ==
    \E config \in RdConfigs, t \in RdThreads :
        LET device == config.port \/ config.mode = "serial"
            made == [config EXCEPT !.watchdog = @ /\ device,
                                   !.fits = @ \/ ~ (config.watchdog /\ device)]
        IN  /\ RdValid(config)
            /\ rdConfig = made
            /\ rdFw = IF made.fits THEN "healthy" ELSE "degraded"
            /\ rdTodo = [u \in RdThreads |-> IF u = t /\ ~ made.fits THEN <<"degrade">> ELSE <<>>]
            /\ rdActive = TRUE /\ rdConnected = FALSE /\ rdListener = FALSE /\ rdVerified = FALSE
            /\ rdPending = FALSE /\ rdUnproven = FALSE
            /\ rdState = "starting" /\ rdHealth = "unavailable" /\ rdOvertaken = FALSE

(* Why the plugin would not be healthy, in _mark_ready_with_radio_guard's order *)
RdMqtt == rdConfig.mode = "mqtt"
RdReason ==
    CASE RdMqtt /\ ~ rdConnected -> "link"
      [] RdMqtt /\ rdConfig.port /\ ~ rdListener -> "listener"
      [] RdMqtt /\ rdConfig.port /\ rdConfig.watchdog /\ ~ rdVerified -> "unverified"
      [] ~ rdConfig.fits -> "dependency"
      [] rdPending -> "recovery"
      [] rdUnproven -> "teardown"
      [] rdConfig.watchdog /\ rdFw # "healthy" -> "firmware"
      [] OTHER -> "none"

RdIdle(t) == rdTodo[t] = <<>>
RdMust(t, calls) == rdTodo' = [rdTodo EXCEPT ![t] = calls]
RdThen(t, calls) == RdMust(t, calls \o Tail(rdTodo[t]))
RdNow(t, call) == rdTodo[t] # <<>> /\ Head(rdTodo[t]) = call

(* The broker or the primary device: connected, or back; lost, or closed *)
RdLink(t) ==
    /\ RdIdle(t) /\ rdActive
    /\ rdConnected' = ~ rdConnected
    /\ RdMust(t, CASE rdConnected /\ RdMqtt -> <<"degrade">>
                   [] rdConnected -> <<"degrade", "close">>
                   [] RdMqtt -> <<"judge">>
                   [] OTHER -> <<"settle", "judge">>)
    /\ UNCHANGED <<rdListener, rdVerified, rdPending, rdUnproven, rdFw, rdShownVars>>

(* The probe loop publishes a listener it verified ... *)
RdListens(t) ==
    /\ RdIdle(t) /\ rdActive /\ rdConfig.port /\ ~ rdListener /\ ~ rdUnproven
    /\ rdListener' = TRUE /\ rdVerified' = rdConfig.watchdog
    /\ RdMust(t, <<"settle", "judge">>)
    /\ UNCHANGED <<rdConnected, rdPending, rdUnproven, rdFw, rdShownVars>>

(* ... ends the recovery it belongs to, or says how the firmware is, ... *)
RdSettles(t) ==
    /\ RdNow(t, "settle")
    /\ \/ rdPending /\ rdPending' = FALSE /\ rdFw' = "healthy" /\ RdThen(t, <<>>)
       \/ UNCHANGED <<rdPending, rdFw>> /\ rdPending /\ RdThen(t, <<>>)   \* a later epoch
       \/ /\ ~ rdPending /\ rdConfig.fits /\ rdFw' = "healthy" /\ RdThen(t, <<>>)
          /\ UNCHANGED rdPending
       \/ /\ ~ rdPending /\ rdFw' = "degraded" /\ RdThen(t, <<"degrade">>)
          /\ UNCHANGED rdPending                                          \* or a sticky failure
    /\ UNCHANGED <<rdConnected, rdListener, rdVerified, rdUnproven, rdShownVars>>

(* ... and takes it back when its loop ends. *)
RdUnlistens(t) ==
    /\ RdIdle(t) /\ rdListener
    /\ rdListener' = FALSE /\ rdVerified' = FALSE
    /\ RdMust(t, <<"close", "judge">>)
    /\ UNCHANGED <<rdConnected, rdPending, rdUnproven, rdFw, rdShownVars>>

(* Any thread's command may cost the device its generation. *)
RdPoisons(t) ==
    /\ RdIdle(t) /\ (rdListener \/ (~ RdMqtt /\ rdConnected))
    /\ rdListener' = FALSE /\ rdVerified' = FALSE
    /\ rdConnected' = (rdConnected /\ RdMqtt)
    /\ rdUnproven' \in {rdUnproven, TRUE}
    /\ RdMust(t, <<"degrade", "close">>)
    /\ UNCHANGED <<rdPending, rdFw, rdShownVars>>

RdCloses(t) ==
    /\ RdNow(t, "close")
    /\ \/ rdUnproven' \in {rdUnproven, FALSE} /\ RdThen(t, <<>>)
       \/ rdUnproven' = TRUE /\ RdThen(t, <<"degrade">>)
    /\ UNCHANGED <<rdConnected, rdListener, rdVerified, rdPending, rdFw, rdShownVars>>

(* _prune_serial_workers finds the last worker gone. *)
RdProves ==
    /\ rdUnproven /\ ~ rdListener /\ (RdMqtt \/ ~ rdConnected) /\ rdUnproven' = FALSE
    /\ UNCHANGED <<rdConnected, rdListener, rdVerified, rdPending, rdFw, rdTodo, rdShownVars>>

(* The watchdog, an open that failed and a reset say so through _set_fw_state;
   a reset that was issued leaves its recovery pending ...                 *)
RdFirmware(t) ==
    /\ RdIdle(t) /\ rdActive
    /\ rdFw' \in {"suspect", "degraded"} /\ rdPending' \in {rdPending, rdConfig.watchdog}
    /\ RdMust(t, <<"degrade">>)
    /\ UNCHANGED <<rdConnected, rdListener, rdVerified, rdUnproven, rdShownVars>>

(* ... and a positive probe clears it. *)
RdVerifies(t) ==
    /\ RdIdle(t) /\ rdActive /\ rdConfig.watchdog /\ ~ rdPending
    /\ rdListener \/ (~ RdMqtt /\ rdConnected)
    /\ rdVerified' = TRUE /\ rdFw' = "healthy"
    /\ RdMust(t, <<"judge">>)
    /\ UNCHANGED <<rdConnected, rdListener, rdPending, rdUnproven, rdShownVars>>

(* _mark_ready_with_radio_guard judges under the lock and acts on it later:
   either mark_ready at once, ...                                          *)
RdJudges(t) ==
    /\ RdNow(t, "judge")
    /\ RdThen(t, CASE ~ rdActive -> <<>>
                   [] RdReason = "none" -> <<"ready">>
                   [] RdReason \in {"listener", "unverified"} -> <<"degrade">>
                   [] OTHER -> <<"look">>)
    /\ UNCHANGED <<rdPathVars, rdShownVars>>

(* ... or, while the plugin is still starting, both. *)
RdLooks(t) ==
    /\ RdNow(t, "look")
    /\ RdThen(t, IF rdState = "starting" THEN <<"degrade", "ready">> ELSE <<"degrade">>)
    /\ UNCHANGED <<rdPathVars, rdShownVars>>

RdMarksDegraded(t) ==
    /\ RdNow(t, "degrade") /\ RdThen(t, <<>>)
    /\ IF rdState = "stopping" THEN UNCHANGED <<rdHealth, rdOvertaken>>
       ELSE rdHealth' = "degraded" /\ rdOvertaken' = FALSE
    /\ UNCHANGED <<rdPathVars, rdConfig, rdActive, rdState>>

RdMarksReady(t) ==
    /\ RdNow(t, "ready") /\ RdThen(t, <<>>)
    /\ rdState' = IF rdState = "starting" THEN "ready" ELSE rdState
    /\ rdHealth' = IF rdState = "stopping" \/ (rdState = "starting" /\ rdHealth = "degraded")
                   THEN rdHealth ELSE "healthy"
    /\ rdOvertaken' = (rdHealth' = "healthy" /\ RdReason # "none")
    /\ UNCHANGED <<rdPathVars, rdConfig, rdActive>>

RdStops ==
    /\ \/ rdState # "stopping" /\ rdState' = "stopping" /\ UNCHANGED rdActive
       \/ rdState = "stopping" /\ rdActive /\ rdActive' = FALSE /\ UNCHANGED rdState
    /\ UNCHANGED <<rdPathVars, rdConfig, rdHealth, rdTodo, rdOvertaken>>

RdNext ==
    \/ RdProves \/ RdStops
    \/ \E t \in RdThreads :
           \/ RdLink(t) \/ RdListens(t) \/ RdSettles(t) \/ RdUnlistens(t) \/ RdPoisons(t)
           \/ RdCloses(t) \/ RdFirmware(t) \/ RdVerifies(t) \/ RdJudges(t) \/ RdLooks(t)
           \/ RdMarksDegraded(t) \/ RdMarksReady(t)

RdSpec == RdInit /\ [][RdNext]_rdVars

(* A plugin that runs shows HEALTHY only while every enabled path is up: whatever
   breaks one is reported, by whichever thread it happened to.  (A mark_ready
   that was decided before the path broke may come after the report.)      *)
DownIsShown ==
    rdState = "ready" /\ rdActive /\ RdReason # "none" /\ rdHealth = "healthy" =>
        rdOvertaken \/ \E t \in RdThreads : ~ RdIdle(t)

RdTypeOK ==
    /\ RdValid([rdConfig EXCEPT !.sound = TRUE])
    /\ {rdActive, rdConnected, rdListener, rdVerified, rdPending, rdUnproven, rdOvertaken}
          \subseteq BOOLEAN
    /\ rdFw \in {"healthy", "suspect", "degraded"}
    /\ rdState \in {"starting", "ready", "stopping"}
    /\ rdHealth \in {"unavailable", "healthy", "degraded"}
    /\ rdTodo \in [RdThreads -> Seq({"settle", "close", "judge", "look", "degrade", "ready"})]
    /\ \A t \in RdThreads : Len(rdTodo[t]) <= 3

-----------------------------------------------------------------------------
(* usb: which device the gateway believes it owns, and resets *)

CONSTANTS
    UbDevices,      \* devices that can be plugged in at the configured path
    UbPlain,        \* those without a USB identity
    UbThreads,      \* the probe loop and one that resets
    UbPlugsMax      \* bound on pluggings

ASSUME GatewayUsbAssumption ==
    /\ UbPlain \subseteq UbDevices /\ UbPlugsMax \in Nat
    /\ {"nothing", "any", "kind"} \cap UbDevices = {}

VARIABLES
    ubExpected,     \* expected_usb_identity: none, a kind of device, or a whole identity
    ubAt, ubAddr,   \* the device at the path, and its bus address
    ubLease,        \* _serial_device_lease: the endpoint that was claimed
    ubBusy,         \* an interface, or old work, is at the device
    ubBound, ubDurable,   \* _fw_bound_usb_identity; device_identity in the reset history
    ubOp,           \* threads: what each does
    ubHit,          \* history: devices that were reset, and what was validated for it
    ubRaced         \* history: two threads bound at once

ubVars == <<ubExpected, ubAt, ubAddr, ubLease, ubBusy, ubBound, ubDurable, ubOp, ubHit, ubRaced>>
ubWorld == <<ubExpected, ubAt, ubAddr, ubBusy>>

NoDevice == "nothing"
UbNone == [dev |-> NoDevice, addr |-> 0]
UbHere == [dev |-> ubAt, addr |-> ubAddr]
UbIdle == [at |-> "idle", for |-> "idle", id |-> NoDevice, addr |-> 0]

(* A start takes the binding that was persisted. *)
UbInit ==
    /\ ubExpected \in {"any", "kind"} \cup UbDevices
    /\ ubAt = NoDevice /\ ubAddr = 0 /\ ubLease = UbNone /\ ubBusy = FALSE
    /\ ubBound = NoDevice /\ ubDurable = NoDevice
    /\ ubOp = [t \in UbThreads |-> UbIdle] /\ ubHit = {} /\ ubRaced = FALSE

UbRestarts ==
    /\ ubBound' = ubDurable /\ ubLease' = UbNone /\ ubBusy' = FALSE
    /\ ubOp' = [t \in UbThreads |-> UbIdle]
    /\ UNCHANGED <<ubExpected, ubAt, ubAddr, ubDurable, ubHit, ubRaced>>

(* A device is plugged in or pulled out; every plugging has a bus address of its own. *)
UbPlugs ==
    /\ ubAddr < UbPlugsMax
    /\ ubAt' \in (UbDevices \cup {NoDevice}) \ {ubAt} /\ ubAddr' = ubAddr + 1
    /\ UNCHANGED <<ubExpected, ubLease, ubBusy, ubBound, ubDurable, ubOp, ubHit, ubRaced>>

UbUses ==
    /\ ubBusy' = ~ ubBusy /\ (ubBusy \/ ubLease # UbNone)
    /\ UNCHANGED <<ubExpected, ubAt, ubAddr, ubLease, ubBound, ubDurable, ubOp, ubHit, ubRaced>>

UbGoto(t, label) == ubOp' = [ubOp EXCEPT ![t].at = label]
UbRefused(t) == ubOp' = [ubOp EXCEPT ![t] = UbIdle]

(* An open, or the steps of a hard reset, begin with the lease ... *)
UbBegins(t) ==
    /\ ubOp[t].at = "idle"
    /\ \/ ubOp' = [ubOp EXCEPT ![t].at = "lease", ![t].for = "open"]
       \/ /\ \A u \in UbThreads : ubOp[u].for \notin {"resolve", "reset"}
          /\ ubOp' = [ubOp EXCEPT ![t].at = "lease", ![t].for = "resolve"]
    /\ UNCHANGED <<ubWorld, ubLease, ubBound, ubDurable, ubHit, ubRaced>>

(* ... which is renewed when the endpoint was enumerated again and nothing uses
   the old one (_ensure_serial_device_lease).                              *)
UbEnsures(t) ==
    /\ ubOp[t].at = "lease"
    /\ \/ ubAt # NoDevice /\ ubLease = UbHere /\ UbGoto(t, "read") /\ UNCHANGED ubLease
       \/ /\ ubAt # NoDevice /\ ubLease # UbHere /\ ~ ubBusy
          /\ ubLease' = UbHere /\ UbGoto(t, "read")
       \/ UbRefused(t) /\ UNCHANGED ubLease
       \/ ubLease # UbNone /\ ubLease # UbHere /\ ~ ubBusy     \* released, and not claimed again
          /\ ubLease' = UbNone /\ UbRefused(t)
    /\ UNCHANGED <<ubWorld, ubBound, ubDurable, ubHit, ubRaced>>

UbExpects(dev) == ubExpected = "any" \/ (ubExpected = "kind" /\ dev \notin UbPlain)
                  \/ (ubExpected = dev /\ dev \notin UbPlain)
UbAuthorizes(dev) == ubExpected = dev /\ dev \notin UbPlain

UbValidated(t) == ubOp' = [ubOp EXCEPT ![t].id = ubLease.dev,
                     ![t].at = CASE ubOp[t].for = "open" -> "idle"
                                 [] ubOp[t].for = "resolve" -> "address"
                                 [] OTHER -> "compare"]

(* _bind_or_validate_usb_identity: the lease is still that of the endpoint, the
   device is the expected one and the bound one; a first device is bound, and
   another only when its whole identity is configured.                     *)
UbReads(t) ==
    /\ ubOp[t].at = "read"
    /\ LET dev == ubLease.dev
       IN  CASE ubLease = UbNone \/ ubLease # UbHere \/ ~ UbExpects(dev) -> UbRefused(t)
             [] ubBound # NoDevice /\ ubBound = dev -> UbValidated(t)
             [] ubBound # NoDevice /\ ~ UbAuthorizes(dev) -> UbRefused(t)
             [] ubBound = NoDevice /\ dev \in UbPlain -> UbRefused(t)  \* with hard resets
             [] OTHER -> ubOp' = [ubOp EXCEPT ![t].at = "persist", ![t].id = dev]
    /\ ubRaced' = (ubRaced \/ (ubOp'[t].at = "persist" /\ \E u \in UbThreads \ {t} :
                                                            ubOp[u].at \in {"persist", "assign"}))
    /\ UNCHANGED <<ubWorld, ubLease, ubBound, ubDurable, ubHit>>

(* It is persisted first ... *)
UbPersists(t) ==
    /\ ubOp[t].at = "persist"
    /\ \/ UbRefused(t) /\ UNCHANGED ubDurable
       \/ ubDurable' = ubOp[t].id /\ UbGoto(t, "assign")
    /\ UNCHANGED <<ubWorld, ubLease, ubBound, ubHit, ubRaced>>

UbAssigns(t) ==
    /\ ubOp[t].at = "assign" /\ ubBound' = ubOp[t].id
    /\ ubOp' = [ubOp EXCEPT ![t].at = CASE ubOp[t].for = "open" -> "idle"
                                        [] ubOp[t].for = "resolve" -> "address"
                                        [] OTHER -> "compare"]
    /\ UNCHANGED <<ubWorld, ubLease, ubDurable, ubHit, ubRaced>>

(* _resolve_usb_device_path reads the bus address at the claimed port, whatever
   is there now; then a reset is reserved, and everything is asked again.  *)
UbAddresses(t) ==
    /\ ubOp[t].at = "address"
    /\ \/ /\ ubLease # UbNone /\ ubAt # NoDevice
          /\ ubOp' = [ubOp EXCEPT ![t].at = "lease", ![t].for = "reset", ![t].addr = ubAddr]
       \/ UbRefused(t)
    /\ UNCHANGED <<ubWorld, ubLease, ubBound, ubDurable, ubHit, ubRaced>>

(* _usb_bus_reset: the address must still be the one that was resolved; ... *)
UbCompares(t) ==
    /\ ubOp[t].at = "compare"
    /\ IF ubLease # UbNone /\ ubAt # NoDevice /\ ubAddr = ubOp[t].addr
       THEN UbGoto(t, "reset") ELSE UbRefused(t)
    /\ UNCHANGED <<ubWorld, ubLease, ubBound, ubDurable, ubHit, ubRaced>>

(* ... a device that left it meanwhile is not found there. *)
UbResets(t) ==
    /\ ubOp[t].at = "reset" /\ UbRefused(t)
    /\ ubHit' \in {ubHit, IF ubAddr = ubOp[t].addr THEN ubHit \cup {<<ubAt, ubOp[t].id>>}
                         ELSE ubHit}
    /\ UNCHANGED <<ubWorld, ubLease, ubBound, ubDurable, ubRaced>>

UbNext ==
    \/ UbRestarts \/ UbPlugs \/ UbUses
    \/ \E t \in UbThreads :
           \/ UbBegins(t) \/ UbEnsures(t) \/ UbReads(t) \/ UbPersists(t) \/ UbAssigns(t)
           \/ UbAddresses(t) \/ UbCompares(t) \/ UbResets(t)

UbSpec == UbInit /\ [][UbNext]_ubVars

UbTypeOK ==
    /\ ubExpected \in {"any", "kind"} \cup UbDevices
    /\ ubAt \in UbDevices \cup {NoDevice} /\ ubAddr \in 0..UbPlugsMax
    /\ ubLease \in [dev : UbDevices \cup {NoDevice}, addr : 0..UbPlugsMax]
    /\ ubBusy \in BOOLEAN /\ ubRaced \in BOOLEAN
    /\ {ubBound, ubDurable} \subseteq (UbDevices \ UbPlain) \cup {NoDevice}
    /\ ubOp \in [UbThreads ->
          [at : {"idle", "lease", "read", "persist", "assign", "address", "compare", "reset"},
           for : {"idle", "open", "resolve", "reset"}, id : UbDevices \cup {NoDevice},
           addr : 0..UbPlugsMax]]
    /\ ubHit \subseteq UbDevices \X UbDevices

(* What is reset is the device whose identity was validated for it, and an
   expected one, however devices are swapped between two steps.            *)
ResetsTheValidated == \A hit \in ubHit : hit[1] = hit[2] /\ UbExpects(hit[1])

(* The binding in memory is the durable one, but while it is being changed; and
   unless two threads bind at once.                                        *)
BindingIsDurable ==
    ubRaced \/ ubBound = ubDurable \/ \E t \in UbThreads : ubOp[t].at = "assign"

(* A device that is bound stays bound, unless another's whole identity was
   configured.                                                             *)
UbRebound ==
    [][ubDurable # NoDevice /\ ubDurable' # ubDurable /\ ~ ubRaced'
           => ubDurable' = ubExpected]_ubVars

-----------------------------------------------------------------------------
(* nodes: what is known of a node of the mesh.  Nodes are treated each on its
   own; the model follows one.                                             *)

CONSTANTS
    NnDays,         \* bound on the clock, in units of mqtt_node_ttl_seconds
    NnHearsMax      \* bound on changes of what the interfaces know

VARIABLES
    nnOwn,          \* whose own node it is: the broker client's, the radio's, nobody's
    nnDay, nnHears,
    nnMqtt, nnSerial,   \* what the interfaces have of it
    nnPersisted, nnFile,    \* _persisted_nodes, node_data_cache.json
    nnNames, nnNamesFile,   \* the name cache, node_name_cache.json
    nnNear          \* _cached_lora_neighbors, and it in them

nnVars == <<nnOwn, nnDay, nnHears, nnMqtt, nnSerial, nnPersisted, nnFile, nnNames, nnNamesFile,
            nnNear>>
nnHeard == <<nnOwn, nnDay, nnHears, nnMqtt, nnSerial>>

Unknown == [name |-> "unknown", day |-> 0]
NnNames == {"none", "generic", "real"}

NnInit ==
    /\ nnOwn \in {"mqtt", "serial", "nobody"}
    /\ nnDay = 0 /\ nnHears = 0 /\ nnMqtt = Unknown /\ nnSerial = Unknown
    /\ nnPersisted = Unknown /\ nnFile = Unknown /\ nnNames = "none" /\ nnNamesFile = "none"
    /\ nnNear = Unknown

(* A day passes; an interface hears of the node, or is closed.             *)
NnWorld ==
    /\ \/ nnDay < NnDays /\ nnDay' = nnDay + 1 /\ UNCHANGED <<nnHears, nnMqtt, nnSerial>>
       \/ /\ nnHears < NnHearsMax /\ nnHears' = nnHears + 1 /\ UNCHANGED nnDay
          /\ \/ nnMqtt' \in {Unknown} \cup [name : NnNames, day : {nnDay}] /\ UNCHANGED nnSerial
             \/ nnSerial' \in {Unknown} \cup [name : NnNames, day : {nnDay}, relayed : BOOLEAN]
                /\ UNCHANGED nnMqtt
    /\ UNCHANGED <<nnOwn, nnPersisted, nnFile, nnNames, nnNamesFile, nnNear>>

(* get_meshtastic_nodes: what is persisted and no older than the limit, then what
   the broker's client has, then what the radio has of it.                 *)
NnKept == IF nnPersisted.day = nnDay THEN nnPersisted ELSE Unknown
NnFromMqtt ==
    [name |-> nnMqtt.name, day |-> nnMqtt.day, mqtt |-> nnOwn # "mqtt", lora |-> nnOwn = "mqtt",
     self |-> nnOwn = "mqtt"]
NnRelayed == nnSerial.relayed /\ nnOwn # "serial"
NnFirst == IF nnMqtt = Unknown THEN NnKept ELSE NnFromMqtt
NnMerged ==
    CASE nnSerial = Unknown -> NnFirst
      [] NnFirst = Unknown -> [name |-> nnSerial.name, day |-> nnSerial.day, mqtt |-> NnRelayed,
                               lora |-> ~ NnRelayed, self |-> nnOwn = "serial"]
      [] OTHER -> [NnFirst EXCEPT !.mqtt = @ \/ NnRelayed, !.lora = @ \/ ~ NnRelayed,
                                  !.name = IF @ = "generic" /\ nnSerial.name = "real"
                                           THEN "real" ELSE @]

(* A name of any kind replaces the one in the name cache. *)
NnNamed(names, heard) == IF heard.name \in {"generic", "real"} THEN heard.name ELSE names

(* What was listed is what is persisted from now on, but for the node itself; the
   file is written now and then.                                           *)
NnLists ==
    /\ nnPersisted' = IF NnMerged # Unknown /\ NnMerged.self THEN Unknown ELSE NnMerged
    /\ nnNames' = NnNamed(NnNamed(nnNames, nnMqtt), nnSerial)
    /\ nnFile' \in {nnFile, IF nnPersisted' = Unknown THEN nnFile ELSE nnPersisted'}
    /\ UNCHANGED <<nnHeard, nnNamesFile, nnNear>>

(* The probe lists the radio's neighbours, their names from its own NodeDB unless
   that is only generic and the cached one is not, and saves the names.    *)
NnNeighbor ==
    CASE nnSerial = Unknown \/ nnOwn = "serial" \/ nnSerial.relayed -> Unknown
      [] nnSerial.name = "generic" /\ NnNamed(nnNames, nnSerial) = "real" ->
             [name |-> "real", day |-> nnSerial.day]
      [] OTHER -> [name |-> nnSerial.name, day |-> nnSerial.day]
NnProbes ==
    /\ nnSerial # Unknown
    /\ nnNames' = NnNamed(nnNames, nnSerial) /\ nnNamesFile' \in {nnNames', nnNamesFile, "none"}
    /\ nnNear' = NnNeighbor
    /\ UNCHANGED <<nnHeard, nnPersisted, nnFile>>

(* get_lora_neighbors drops what the probe left too long ago. *)
NnForgets ==
    /\ nnNear # Unknown /\ nnNear' = Unknown
    /\ UNCHANGED <<nnHeard, nnPersisted, nnFile, nnNames, nnNamesFile>>

(* _resolve_mesh_node_name: the client's name, the radio's when that is only
   generic, else the cached one                                            *)
NnResolved ==
    LET best == CASE nnSerial.name = "real" -> "real"
                  [] nnMqtt.name \notin {"generic", "real"} -> nnSerial.name
                  [] OTHER -> nnMqtt.name
    IN  IF nnNames = "real" THEN "real" ELSE best

(* A start reads both files; what cannot be read is as if it were not there. *)
NnRestarts ==
    /\ nnPersisted' \in {Unknown, nnFile} /\ nnNames' \in {"none", nnNamesFile}
    /\ nnMqtt' = Unknown /\ nnSerial' = Unknown /\ nnNear' = Unknown
    /\ UNCHANGED <<nnOwn, nnDay, nnHears, nnFile, nnNamesFile>>

NnNext == NnWorld \/ NnLists \/ NnProbes \/ NnForgets \/ NnRestarts

NnSpec == NnInit /\ [][NnNext]_nnVars

NnEntries == [name : NnNames, day : 0..NnDays, mqtt : BOOLEAN, lora : BOOLEAN, self : BOOLEAN]

NnTypeOK ==
    /\ nnMqtt \in {Unknown} \cup [name : NnNames, day : 0..NnDays]
    /\ nnSerial \in {Unknown} \cup [name : NnNames, day : 0..NnDays, relayed : BOOLEAN]
    /\ {nnPersisted, nnFile} \subseteq {Unknown} \cup NnEntries
    /\ {nnNames, nnNamesFile} \subseteq NnNames
    /\ nnNear \in {Unknown} \cup [name : NnNames, day : 0..NnDays]

(* A name that either interface knows to be real is the one that is shown, but
   for a persisted entry that has none; and a cached one is resolved too.  *)
RealNameIsShown ==
    /\ "real" \in {nnMqtt.name, nnSerial.name} =>
           NnMerged.name = "real" \/ NnFirst.name = "none"
    /\ "real" \in {nnMqtt.name, nnSerial.name, nnNames} => NnResolved = "real"

-----------------------------------------------------------------------------
(* saves: the file of the nodes, and who writes it *)

CONSTANTS
    NsCallers,      \* threads that ask for the nodes
    NsListsMax      \* bound on lists; every second one is saved

ASSUME GatewaySavesAssumption == NsListsMax \in Nat /\ "stop" \notin NsCallers

VARIABLES
    nsLists,        \* lists so far
    nsKnown,        \* which of them is _persisted_nodes; 0 when it is empty
    nsCount, nsFlag,    \* _node_data_save_counter, _node_data_save_inflight
    nsOp,           \* callers: where they are, and their list
    nsSaver,        \* saves under way, one of each caller and stop's
    nsFile,         \* node_data_cache.json: a list, nothing (0), or unreadable
    nsTwo,          \* history: two callers came to save at once
    nsTold          \* history: what stop saved, if nothing hindered it

nsVars == <<nsLists, nsKnown, nsCount, nsFlag, nsOp, nsSaver, nsFile, nsTwo, nsTold>>

Unreadable == -1
NsSavers == NsCallers \cup {"stop"}
NsAtRest == [at |-> "idle", list |-> 0]
NsNoSave == [at |-> "none", list |-> 0]

NsInit ==
    /\ nsLists = 0 /\ nsKnown = 0 /\ nsCount = 0 /\ nsFlag = FALSE
    /\ nsOp = [c \in NsCallers |-> NsAtRest] /\ nsSaver = [s \in NsSavers |-> NsNoSave]
    /\ nsFile = 0 /\ nsTwo = FALSE /\ nsTold = Unreadable

NsGoto(c, label) == nsOp' = [nsOp EXCEPT ![c].at = label]

(* A list is made of what is known, ... *)
NsCollects(c) ==
    /\ nsOp[c].at = "idle" /\ nsLists < NsListsMax
    /\ nsLists' = nsLists + 1
    /\ \E list \in {0, nsLists'} : nsOp' = [nsOp EXCEPT ![c] = [at |-> "keep", list |-> list]]
    /\ UNCHANGED <<nsKnown, nsCount, nsFlag, nsSaver, nsFile, nsTwo, nsTold>>

(* ... is what is known from now on, and now and then is to be saved, ... *)
NsKeeps(c) ==
    /\ nsOp[c].at = "keep" /\ nsKnown' = nsOp[c].list
    /\ nsCount' = 1 - nsCount
    /\ nsOp' = [nsOp EXCEPT ![c] = IF nsCount = 0 THEN NsAtRest ELSE [@ EXCEPT !.at = "check"]]
    /\ nsTwo' = (nsTwo \/ (nsCount = 1 /\ \E d \in NsCallers \ {c} :
                                             nsOp[d].at \in {"check", "set", "inline"}))
    /\ UNCHANGED <<nsLists, nsFlag, nsSaver, nsFile, nsTold>>

(* ... when no save is in flight ... *)
NsChecks(c) ==
    /\ nsOp[c].at = "check"
    /\ nsOp' = [nsOp EXCEPT ![c] = IF nsFlag THEN NsAtRest ELSE [@ EXCEPT !.at = "set"]]
    /\ UNCHANGED <<nsLists, nsKnown, nsCount, nsFlag, nsSaver, nsFile, nsTwo, nsTold>>

(* ... in a thread, or by the caller when none can be started. *)
NsSets(c) ==
    /\ nsOp[c].at = "set" /\ nsSaver[c] = NsNoSave
    /\ nsSaver' = [nsSaver EXCEPT ![c].at = "begin"]
    /\ \/ nsFlag' = TRUE /\ nsOp' = [nsOp EXCEPT ![c] = NsAtRest]
       \/ nsFlag' = FALSE /\ NsGoto(c, "inline")
    /\ nsTold' = Unreadable
    /\ UNCHANGED <<nsLists, nsKnown, nsCount, nsFile, nsTwo>>

NsEnds(s) ==
    /\ nsSaver' = [nsSaver EXCEPT ![s] = NsNoSave]
    /\ IF s \in NsCallers /\ nsOp[s].at = "inline"
       THEN nsOp' = [nsOp EXCEPT ![s] = NsAtRest] /\ UNCHANGED nsFlag
       ELSE nsFlag' = (nsFlag /\ s = "stop") /\ UNCHANGED nsOp

(* _save_node_data_cache: nothing is saved when nothing is known; ... *)
NsSnaps(s) ==
    /\ nsSaver[s].at = "begin"
    /\ IF nsKnown = 0 THEN NsEnds(s)
       ELSE /\ nsSaver' = [nsSaver EXCEPT ![s] = [at |-> "open", list |-> nsKnown]]
            /\ UNCHANGED <<nsOp, nsFlag>>
    /\ UNCHANGED <<nsLists, nsKnown, nsCount, nsFile, nsTwo, nsTold>>

(* ... the file is emptied, then written; either may fail, and what is written
   while another has the file open is mixed up with the other's.           *)
NsOpens(s) ==
    /\ nsSaver[s].at = "open"
    /\ \/ NsEnds(s) /\ UNCHANGED nsFile
       \/ LET others == {u \in NsSavers : nsSaver[u].at \in {"write", "mixed"}}
              label == IF others = {} THEN "write" ELSE "mixed"
          IN  /\ nsFile' = Unreadable
              /\ nsSaver' = [u \in NsSavers |-> IF u \in others \cup {s}
                                               THEN [nsSaver[u] EXCEPT !.at = label]
                                               ELSE nsSaver[u]]
              /\ UNCHANGED <<nsOp, nsFlag>>
    /\ UNCHANGED <<nsLists, nsKnown, nsCount, nsTwo, nsTold>>

NsWrites(s) ==
    /\ nsSaver[s].at \in {"write", "mixed"} /\ NsEnds(s)
    /\ nsFile' \in {Unreadable, nsSaver[s].list}
    /\ nsTold' = IF s = "stop" /\ nsSaver[s].at = "write"
                    /\ \A c \in NsCallers : nsSaver[c] = NsNoSave THEN nsFile' ELSE nsTold
    /\ UNCHANGED <<nsLists, nsKnown, nsCount, nsTwo>>

NsStops ==
    /\ nsSaver["stop"] = NsNoSave /\ nsSaver' = [nsSaver EXCEPT !["stop"].at = "begin"]
    /\ nsTold' = Unreadable
    /\ UNCHANGED <<nsLists, nsKnown, nsCount, nsFlag, nsOp, nsFile, nsTwo>>

(* The process ends, at any moment, and another one loads the file. *)
NsRestarts ==
    /\ nsKnown' = IF nsFile = Unreadable THEN 0 ELSE nsFile
    /\ nsCount' = 0 /\ nsFlag' = FALSE
    /\ nsOp' = [c \in NsCallers |-> NsAtRest] /\ nsSaver' = [s \in NsSavers |-> NsNoSave]
    /\ nsTwo' = FALSE
    /\ UNCHANGED <<nsLists, nsFile, nsTold>>

NsNext ==
    \/ NsStops \/ NsRestarts
    \/ \E c \in NsCallers : NsCollects(c) \/ NsKeeps(c) \/ NsChecks(c) \/ NsSets(c)
    \/ \E s \in NsSavers : NsSnaps(s) \/ NsOpens(s) \/ NsWrites(s)

NsSpec == NsInit /\ [][NsNext]_nsVars

NsTypeOK ==
    /\ nsLists \in 0..NsListsMax /\ {nsKnown, nsFile, nsTold} \subseteq -1..nsLists
    /\ nsKnown >= 0 /\ nsCount \in 0..1 /\ {nsFlag, nsTwo} \subseteq BOOLEAN
    /\ nsOp \in [NsCallers -> [at : {"idle", "keep", "check", "set", "inline"}, list : 0..nsLists]]
    /\ nsSaver \in [NsSavers -> [at : {"none", "begin", "open", "write", "mixed"},
                                 list : 0..nsLists]]

(* Two threads write the file at once only when two callers came to save at
   once, as the comment of the flag presumes they do not, or at stop.      *)
OneSaver ==
    nsTwo \/ \A c, d \in NsCallers : nsSaver[c].at # "none" /\ nsSaver[d].at # "none" => c = d

(* What stop saved while no other save was under way is what the next start
   finds.                                                                  *)
StopKeepsNodes == nsTold # Unreadable => nsFile = nsTold

-----------------------------------------------------------------------------
(* channels: those of the radio, and the library's copy of them *)

CONSTANTS
    ChCalls,        \* calls that join or delete a channel
    ChSlots,        \* slots besides that of the primary channel
    ChLinksMax      \* bound on connections

ASSUME GatewayChannelsAssumption ==
    /\ {ChSlots, ChLinksMax} \subseteq Nat /\ ChSlots >= 1
    /\ {"primary", "off", "nobody"} \cap ChCalls = {}

VARIABLES
    chRadio,        \* the slots of the device; a call joins the channel it is named for
    chNode,         \* localNode.channels of the interface: none (<<>>) before they are read
    chLink, chLinks,    \* which connection is there, or none (0), and how many there were
    chCache, chFresh,   \* _cached_channels, and it is no older than its limit
    chLock,         \* whose command is at the device
    chOp,           \* calls: what they do and where they are
    chTidy          \* history: since the link came up no call failed or met another

chVars == <<chRadio, chNode, chLink, chLinks, chCache, chFresh, chLock, chOp, chTidy>>
chCached == <<chCache, chFresh>>

ChFirst(slots, content) == CHOOSE i \in DOMAIN slots : /\ slots[i] = content
                                                       /\ \A j \in 1..(i - 1) : slots[j] # content
ChHas(slots, content) == \E i \in DOMAIN slots : slots[i] = content
ChNew == [at |-> "new", kind |-> "none", index |-> 0, slot |-> 0, link |-> 0]
ChBusy(c) == chOp[c].at \notin {"new", "done", "failed"}

(* Slots count from 1, which is the primary channel's. *)
ChAll == 1..(ChSlots + 1)

ChInit ==
    /\ chRadio = [i \in ChAll |-> IF i = 1 THEN "primary" ELSE "off"]
    /\ chNode = <<>> /\ chLink = 0 /\ chLinks = 0
    /\ chCache = <<>> /\ chFresh = FALSE /\ chLock = "nobody"
    /\ chOp = [c \in ChCalls |-> ChNew] /\ chTidy = TRUE

(* A connection begins without channels and reads them; it is lost at any time. *)
ChConnects ==
    /\ chLink = 0 /\ chLinks < ChLinksMax /\ chLock = "nobody"
    /\ chLinks' = chLinks + 1 /\ chLink' = chLinks' /\ chNode' = <<>>
    /\ chTidy' = TRUE
    /\ UNCHANGED <<chRadio, chCached, chLock, chOp>>

ChLoads ==
    /\ chLink # 0 /\ chNode = <<>> /\ chNode' = chRadio
    /\ UNCHANGED <<chRadio, chLink, chLinks, chCached, chLock, chOp, chTidy>>

ChLoses ==
    /\ chLink # 0 /\ chLink' = 0 /\ chNode' = <<>>
    /\ UNCHANGED <<chRadio, chLinks, chCached, chLock, chOp, chTidy>>

(* get_channels and the probe's refresh keep what the interface has, unless that
   is nothing; what is too old is dropped.                                 *)
ChReads ==
    /\ IF chNode # <<>> THEN chCache' = chNode /\ chFresh' = TRUE
       ELSE /\ chFresh' = FALSE                     \* time passes
            /\ chCache' = IF chFresh THEN chCache ELSE <<>>
    /\ UNCHANGED <<chRadio, chNode, chLink, chLinks, chLock, chOp, chTidy>>

ChFails(c) ==
    /\ chOp' = [chOp EXCEPT ![c].at = "failed"] /\ chTidy' = FALSE
ChRefuses(c) ==
    /\ chOp' = [chOp EXCEPT ![c].at = "failed"] /\ UNCHANGED chTidy

ChBegins(c, kind, index) ==
    /\ chOp' = [chOp EXCEPT ![c] = [at |-> IF kind = "join" THEN "chosen" ELSE "asked",
                                    kind |-> kind,
                                    index |-> index, slot |-> index, link |-> chLink]]
    /\ chTidy' = (chTidy /\ \A d \in ChCalls : ~ ChBusy(d))

(* join_channel takes the slot it is given, never the primary channel's, or the
   first that is off ...                                                   *)
ChJoins(c) ==
    /\ chOp[c].at = "new"
    /\ \/ chNode = <<>> /\ ChRefuses(c)
       \/ \E i \in DOMAIN chNode :
              IF chNode[i] = "primary" THEN ChRefuses(c) ELSE ChBegins(c, "join", i)
       \/ /\ chNode # <<>>
          /\ IF ChHas(chNode, "off") THEN ChBegins(c, "join", ChFirst(chNode, "off"))
             ELSE ChRefuses(c)
    /\ UNCHANGED <<chRadio, chNode, chLink, chLinks, chCached, chLock>>

(* ... and changes its entry in the interface's list, wherever that is now. *)
ChChanges(c) ==
    /\ chOp[c].at = "chosen"
    /\ \/ ChRefuses(c) /\ UNCHANGED chNode                  \* a key it cannot use
       \/ /\ chOp' = [chOp EXCEPT ![c].at = "asked"] /\ UNCHANGED chTidy
          /\ chNode' = IF chOp[c].link = chLink /\ chOp[c].slot # 0
                       THEN [chNode EXCEPT ![chOp[c].slot] = c] ELSE chNode
    /\ UNCHANGED <<chRadio, chLink, chLinks, chCached, chLock>>

(* delete_channel, and join_channel_url *)
ChDeletes(c) ==
    /\ chOp[c].at = "new"
    /\ \/ chNode = <<>> /\ ChRefuses(c)
       \/ \E i \in DOMAIN chNode : IF chNode[i] \in {"primary", "off"} THEN ChRefuses(c)
                                   ELSE ChBegins(c, "delete", i)
       \/ chLink # 0 /\ ChBegins(c, "url", 0)
    /\ UNCHANGED <<chRadio, chNode, chLink, chLinks, chCached, chLock>>

(* _invoke_interface_operation: one command at a time, to this interface *)
ChInvokes(c) ==
    /\ chOp[c].at = "asked"
    /\ \/ /\ chOp[c].link = chLink /\ chLock = "nobody" /\ chLock' = c
          /\ chOp' = [chOp EXCEPT ![c].at = "writing"] /\ UNCHANGED chTidy
       \/ ChFails(c) /\ UNCHANGED chLock
    /\ UNCHANGED <<chRadio, chNode, chLink, chLinks, chCached>>

(* The library writes the slots of the list it has now: the one that was asked for;
   or, without the deleted one, that and all that follow; or the first that is
   off, for a channel it does not have.                                    *)
ChShifted(i) == [j \in ChAll |-> CASE j < i -> chNode[j] [] j = ChSlots + 1 -> "off"
                                    [] OTHER -> chNode[j + 1]]
ChLibrary(c) ==
    LET i == chOp[c].index
    IN  CASE chOp[c].kind = "join" -> [list |-> chNode, slots |-> {i}]
          [] chOp[c].kind = "delete" -> [list |-> ChShifted(i), slots |-> i..(ChSlots + 1)]
          [] ChHas(chNode, c) \/ ~ ChHas(chNode, "off") -> [list |-> chNode, slots |-> {}]
          [] OTHER -> LET j == ChFirst(chNode, "off")
                      IN  [list |-> [chNode EXCEPT ![j] = c], slots |-> {j}]
ChWritten(c, slots) ==
    /\ chNode' = ChLibrary(c).list
    /\ chRadio' = [i \in ChAll |-> IF i \in slots THEN chNode'[i] ELSE chRadio[i]]

(* Who chose a slot of the list holds its entry, which a deletion moves. *)
ChMoves(ops, c) ==
    IF chOp[c].kind # "delete" THEN ops
    ELSE [d \in ChCalls |-> [ops[d] EXCEPT !.slot =
             CASE d = c \/ @ < chOp[c].index \/ ops[d].link # chLink -> @
               [] @ = chOp[c].index -> 0
               [] OTHER -> @ - 1]]

ChWrites(c) ==
    /\ chOp[c].at = "writing" /\ chLock' = "nobody"
    /\ \/ /\ chNode # <<>> /\ chOp[c].link = chLink
          /\ ChWritten(c, ChLibrary(c).slots)
          /\ chOp' = ChMoves([chOp EXCEPT ![c].at = "done"], c) /\ UNCHANGED chTidy
       \/ /\ chNode # <<>> /\ chOp[c].link = chLink         \* some slots, and no answer
          /\ \E slots \in SUBSET ChLibrary(c).slots : ChWritten(c, slots)
          /\ chOp' = ChMoves([chOp EXCEPT ![c].at = "failed"], c) /\ chTidy' = FALSE
       \/ ChFails(c) /\ UNCHANGED <<chNode, chRadio>>
    /\ UNCHANGED <<chLink, chLinks, chCached>>

ChNext ==
    \/ ChConnects \/ ChLoads \/ ChLoses \/ ChReads
    \/ \E c \in ChCalls : \/ ChJoins(c) \/ ChChanges(c) \/ ChDeletes(c) \/ ChInvokes(c)
                          \/ ChWrites(c)

ChSpec == ChInit /\ [][ChNext]_chVars

ChLists == [ChAll -> {"primary", "off"} \cup ChCalls]

ChTypeOK ==
    /\ chRadio \in ChLists /\ chNode \in ChLists \cup {<<>>} /\ chCache \in ChLists \cup {<<>>}
    /\ chLink \in {0, chLinks} /\ chLinks \in 0..ChLinksMax
    /\ {chFresh, chTidy} \subseteq BOOLEAN /\ chLock \in ChCalls \cup {"nobody"}
    /\ chOp \in [ChCalls ->
          [at : {"new", "chosen", "asked", "writing", "done", "failed"},
           kind : {"none", "join", "delete", "url"}, index : 0..(ChSlots + 1),
           slot : 0..(ChSlots + 1), link : 0..ChLinksMax]]

(* Whatever calls meet or fail, the primary channel stays where it is. *)
PrimaryIsKept ==
    \A list \in {chRadio, chNode, chCache} : list # <<>> =>
        \A i \in ChAll : list[i] = "primary" <=> i = 1

(* As long as no call failed or met another since the link came up, what is shown
   of the channels is what the radio has.                                  *)
ChannelsAgree ==
    chTidy /\ chLink # 0 /\ chNode # <<>> /\ (\A c \in ChCalls : ~ ChBusy(c)) => chNode = chRadio

-----------------------------------------------------------------------------
(* meshcore: what is sent over the MeshCore radio (meshcore_gateway.py), and how it
   is told that the radio answers                                          *)

CONSTANTS MxMsgs, MxGens   \* messages; bound on connections

ASSUME GatewayMeshCoreAssumption == MxGens \in Nat

VARIABLES
    mxActive,
    mxGen,          \* _connection_generation
    mxLink,         \* the published client: none (0), or the generation it was made under
    mxOn,           \* _connected
    mxMade,         \* connections so far
    mxAnswer,       \* the last response: of which client, and whether it is recent
    mxCheck,        \* the owner's health check: where it is, for which client and generation
    mxHealthy,      \* its verdict
    mxMsg, mxSent,  \* messages: where their senders are; _msgs_sent
    mxAir           \* history: messages the radio was given

mxVars == <<mxActive, mxGen, mxLink, mxOn, mxMade, mxAnswer, mxCheck, mxHealthy, mxMsg, mxSent,
            mxAir>>
mxLinkVars == <<mxActive, mxGen, mxLink, mxOn, mxMade>>

NoAnswer == [link |-> 0, recent |-> FALSE]
MxNoCheck == [at |-> "idle", link |-> 0, gen |-> 0]

MxInit ==
    /\ mxActive = TRUE /\ mxGen = 0 /\ mxLink = 0 /\ mxOn = FALSE /\ mxMade = 0
    /\ mxAnswer = NoAnswer /\ mxCheck = MxNoCheck /\ mxHealthy = FALSE
    /\ mxMsg = [m \in MxMsgs |-> [at |-> "new", link |-> 0, gen |-> 0, result |-> "none"]]
    /\ mxSent = 0 /\ mxAir = {}

(* _connection_is_current, for a client that is to be connected *)
MxIsCurrent(link, gen) == mxActive /\ mxGen = gen /\ mxLink = link /\ mxOn

(* The owner connects, and asks the device once. *)
MxConnects ==
    /\ mxActive /\ mxLink = 0 /\ mxMade < MxGens /\ mxCheck.at = "idle"
    /\ mxMade' = mxMade + 1 /\ mxGen' = mxGen + 1 /\ mxLink' = mxGen' /\ mxOn' = TRUE
    /\ mxAnswer' \in {mxAnswer, [link |-> mxLink', recent |-> TRUE]}
    /\ UNCHANGED <<mxActive, mxCheck, mxHealthy, mxMsg, mxSent, mxAir>>

(* The SDK says that the device is gone; the owner, or stop, closes the client,
   and what it had answered is forgotten.                                  *)
MxLoses ==
    /\ mxActive /\ mxOn /\ mxOn' = FALSE /\ mxGen' = mxGen + 1
    /\ UNCHANGED <<mxActive, mxLink, mxMade, mxAnswer, mxCheck, mxHealthy, mxMsg, mxSent, mxAir>>
MxCloses ==
    /\ mxLink # 0 /\ mxGen' = mxGen + 1 /\ mxOn' = FALSE
    /\ mxActive => mxCheck.at = "idle"
    /\ \/ mxLink' = 0 /\ mxAnswer' = NoAnswer
       \/ UNCHANGED <<mxLink, mxAnswer>>                   \* it could not be closed
    /\ mxGen < 2 * MxGens + 2
    /\ UNCHANGED <<mxActive, mxMade, mxCheck, mxHealthy, mxMsg, mxSent, mxAir>>
MxStops ==
    /\ mxActive /\ mxActive' = FALSE
    /\ UNCHANGED <<mxGen, mxLink, mxOn, mxMade, mxAnswer, mxCheck, mxHealthy, mxMsg, mxSent, mxAir>>

MxAges ==
    /\ mxAnswer.recent /\ mxAnswer' = [mxAnswer EXCEPT !.recent = FALSE]
    /\ UNCHANGED <<mxLinkVars, mxCheck, mxHealthy, mxMsg, mxSent, mxAir>>

(* _check_health: the device is asked; ... *)
MxAsks ==
    /\ mxCheck.at = "idle" /\ mxLink # 0 /\ mxOn
    /\ mxCheck' = [at |-> "asked", link |-> mxLink, gen |-> mxGen]
    /\ UNCHANGED <<mxLinkVars, mxAnswer, mxHealthy, mxMsg, mxSent, mxAir>>

MxVerdict(healthy) == mxHealthy' = healthy /\ mxCheck' = MxNoCheck
MxRecent == mxAnswer.recent

(* ... what it says counts when the client is still the one; a query that fails, or
   says nothing, is excused by a recent answer.                            *)
MxHears ==
    /\ mxCheck.at = "asked" /\ UNCHANGED mxAnswer
    /\ \/ MxVerdict(MxRecent)                              \* the query failed
       \/ ~ MxIsCurrent(mxCheck.link, mxCheck.gen) /\ MxVerdict(FALSE)
       \/ /\ MxIsCurrent(mxCheck.link, mxCheck.gen)
          /\ \/ MxVerdict(MxRecent)                        \* nothing usable
             \/ mxCheck' = [mxCheck EXCEPT !.at = "answered"] /\ UNCHANGED mxHealthy
    /\ UNCHANGED <<mxLinkVars, mxMsg, mxSent, mxAir>>

MxRecords ==
    /\ mxCheck.at = "answered"
    /\ mxAnswer' = [link |-> mxCheck.link, recent |-> TRUE] /\ MxVerdict(TRUE)
    /\ UNCHANGED <<mxLinkVars, mxMsg, mxSent, mxAir>>

MxAnswers(m, result) == mxMsg' = [mxMsg EXCEPT ![m].at = "answered", ![m].result = result]

(* send_message enters the SDK while the link is the one; ... *)
MxEnters(m) ==
    /\ mxMsg[m].at = "new"
    /\ \/ MxAnswers(m, "rate_limited")
       \/ IF mxActive /\ mxOn /\ mxLink # 0
          THEN mxMsg' = [mxMsg EXCEPT ![m] = [at |-> "entered", link |-> mxLink, gen |-> mxGen,
                                              result |-> "none"]]
          ELSE MxAnswers(m, "not_connected")
    /\ UNCHANGED <<mxLinkVars, mxAnswer, mxCheck, mxHealthy, mxSent, mxAir>>

(* ... the radio takes the message, refuses it, or says nothing in time; ... *)
MxRuns(m) ==
    /\ mxMsg[m].at = "entered"
    /\ \E result \in {"taken", "refused", "silent"} :
           /\ mxMsg' = [mxMsg EXCEPT ![m].at = "returned", ![m].result = result]
           /\ mxAir' \in CASE result = "taken" -> {mxAir \cup {m}}
                           [] result = "refused" -> {mxAir}
                           [] OTHER -> {mxAir, mxAir \cup {m}}
    /\ UNCHANGED <<mxLinkVars, mxAnswer, mxCheck, mxHealthy, mxSent>>

(* ... and what an old client says is no proof. *)
MxReturns(m) ==
    /\ mxMsg[m].at = "returned"
    /\ CASE ~ MxIsCurrent(mxMsg[m].link, mxMsg[m].gen) -> MxAnswers(m, "uncertain")
         [] mxMsg[m].result = "silent" -> MxAnswers(m, "disconnected")
         [] mxMsg[m].result = "refused" -> MxAnswers(m, "refused")
         [] OTHER -> mxMsg' = [mxMsg EXCEPT ![m].at = "commit"]
    /\ UNCHANGED <<mxLinkVars, mxAnswer, mxCheck, mxHealthy, mxSent, mxAir>>

MxCommits(m) ==
    /\ mxMsg[m].at = "commit"
    /\ IF MxIsCurrent(mxMsg[m].link, mxMsg[m].gen)
       THEN MxAnswers(m, "sent") /\ mxSent' = mxSent + 1
       ELSE MxAnswers(m, "uncertain") /\ UNCHANGED mxSent
    /\ UNCHANGED <<mxLinkVars, mxAnswer, mxCheck, mxHealthy, mxAir>>

MxNext ==
    \/ MxConnects \/ MxLoses \/ MxCloses \/ MxStops \/ MxAges \/ MxAsks \/ MxHears \/ MxRecords
    \/ \E m \in MxMsgs : MxEnters(m) \/ MxRuns(m) \/ MxReturns(m) \/ MxCommits(m)

MxSpec == MxInit /\ [][MxNext]_mxVars

MxTypeOK ==
    /\ {mxActive, mxOn, mxHealthy} \subseteq BOOLEAN /\ mxMade \in 0..MxGens
    /\ mxGen \in Nat /\ mxLink \in 0..mxGen
    /\ mxAnswer \in [link : 0..mxGen, recent : BOOLEAN]
    /\ mxCheck \in [at : {"idle", "asked", "answered"}, link : 0..mxGen, gen : 0..mxGen]
    /\ mxMsg \in [MxMsgs -> [at : {"new", "entered", "returned", "commit", "answered"},
                             link : 0..mxGen, gen : 0..mxGen,
                             result : {"none", "taken", "refused", "silent", "sent", "uncertain",
                                       "disconnected", "rate_limited", "not_connected"}]]
    /\ mxSent \in 0..Cardinality(MxMsgs) /\ mxAir \subseteq MxMsgs

(* A message the radio may have been given is not answered as if it had not, but
   when the radio of a link that stays up says nothing in time; and those that
   are counted as sent were.                                               *)
MeshCoreAnswers ==
    /\ mxSent = Cardinality({m \in MxMsgs : mxMsg[m].at = "answered" /\ mxMsg[m].result = "sent"})
    /\ \A m \in MxMsgs : mxMsg[m].at = "answered" =>
           /\ mxMsg[m].result = "sent" => m \in mxAir
           /\ mxMsg[m].result \in {"refused", "rate_limited", "not_connected"} => m \notin mxAir

(* An answer that excuses a later silence is that of the client that is asked, not
   of one before it.                                                       *)
AnswerIsOfThisClient ==
    mxAnswer.recent => mxAnswer.link = mxLink \/ ~ mxActive

-----------------------------------------------------------------------------
(* heard: what comes in over the MeshCore radio, often more than once *)

CONSTANTS
    MdMsgs,         \* messages, each of a sender of its own
    MdTtl, MdCap,   \* dedup_ttl_seconds, dedup_max_entries
    MdTimeMax       \* bound on the clock

ASSUME GatewayHeardAssumption == {MdTtl, MdCap, MdTimeMax} \subseteq Nat

VARIABLES
    mdNow,
    mdKnown, mdFile,    \* senders in the contact cache, and in its file
    mdSeen,         \* _seen_msg_keys: when a message was seen, of a sender known or not
    mdLast,         \* history: when it was published last, and of a sender known or not
    mdTrimmed,      \* history: the cap dropped a key that was not outdated
    mdAgain         \* history: messages that were published again too soon

mdVars == <<mdNow, mdKnown, mdFile, mdSeen, mdLast, mdTrimmed, mdAgain>>

MdKeys == MdMsgs \X BOOLEAN
Never == -1

MdInit ==
    /\ mdNow = 0 /\ mdKnown = {} /\ mdFile = {}
    /\ mdSeen = [k \in MdKeys |-> Never] /\ mdLast = [k \in MdKeys |-> Never]
    /\ mdTrimmed = FALSE /\ mdAgain = {}

MdTicks ==
    /\ mdNow < MdTimeMax /\ mdNow' = mdNow + 1
    /\ UNCHANGED <<mdKnown, mdFile, mdSeen, mdLast, mdTrimmed, mdAgain>>

(* A contact is learned: from its advert and the contacts that are fetched, which
   are saved (or not), or when they are asked for, which are not.          *)
MdLearns(m) ==
    /\ mdKnown' = mdKnown \cup {m} /\ mdFile' \in {mdFile, mdKnown', {}}
    /\ UNCHANGED <<mdNow, mdSeen, mdLast, mdTrimmed, mdAgain>>

MdRestarts ==
    /\ mdKnown' = mdFile /\ mdSeen' = [k \in MdKeys |-> Never]
    /\ mdLast' = [k \in MdKeys |-> Never]
    /\ UNCHANGED <<mdNow, mdFile, mdTrimmed, mdAgain>>

MdOld(t) == t = Never \/ t <= mdNow - MdTtl

(* What is over the cap is dropped, the oldest first: the outdated, then others. *)
MdTrims(seen) ==
    LET fresh == {k \in MdKeys : ~ MdOld(seen[k])}
        kept == IF Cardinality(fresh) <= MdCap THEN {fresh}
                ELSE {s \in SUBSET fresh : /\ Cardinality(s) = MdCap
                                           /\ \A k \in s, l \in fresh \ s : seen[k] >= seen[l]}
    IN  {[k \in MdKeys |-> IF k \in s THEN seen[k] ELSE Never] : s \in kept}
MdSize(seen) == Cardinality({k \in MdKeys : seen[k] # Never})

(* The sender is named by its key when that is known, and by what it calls itself
   in the text when not.                                                   *)
MdKey(m) == <<m, m \in mdKnown>>

(* _handle_incoming_message; the keys are cleaned up now and then, too. *)
MdHears(m) ==
    /\ IF ~ MdOld(mdSeen[MdKey(m)]) THEN UNCHANGED <<mdSeen, mdLast, mdTrimmed, mdAgain>>
       ELSE LET seen == [mdSeen EXCEPT ![MdKey(m)] = mdNow]
            IN  /\ mdSeen' \in (IF MdSize(seen) > MdCap THEN {} ELSE {seen}) \cup MdTrims(seen)
                /\ mdTrimmed' = \/ mdTrimmed
                                 \/ \E k \in MdKeys : ~ MdOld(seen[k]) /\ mdSeen'[k] = Never
                /\ mdLast' = [mdLast EXCEPT ![MdKey(m)] = mdNow]
                /\ mdAgain' = mdAgain \cup (IF MdOld(mdLast[MdKey(m)]) THEN {} ELSE {m})
    /\ UNCHANGED <<mdNow, mdKnown, mdFile>>

MdNext == MdTicks \/ MdRestarts \/ \E m \in MdMsgs : MdLearns(m) \/ MdHears(m)

MdSpec == MdInit /\ [][MdNext]_mdVars

MdTypeOK ==
    /\ mdNow \in 0..MdTimeMax /\ mdKnown \subseteq MdMsgs /\ mdFile \subseteq MdMsgs
    /\ mdSeen \in [MdKeys -> Never..mdNow] /\ mdLast \in [MdKeys -> Never..mdNow]
    /\ mdTrimmed \in BOOLEAN /\ mdAgain \subseteq MdMsgs
    /\ MdSize(mdSeen) <= MdCap

(* A message that is heard again within the limit is published once, unless there
   were more messages than the cap, its sender became known in between or the
   process was restarted.                                                  *)
HeardOnce == mdTrimmed \/ mdAgain = {}

=============================================================================
