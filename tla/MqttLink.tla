------------------------------ MODULE MqttLink -------------------------------
(***************************************************************************)
(* The MQTT side of builtin_plugins/meshtastic_gateway.py: the client that *)
(* wraps paho (_MeshtasticMQTTClient) and the gateway's connection loop.   *)
(* Three threads meet here: the loop, which builds, watches and replaces   *)
(* clients; paho's thread of each client, which reports what happens to    *)
(* the session; and stop.  A report is made when it is delivered, so it    *)
(* may concern a client the gateway has not published yet or has already   *)
(* given up.                                                               *)
(*                                                                         *)
(* A client is a slot; the slot of a client that is closed and whose loop  *)
(* thread has ended stands for the next object.                            *)
(***************************************************************************)
EXTENDS Integers, FiniteSets

CONSTANTS
    MqClients,      \* slots for client objects
    MqMaxAttempts   \* max_reconnect_attempts (0 is no limit)

ASSUME MqttLinkAssumption == MqMaxAttempts \in Nat

VARIABLES
    mqPc,        \* where the connection loop is
    mqHeld,      \* clients the loop is building or closing, {} or one
    mqStop,      \* where stop is: "no", "set", "closing", "done"
    mqStopHeld,  \* the clients stop closes
    mqIface,     \* _mesh_interface, {} or one
    mqOn,        \* _connected
    mqGrace,     \* _last_disconnect_time is within the grace period
    mqFails,     \* _reconnect_failures
    mqSuspended, \* _mqtt_suspended
    mqNet,       \* internet_available
    mqSess,      \* the session of a client
    mqCall,      \* reports a client's paho thread is about to make
    mqAck,       \* the CONNACK of a client: "none", "ok", "failed"
    mqLoops,     \* clients whose paho thread runs
    mqClosed,    \* _closed
    mqFinal      \* clients that only the finalizer can still clean up

mqVars == <<mqPc, mqHeld, mqStop, mqStopHeld, mqIface, mqOn, mqGrace, mqFails, mqSuspended,
            mqNet, mqSess, mqCall, mqAck, mqLoops, mqClosed, mqFinal>>

gateVars == <<mqIface, mqOn, mqGrace, mqFails, mqSuspended>>
pahoVars == <<mqSess, mqCall, mqAck, mqLoops>>

MqActive == mqStop = "no"

MqInit ==
    /\ mqPc = "top" /\ mqHeld = {} /\ mqStop = "no" /\ mqStopHeld = {}
    /\ mqIface = {} /\ mqOn = FALSE /\ mqGrace = FALSE /\ mqFails = 0 /\ mqSuspended = FALSE
    /\ mqNet = TRUE
    /\ mqSess = [c \in MqClients |-> "down"]
    /\ mqCall = [c \in MqClients |-> "none"]
    /\ mqAck = [c \in MqClients |-> "none"]
    /\ mqLoops = {} /\ mqClosed = {} /\ mqFinal = {}

-----------------------------------------------------------------------------
(* paho's thread *)

(* _on_connect, up to the release of the lock: a session is accepted, with
   its subscription, or not; a closed client reports nothing any more.     *)
OnConnect(c) ==
    /\ c \in mqLoops /\ mqSess[c] = "down" /\ mqCall[c] = "none"
    /\ \E accepted \in BOOLEAN :
          /\ mqSess' = [mqSess EXCEPT ![c] = IF accepted THEN "up" ELSE "down"]
          /\ IF c \in mqClosed
             THEN UNCHANGED <<mqAck, mqCall>>
             ELSE /\ mqAck' = [mqAck EXCEPT ![c] = IF accepted THEN "ok" ELSE "failed"]
                  /\ mqCall' = [mqCall EXCEPT ![c] = IF accepted THEN "established" ELSE "none"]
    /\ UNCHANGED <<gateVars, mqPc, mqHeld, mqStop, mqStopHeld, mqNet, mqLoops, mqClosed, mqFinal>>

(* The session is lost; paho tries again by itself. *)
SessionLost(c) ==
    /\ c \in mqLoops /\ mqSess[c] = "up" /\ mqCall[c] = "none"
    /\ mqSess' = [mqSess EXCEPT ![c] = "down"]
    /\ mqCall' = [mqCall EXCEPT ![c] = "lost"]
    /\ UNCHANGED <<gateVars, mqPc, mqHeld, mqStop, mqStopHeld, mqNet, mqAck, mqLoops, mqClosed,
                   mqFinal>>

(* _on_mesh_connect: only the published client, and only when it was off *)
OnMeshConnect(c) ==
    /\ mqCall[c] = "established"
    /\ mqCall' = [mqCall EXCEPT ![c] = "none"]
    /\ IF c \in mqIface /\ ~mqOn
       THEN mqOn' = TRUE /\ mqSuspended' = FALSE
       ELSE UNCHANGED <<mqOn, mqSuspended>>
    /\ UNCHANGED <<mqPc, mqHeld, mqStop, mqStopHeld, mqIface, mqGrace, mqFails, mqNet, mqSess,
                   mqAck, mqLoops, mqClosed, mqFinal>>

OnMeshDisconnectAny(c) ==
    /\ mqCall[c] = "lost"
    /\ mqCall' = [mqCall EXCEPT ![c] = "none"]
    /\ mqOn' = FALSE /\ mqGrace' = TRUE /\ mqIface' = {}
    /\ UNCHANGED <<mqPc, mqHeld, mqStop, mqStopHeld, mqFails, mqSuspended, mqNet, mqSess, mqAck,
                   mqLoops, mqClosed, mqFinal>>

(* _on_mesh_disconnect: only the published client *)
OnMeshDisconnect(c) ==
    /\ mqCall[c] = "lost"
    /\ mqCall' = [mqCall EXCEPT ![c] = "none"]
    /\ IF c \in mqIface
       THEN mqOn' = FALSE /\ mqGrace' = TRUE
       ELSE UNCHANGED <<mqOn, mqGrace>>
    /\ UNCHANGED <<mqPc, mqHeld, mqStop, mqStopHeld, mqIface, mqFails, mqSuspended, mqNet,
                   mqSess, mqAck, mqLoops, mqClosed, mqFinal>>

-----------------------------------------------------------------------------
(* Closing a client *)

CloseDetached(cs) ==
    LET open == cs \ mqClosed IN
    /\ \A c \in open : mqCall[c] = "none" \/ c \notin mqLoops
    /\ mqClosed' = mqClosed \cup open
    /\ \/ mqLoops' = mqLoops \ open
       \/ open # {} /\ mqLoops' = mqLoops
    /\ mqFinal' = mqFinal
    /\ mqSess' = [c \in MqClients |-> IF c \in open THEN "down" ELSE mqSess[c]]
    /\ mqAck' = [c \in MqClients |-> IF c \in open THEN "none" ELSE mqAck[c]]

(* close for the clients of cs: loop_stop joins paho's thread after its
   report in progress, then disconnect; a failure of either leaves the rest
   to the finalizer.  A second close does nothing.                         *)
Close(cs) ==
    LET open == cs \ mqClosed IN
    /\ \A c \in open : mqCall[c] = "none" \/ c \notin mqLoops
    /\ mqClosed' = mqClosed \cup open
    /\ \/ mqLoops' = mqLoops \ open /\ mqFinal' = mqFinal
       \/ open # {} /\ mqLoops' = mqLoops /\ mqFinal' = mqFinal \cup open
    /\ mqSess' = [c \in MqClients |-> IF c \in open THEN "down" ELSE mqSess[c]]
    /\ mqAck' = [c \in MqClients |-> IF c \in open THEN "none" ELSE mqAck[c]]

(* _safe_shutdown_client, when the object is collected: nobody holds it *)
Finalize(c) ==
    /\ c \in mqFinal \ (mqHeld \cup mqStopHeld \cup mqIface)
    /\ mqFinal' = mqFinal \ {c}
    /\ mqLoops' = mqLoops \ {c}
    /\ mqSess' = [mqSess EXCEPT ![c] = "down"]
    /\ mqCall' = [mqCall EXCEPT ![c] = "none"]
    /\ UNCHANGED <<gateVars, mqPc, mqHeld, mqStop, mqStopHeld, mqNet, mqAck, mqClosed>>

-----------------------------------------------------------------------------
(* The connection loop *)

(* The top of _connection_loop: leave when stopped, wait for the internet,
   watch a connection that is up, leave a lost one to paho while the grace
   period lasts, otherwise give the old client up and build one.           *)
LoopTop ==
    /\ mqPc = "top"
    /\ \/ ~MqActive /\ mqPc' = "ended" /\ UNCHANGED <<mqHeld, mqIface, mqOn>>
       \/ MqActive /\ ~mqNet /\ mqPc' = "top" /\ UNCHANGED <<mqHeld, mqIface, mqOn>>
       \/ MqActive /\ mqNet /\ mqOn /\ mqPc' = "watch" /\ UNCHANGED <<mqHeld, mqIface, mqOn>>
       \/ /\ MqActive /\ mqNet /\ ~mqOn /\ mqIface # {} /\ mqGrace
          /\ mqPc' = "grace" /\ UNCHANGED <<mqHeld, mqIface, mqOn>>
       \/ /\ MqActive /\ mqNet /\ ~mqOn /\ (mqIface = {} \/ ~mqGrace)
          /\ mqPc' = "drop"
          /\ mqHeld' = mqIface /\ mqIface' = {} /\ mqOn' = FALSE     \* _close_mesh_interface
    /\ UNCHANGED <<pahoVars, mqStop, mqStopHeld, mqGrace, mqFails, mqSuspended, mqNet, mqClosed,
                   mqFinal>>

(* The sleep of the grace period *)
GraceSlept ==
    /\ mqPc = "grace"
    /\ mqFails' = IF mqOn THEN 0 ELSE mqFails
    /\ mqPc' = "top"
    /\ UNCHANGED <<pahoVars, mqHeld, mqStop, mqStopHeld, mqIface, mqOn, mqGrace, mqSuspended,
                   mqNet, mqClosed, mqFinal>>

(* The grace period runs out. *)
GraceOver ==
    /\ mqGrace
    /\ mqGrace' = FALSE
    /\ UNCHANGED <<pahoVars, mqPc, mqHeld, mqStop, mqStopHeld, mqIface, mqOn, mqFails,
                   mqSuspended, mqNet, mqClosed, mqFinal>>

(* The old client is closed, outside the lock. *)
LoopCloses ==
    /\ mqPc \in {"drop", "unhealthy"}
    /\ Close(mqHeld)
    /\ mqHeld' = {}
    /\ mqPc' = IF mqPc = "drop" THEN "build" ELSE "top"
    /\ UNCHANGED <<gateVars, mqStop, mqStopHeld, mqNet, mqCall>>

(* The constructor: the connect call fails at once, or paho's thread starts
   and the CONNACK is awaited.                                             *)
Construct ==
    /\ mqPc = "build"
    /\ \E c \in MqClients \ (mqLoops \cup mqFinal \cup mqStopHeld \cup mqIface) :
          /\ mqHeld' = {c}
          /\ mqClosed' = mqClosed \ {c}
          /\ \/ mqLoops' = mqLoops \cup {c} /\ mqPc' = "connack"
             \/ mqLoops' = mqLoops /\ mqPc' = "refused"
    /\ UNCHANGED <<gateVars, mqStop, mqStopHeld, mqNet, mqSess, mqCall, mqAck, mqFinal>>

(* The CONNACK arrived, or its timeout did *)
Connack ==
    /\ mqPc = "connack"
    /\ \E c \in mqHeld :
          \/ mqAck[c] = "ok" /\ mqPc' = "publish"
          \/ mqAck[c] = "failed" /\ mqPc' = "refused"
          \/ mqPc' = "refused"
    /\ UNCHANGED <<gateVars, pahoVars, mqHeld, mqStop, mqStopHeld, mqNet, mqClosed, mqFinal>>

PublishStopped ==
    /\ mqPc = "publish"
    /\ mqIface' = mqHeld /\ mqHeld' = {}
    /\ mqOn' = TRUE /\ mqSuspended' = FALSE /\ mqFails' = 0
    /\ mqPc' = "watch"
    /\ UNCHANGED <<pahoVars, mqStop, mqStopHeld, mqGrace, mqNet, mqClosed, mqFinal>>

(* _connect_mesh_device publishes the client, unless stop came first *)
PublishClient ==
    /\ mqPc = "publish"
    /\ IF MqActive
       THEN /\ mqIface' = mqHeld /\ mqHeld' = {}
            /\ mqOn' = TRUE /\ mqSuspended' = FALSE /\ mqFails' = 0
            /\ mqPc' = "watch"
       ELSE /\ mqPc' = "refused"
            /\ UNCHANGED <<mqIface, mqHeld, mqOn, mqSuspended, mqFails>>
    /\ UNCHANGED <<pahoVars, mqStop, mqStopHeld, mqGrace, mqNet, mqClosed, mqFinal>>

(* A client that failed is closed before the error is raised, and the error
   is counted; too many in a row suspend the loop for ten minutes.         *)
Refused ==
    /\ mqPc = "refused"
    /\ Close(mqHeld)
    /\ mqHeld' = {}
    /\ IF MqActive
       THEN LET n == IF MqMaxAttempts = 0 THEN 0 ELSE mqFails + 1 IN
            /\ mqFails' = n
            /\ IF n > 0 /\ n >= MqMaxAttempts
               THEN mqSuspended' = TRUE /\ mqPc' = "suspended"
               ELSE mqPc' = "backoff" /\ UNCHANGED mqSuspended
       ELSE mqPc' = "ended" /\ UNCHANGED <<mqFails, mqSuspended>>
    /\ UNCHANGED <<mqStop, mqStopHeld, mqIface, mqOn, mqGrace, mqNet, mqCall>>

SleptForEver ==
    /\ mqPc = "backoff"
    /\ mqPc' = "top"
    /\ UNCHANGED <<pahoVars, mqHeld, mqStop, mqStopHeld, mqIface, mqOn, mqGrace, mqFails,
                   mqSuspended, mqNet, mqClosed, mqFinal>>

(* The sleeps after an error *)
Slept ==
    /\ mqPc \in {"backoff", "suspended"}
    /\ mqFails' = IF mqPc = "suspended" THEN 0 ELSE mqFails
    /\ mqPc' = "top"
    /\ UNCHANGED <<pahoVars, mqHeld, mqStop, mqStopHeld, mqIface, mqOn, mqGrace, mqSuspended,
                   mqNet, mqClosed, mqFinal>>

WatchTrusts ==
    /\ mqPc = "watch"
    /\ mqPc' = "top"
    /\ UNCHANGED <<pahoVars, mqHeld, mqIface, mqOn, mqStop, mqStopHeld, mqGrace, mqFails,
                   mqSuspended, mqNet, mqClosed, mqFinal>>

(* The health check after the interval: a connection the gateway believes in
   whose session is down is given up.                                      *)
Watch ==
    /\ mqPc = "watch"
    /\ IF mqOn /\ \A c \in mqIface : mqSess[c] = "down"
       THEN /\ mqPc' = "unhealthy"
            /\ mqHeld' = mqIface /\ mqIface' = {} /\ mqOn' = FALSE
       ELSE mqPc' = "top" /\ UNCHANGED <<mqHeld, mqIface, mqOn>>
    /\ UNCHANGED <<pahoVars, mqStop, mqStopHeld, mqGrace, mqFails, mqSuspended, mqNet, mqClosed,
                   mqFinal>>

-----------------------------------------------------------------------------
(* The rest of the gateway *)

(* on_internet_available, on_internet_lost *)
InternetChanges ==
    /\ MqActive
    /\ mqNet' = ~mqNet
    /\ IF ~mqNet /\ mqSuspended
       THEN mqSuspended' = FALSE /\ mqFails' = 0
       ELSE UNCHANGED <<mqSuspended, mqFails>>
    /\ UNCHANGED <<pahoVars, mqPc, mqHeld, mqStop, mqStopHeld, mqIface, mqOn, mqGrace, mqClosed,
                   mqFinal>>

(* stop: the flag, then the published client is taken, then closed *)
MqStops ==
    /\ \/ mqStop = "no" /\ mqStop' = "set"
          /\ UNCHANGED <<mqStopHeld, mqIface, mqOn, mqLoops, mqClosed, mqFinal, mqSess, mqAck>>
       \/ mqStop = "set" /\ mqStop' = "closing"
          /\ mqStopHeld' = mqIface /\ mqIface' = {} /\ mqOn' = FALSE
          /\ UNCHANGED <<mqLoops, mqClosed, mqFinal, mqSess, mqAck>>
       \/ mqStop = "closing" /\ mqStop' = "done"
          /\ Close(mqStopHeld) /\ mqStopHeld' = {}
          /\ UNCHANGED <<mqIface, mqOn>>
    /\ UNCHANGED <<mqPc, mqHeld, mqGrace, mqFails, mqSuspended, mqNet, mqCall>>

LoopStep == LoopTop \/ GraceSlept \/ LoopCloses \/ Construct \/ Connack \/ PublishClient
            \/ Refused \/ Slept \/ Watch
Reports(c) == OnMeshConnect(c) \/ OnMeshDisconnect(c)

MqNext ==
    \/ LoopStep \/ GraceOver \/ InternetChanges \/ MqStops
    \/ \E c \in MqClients : OnConnect(c) \/ SessionLost(c) \/ Reports(c) \/ Finalize(c)

MqSpec == MqInit /\ [][MqNext]_mqVars

-----------------------------------------------------------------------------

MqTypeOK ==
    /\ mqPc \in {"top", "grace", "drop", "build", "connack", "publish", "refused", "backoff",
                 "suspended", "watch", "unhealthy", "ended"}
    /\ mqStop \in {"no", "set", "closing", "done"}
    /\ \A s \in {mqHeld, mqStopHeld, mqIface} : s \subseteq MqClients /\ Cardinality(s) <= 1
    /\ {mqOn, mqGrace, mqSuspended, mqNet} \subseteq BOOLEAN
    /\ mqFails \in 0..MqMaxAttempts
    /\ mqSess \in [MqClients -> {"up", "down"}]
    /\ mqCall \in [MqClients -> {"none", "established", "lost"}]
    /\ mqAck \in [MqClients -> {"none", "ok", "failed"}]
    /\ mqLoops \cup mqClosed \cup mqFinal \subseteq MqClients

(* Every paho thread belongs to the client the gateway publishes, builds or
   closes, or to one whose finalizer will still stop it: the rebuild of a
   lost connection leaks no thread.                                        *)
PahoThreadIsOwned ==
    mqLoops \subseteq mqIface \cup mqHeld \cup mqStopHeld \cup mqFinal

(* What the gateway publishes is open, and a gateway that has stopped has
   nothing left: a client whose construction stop overtook is closed by the
   thread that built it.                                                   *)
StoppedLinkIsDown ==
    /\ mqIface \cap mqClosed = {}
    /\ mqStop = "done" /\ mqPc = "ended" => mqIface = {} /\ ~mqOn /\ mqLoops \subseteq mqFinal

(* A connection the gateway believes in although its session is down (the
   report came before the client was published) is noticed.                *)
DeadLinkNoticed ==
    (mqOn /\ \A c \in mqIface : mqSess[c] = "down")
        ~> (~mqOn \/ (\E c \in mqIface : mqSess[c] = "up") \/ ~MqActive \/ ~mqNet)

(* A suspension ends: the loop tries again unless it is stopped. *)
SuspensionEnds == mqPc = "suspended" ~> mqPc # "suspended"

(* Every thread of the MQTT client belongs to a session that is closed in the end, and
   a stopped link stays down. *)
BrokerSessionsEnd ==
    /\ MqTypeOK
    /\ PahoThreadIsOwned
    /\ StoppedLinkIsDown

=============================================================================
