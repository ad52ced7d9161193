---- MODULE MCRadios ----
(* Instance for TLC: safety of several components.  A behaviour follows the
   component its focus names and leaves the others in their initial states. *)
EXTENDS DirectDecoder, FmReceiver, SerialRegistry, PacketIds, MeshtasticSerial,
        FirmwareRecovery, MqttLink, MeshTraffic, ResetLimiter, HealthProbe, MeshCoreLink,
        MeshCoreObserver, MeshBridge, TLC

VARIABLE focus

CSrKeys == [e \in SrEndpoints |-> {e, "usb"}]

MCInit ==
    /\ focus \in {"direct_decoder", "fm_receiver", "serial_registry", "packet_ids",
           "meshtastic_serial", "firmware_recovery", "mqtt_link", "traffic_out", "traffic_in",
           "traffic_seen", "traffic_nodes", "reset_limiter", "health_probe", "mesh_core_link",
           "observer_own", "observer_shared", "observer_broker", "bridge", "responder"}
    /\ DdInit
    /\ FmInit
    /\ SrInit
    /\ IdInit
    /\ focus # "packet_ids" => numFile = 0
    /\ SerInit
    /\ RecInit
    /\ MqInit
    /\ OutInit
    /\ InInit
    /\ SeenInit
    /\ NodeInit
    /\ RlInit
    /\ HpInit
    /\ McInit
    /\ McInit
    /\ ObInit
    /\ OmInit
    /\ MbInit
    /\ MrInit

OnlyDirectDecoder ==
    /\ focus = "direct_decoder" /\ DdNext
    /\ UNCHANGED <<focus, fmVars, srVars, idVars, serVars, recVars, mqVars, outVars, inVars,
                   seenVars, nodeVars, rlVars, hpVars, mcVars, mcVars, obVars, omVars, mbVars,
                   mrVars>>

OnlyFmReceiver ==
    /\ focus = "fm_receiver" /\ FmNext
    /\ UNCHANGED <<focus, ddVars, srVars, idVars, serVars, recVars, mqVars, outVars, inVars,
                   seenVars, nodeVars, rlVars, hpVars, mcVars, mcVars, obVars, omVars, mbVars,
                   mrVars>>

OnlySerialRegistry ==
    /\ focus = "serial_registry" /\ SrNext
    /\ UNCHANGED <<focus, ddVars, fmVars, idVars, serVars, recVars, mqVars, outVars, inVars,
                   seenVars, nodeVars, rlVars, hpVars, mcVars, mcVars, obVars, omVars, mbVars,
                   mrVars>>

OnlyPacketIds ==
    /\ focus = "packet_ids" /\ IdNext
    /\ UNCHANGED <<focus, ddVars, fmVars, srVars, serVars, recVars, mqVars, outVars, inVars,
                   seenVars, nodeVars, rlVars, hpVars, mcVars, mcVars, obVars, omVars, mbVars,
                   mrVars>>

OnlyMeshtasticSerial ==
    /\ focus = "meshtastic_serial" /\ SerNext
    /\ UNCHANGED <<focus, ddVars, fmVars, srVars, idVars, recVars, mqVars, outVars, inVars,
                   seenVars, nodeVars, rlVars, hpVars, mcVars, mcVars, obVars, omVars, mbVars,
                   mrVars>>

OnlyFirmwareRecovery ==
    /\ focus = "firmware_recovery" /\ RecNext
    /\ UNCHANGED <<focus, ddVars, fmVars, srVars, idVars, serVars, mqVars, outVars, inVars,
                   seenVars, nodeVars, rlVars, hpVars, mcVars, mcVars, obVars, omVars, mbVars,
                   mrVars>>

OnlyMqttLink ==
    /\ focus = "mqtt_link" /\ MqNext
    /\ UNCHANGED <<focus, ddVars, fmVars, srVars, idVars, serVars, recVars, outVars, inVars,
                   seenVars, nodeVars, rlVars, hpVars, mcVars, mcVars, obVars, omVars, mbVars,
                   mrVars>>

OnlyTrafficOut ==
    /\ focus = "traffic_out" /\ OutNext
    /\ UNCHANGED <<focus, ddVars, fmVars, srVars, idVars, serVars, recVars, mqVars, inVars,
                   seenVars, nodeVars, rlVars, hpVars, mcVars, mcVars, obVars, omVars, mbVars,
                   mrVars>>

OnlyTrafficIn ==
    /\ focus = "traffic_in" /\ InNext
    /\ UNCHANGED <<focus, ddVars, fmVars, srVars, idVars, serVars, recVars, mqVars, outVars,
                   seenVars, nodeVars, rlVars, hpVars, mcVars, mcVars, obVars, omVars, mbVars,
                   mrVars>>

OnlyTrafficSeen ==
    /\ focus = "traffic_seen" /\ SeenNext
    /\ UNCHANGED <<focus, ddVars, fmVars, srVars, idVars, serVars, recVars, mqVars, outVars,
                   inVars, nodeVars, rlVars, hpVars, mcVars, mcVars, obVars, omVars, mbVars,
                   mrVars>>

OnlyTrafficNodes ==
    /\ focus = "traffic_nodes" /\ NodeNext
    /\ UNCHANGED <<focus, ddVars, fmVars, srVars, idVars, serVars, recVars, mqVars, outVars,
                   inVars, seenVars, rlVars, hpVars, mcVars, mcVars, obVars, omVars, mbVars,
                   mrVars>>

OnlyResetLimiter ==
    /\ focus = "reset_limiter" /\ RlNext
    /\ UNCHANGED <<focus, ddVars, fmVars, srVars, idVars, serVars, recVars, mqVars, outVars,
                   inVars, seenVars, nodeVars, hpVars, mcVars, mcVars, obVars, omVars, mbVars,
                   mrVars>>

OnlyHealthProbe ==
    /\ focus = "health_probe" /\ HpNext
    /\ UNCHANGED <<focus, ddVars, fmVars, srVars, idVars, serVars, recVars, mqVars, outVars,
                   inVars, seenVars, nodeVars, rlVars, mcVars, mcVars, obVars, omVars, mbVars,
                   mrVars>>

OnlyMeshCoreLink ==
    /\ focus = "mesh_core_link" /\ McNext
    /\ UNCHANGED <<focus, ddVars, fmVars, srVars, idVars, serVars, recVars, mqVars, outVars,
                   inVars, seenVars, nodeVars, rlVars, hpVars, obVars, omVars, mbVars, mrVars>>

OnlyObserverOwn ==
    /\ focus = "observer_own" /\ StandaloneNext
    /\ UNCHANGED <<focus, ddVars, fmVars, srVars, idVars, serVars, recVars, mqVars, outVars,
                   inVars, seenVars, nodeVars, rlVars, hpVars, obVars, omVars, mbVars, mrVars>>

OnlyObserverShared ==
    /\ focus = "observer_shared" /\ ObNext
    /\ UNCHANGED <<focus, ddVars, fmVars, srVars, idVars, serVars, recVars, mqVars, outVars,
                   inVars, seenVars, nodeVars, rlVars, hpVars, mcVars, mcVars, omVars, mbVars,
                   mrVars>>

OnlyObserverBroker ==
    /\ focus = "observer_broker" /\ OmNext
    /\ UNCHANGED <<focus, ddVars, fmVars, srVars, idVars, serVars, recVars, mqVars, outVars,
                   inVars, seenVars, nodeVars, rlVars, hpVars, mcVars, mcVars, obVars, mbVars,
                   mrVars>>

OnlyBridge ==
    /\ focus = "bridge" /\ MbNext
    /\ UNCHANGED <<focus, ddVars, fmVars, srVars, idVars, serVars, recVars, mqVars, outVars,
                   inVars, seenVars, nodeVars, rlVars, hpVars, mcVars, mcVars, obVars, omVars,
                   mrVars>>

OnlyResponder ==
    /\ focus = "responder" /\ MrNext
    /\ UNCHANGED <<focus, ddVars, fmVars, srVars, idVars, serVars, recVars, mqVars, outVars,
                   inVars, seenVars, nodeVars, rlVars, hpVars, mcVars, mcVars, obVars, omVars,
                   mbVars>>

MCNext ==
    \/ OnlyDirectDecoder
    \/ OnlyFmReceiver
    \/ OnlySerialRegistry
    \/ OnlyPacketIds
    \/ OnlyMeshtasticSerial
    \/ OnlyFirmwareRecovery
    \/ OnlyMqttLink
    \/ OnlyTrafficOut
    \/ OnlyTrafficIn
    \/ OnlyTrafficSeen
    \/ OnlyTrafficNodes
    \/ OnlyResetLimiter
    \/ OnlyHealthProbe
    \/ OnlyMeshCoreLink
    \/ OnlyObserverOwn
    \/ OnlyObserverShared
    \/ OnlyObserverBroker
    \/ OnlyBridge
    \/ OnlyResponder

MCVars == <<focus, ddVars, fmVars, srVars, idVars, serVars, recVars, mqVars, outVars, inVars,
            seenVars, nodeVars, rlVars, hpVars, mcVars, mcVars, obVars, omVars, mbVars, mrVars>>

MCSpec == MCInit /\ [][MCNext]_MCVars

(* A radio that stops answering is reset once per epoch by one recovery at a time and,
   over crashes and clock changes, never more often than its limit allows; health
   probes hold one slot each and verify only the interface they were sent through. *)
RecoveryBounded ==
    /\ [](focus = "firmware_recovery" => RecTypeOK)
    /\ [](focus = "firmware_recovery" => ResetsPerEpoch)
    /\ [](focus = "firmware_recovery" => OneRecovery)
    /\ RecoveredHasAnswered
    /\ [](focus = "reset_limiter" => RlTypeOK)
    /\ [](focus = "reset_limiter" => RollingLimit)
    /\ [](focus = "health_probe" => HpTypeOK)
    /\ [](focus = "health_probe" => SlotsAreFlights)
    /\ [](focus = "health_probe" => NoHandlerLeft)
    /\ VerifiedIsCurrent

Symmetric == Permutations(SrThreads) \cup Permutations(SrPaths) \cup Permutations(SrEndpoints) \cup Permutations(RlProcs) \cup Permutations(MbJobs) \cup Permutations(MbTexts)
====
