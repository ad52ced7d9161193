---- MODULE MCLiveRadios ----
(* Instance for TLC: liveness of several components.  A behaviour follows the
   component its focus names and leaves the others in their initial states. *)
EXTENDS SdrScheduler, DirectDecoder, FmReceiver, MeshtasticSerial, FirmwareRecovery, MqttLink,
        MeshTraffic, HealthProbe, MessagingHub, MeshCoreLink, MeshCoreObserver, TLC

VARIABLE focus

COwner == [r \in Regs |-> r]
CPrio == [c \in {Owner[r] : r \in Regs} |-> IF c = "wx" THEN 0 ELSE 2]
CGens == 1 .. 16
CIds == 1 .. 16
CRadio == [m \in Msgs |-> "lxmf"]
CKind == [r \in {"lxmf"} |-> "lxmf"]

MCInit ==
    /\ focus \in {"sdr_scheduler", "direct_decoder", "fm_receiver", "meshtastic_serial",
           "firmware_recovery", "mqtt_link", "traffic_out", "traffic_in", "health_probe",
           "messaging_hub", "mesh_core_link", "observer_broker"}
    /\ Init
    /\ DdInit
    /\ FmInit
    /\ SerInit
    /\ RecInit
    /\ MqInit
    /\ OutInit
    /\ InInit
    /\ HpInit
    /\ HubInit
    /\ focus # "messaging_hub" => up = [r \in Radios |-> TRUE]
    /\ McInit
    /\ OmInit
    /\ SeenInit
    /\ NodeInit
    /\ McInit
    /\ ObInit

OnlySdrScheduler ==
    /\ focus = "sdr_scheduler" /\ Next
    /\ UNCHANGED <<focus, ddVars, fmVars, serVars, recVars, mqVars, outVars, inVars, hpVars,
                   hubVars, mcVars, omVars, seenVars, nodeVars, mcVars, obVars>>

OnlyDirectDecoder ==
    /\ focus = "direct_decoder" /\ DdNext
    /\ UNCHANGED <<focus, vars, fmVars, serVars, recVars, mqVars, outVars, inVars, hpVars,
                   hubVars, mcVars, omVars, seenVars, nodeVars, mcVars, obVars>>

OnlyFmReceiver ==
    /\ focus = "fm_receiver" /\ FmNext
    /\ UNCHANGED <<focus, vars, ddVars, serVars, recVars, mqVars, outVars, inVars, hpVars,
                   hubVars, mcVars, omVars, seenVars, nodeVars, mcVars, obVars>>

OnlyMeshtasticSerial ==
    /\ focus = "meshtastic_serial" /\ SerNext
    /\ UNCHANGED <<focus, vars, ddVars, fmVars, recVars, mqVars, outVars, inVars, hpVars,
                   hubVars, mcVars, omVars, seenVars, nodeVars, mcVars, obVars>>

OnlyFirmwareRecovery ==
    /\ focus = "firmware_recovery" /\ RecNext
    /\ UNCHANGED <<focus, vars, ddVars, fmVars, serVars, mqVars, outVars, inVars, hpVars,
                   hubVars, mcVars, omVars, seenVars, nodeVars, mcVars, obVars>>

OnlyMqttLink ==
    /\ focus = "mqtt_link" /\ MqNext
    /\ UNCHANGED <<focus, vars, ddVars, fmVars, serVars, recVars, outVars, inVars, hpVars,
                   hubVars, mcVars, omVars, seenVars, nodeVars, mcVars, obVars>>

OnlyTrafficOut ==
    /\ focus = "traffic_out" /\ OutNext
    /\ UNCHANGED <<focus, vars, ddVars, fmVars, serVars, recVars, mqVars, inVars, hpVars,
                   hubVars, mcVars, omVars, seenVars, nodeVars, mcVars, obVars>>

OnlyTrafficIn ==
    /\ focus = "traffic_in" /\ InNext
    /\ UNCHANGED <<focus, vars, ddVars, fmVars, serVars, recVars, mqVars, outVars, hpVars,
                   hubVars, mcVars, omVars, seenVars, nodeVars, mcVars, obVars>>

OnlyHealthProbe ==
    /\ focus = "health_probe" /\ HpNext
    /\ UNCHANGED <<focus, vars, ddVars, fmVars, serVars, recVars, mqVars, outVars, inVars,
                   hubVars, mcVars, omVars, seenVars, nodeVars, mcVars, obVars>>

OnlyMessagingHub ==
    /\ focus = "messaging_hub" /\ HubNext
    /\ UNCHANGED <<focus, vars, ddVars, fmVars, serVars, recVars, mqVars, outVars, inVars,
                   hpVars, mcVars, omVars, seenVars, nodeVars, mcVars, obVars>>

OnlyMeshCoreLink ==
    /\ focus = "mesh_core_link" /\ McNext
    /\ UNCHANGED <<focus, vars, ddVars, fmVars, serVars, recVars, mqVars, outVars, inVars,
                   hpVars, hubVars, omVars, seenVars, nodeVars, obVars>>

OnlyObserverBroker ==
    /\ focus = "observer_broker" /\ OmNext
    /\ UNCHANGED <<focus, vars, ddVars, fmVars, serVars, recVars, mqVars, outVars, inVars,
                   hpVars, hubVars, mcVars, seenVars, nodeVars, mcVars, obVars>>

MCNext ==
    \/ OnlySdrScheduler
    \/ OnlyDirectDecoder
    \/ OnlyFmReceiver
    \/ OnlyMeshtasticSerial
    \/ OnlyFirmwareRecovery
    \/ OnlyMqttLink
    \/ OnlyTrafficOut
    \/ OnlyTrafficIn
    \/ OnlyHealthProbe
    \/ OnlyMessagingHub
    \/ OnlyMeshCoreLink
    \/ OnlyObserverBroker

MCVars == <<focus, vars, ddVars, fmVars, serVars, recVars, mqVars, outVars, inVars, hpVars,
            hubVars, mcVars, omVars, seenVars, nodeVars, mcVars, obVars>>

MCSpec ==
    /\ MCInit /\ [][MCNext]_MCVars
    /\ WF_vars(focus = "sdr_scheduler" /\ SchedStep)
    /\ WF_vars(focus = "sdr_scheduler" /\ SliceElapses)
    /\ \A t \in Threads : WF_vars(focus = "sdr_scheduler" /\ YieldStep(t))
    /\ \A r \in Regs :
         /\ WF_vars(focus = "sdr_scheduler" /\ UnregisterStep(r))
         /\ WF_vars(focus = "sdr_scheduler" /\ HookStep(r))
         /\ WF_vars(focus = "sdr_scheduler" /\ WorkerStep(r))
    /\ WF_ddVars(focus = "direct_decoder" /\ SupSteps)
    /\ WF_ddVars(focus = "direct_decoder" /\ MonSteps)
    /\ WF_ddVars(focus = "direct_decoder" /\ StopSteps)
    /\ \A p \in 1..DdPipelines :
         /\ WF_ddVars(focus = "direct_decoder" /\ (ReaderEnds(p) \/ ReaderReports(p)))
    /\ \A g \in FmRuns :
         /\ WF_fmVars(focus = "fm_receiver" /\ FmHookStep(g))
         /\ WF_fmVars(focus = "fm_receiver" /\ FmThreadStep(g))
    /\ \A e \in 1..FmEpochs :
         /\ WF_fmVars(focus = "fm_receiver" /\ FmWorkerWakes(e))
         /\ WF_fmVars(focus = "fm_receiver" /\ WorkerResumes(e))
    /\ WF_fmVars(focus = "fm_receiver" /\ SchedulerStep)
    /\ WF_fmVars(focus = "fm_receiver" /\ OperatorStep)
    /\ WF_serVars(focus = "meshtastic_serial" /\ OwnerSteps)
    /\ WF_serVars(focus = "meshtastic_serial" /\ Constructed)
    /\ WF_serVars(focus = "meshtastic_serial" /\ OpenerEnds)
    /\ WF_serVars(focus = "meshtastic_serial" /\ CommandReturns)
    /\ \A g \in SerGens : WF_serVars(focus = "meshtastic_serial" /\ CloseEnds(g))
    /\ WF_serVars(focus = "meshtastic_serial" /\ SerStopSteps)
    /\ WF_serVars(focus = "meshtastic_serial" /\ PoisonerCloses)
    /\ WF_serVars(focus = "meshtastic_serial" /\ CommandTimesOut)
    /\ WF_recVars(focus = "firmware_recovery" /\ OwnerRecovers)
    /\ WF_recVars(focus = "firmware_recovery" /\ ManualRecovers)
    /\ WF_mqVars(focus = "mqtt_link" /\ LoopStep)
    /\ \A c \in MqClients :
         /\ WF_mqVars(focus = "mqtt_link" /\ Reports(c))
         /\ WF_mqVars(focus = "mqtt_link" /\ Finalize(c))
    /\ WF_outVars(focus = "traffic_out" /\ OutDrains)
    /\ WF_outVars(focus = "traffic_out" /\ OutAges)
    /\ WF_inVars(focus = "traffic_in" /\ RetryStep)
    /\ \A i \in InItems : WF_inVars(focus = "traffic_in" /\ InAges(i))
    /\ \A c \in HpCallers : WF_hpVars(focus = "health_probe" /\ WaitEnds(c))
    /\ \A f \in 1..HpFlights : WF_hpVars(focus = "health_probe" /\ DeadlinePasses(f))
    /\ SF_hubVars(focus = "messaging_hub" /\ ExpireQueued)
    /\ SF_hubVars(focus = "messaging_hub" /\ TimeoutStep)
    /\ \A n \in Msgs :
         /\ WF_hubVars(focus = "messaging_hub" /\ SenderStep(n))
         /\ WF_hubVars(focus = "messaging_hub" /\ AckStored(n))
         /\ WF_hubVars(focus = "messaging_hub" /\ GrowsOld(n))
    /\ \A d \in HubDrains : WF_hubVars(focus = "messaging_hub" /\ DrainStep(d))
    /\ WF_mcVars(focus = "mesh_core_link" /\ McLoopStep)
    /\ WF_omVars(focus = "observer_broker" /\ OmLoopStep)
    /\ WF_omVars(focus = "observer_broker" /\ Accepts)
    /\ WF_omVars(focus = "observer_broker" /\ ReportsDrop)
    /\ WF_omVars(focus = "observer_broker" /\ omStop.pc # "no" /\ OmStops)

(* A message that waits for its radio or for its answer is settled in the end. *)
MessagesSettle ==
    /\ focus = "messaging_hub" => QueuedSettles
    /\ focus = "messaging_hub" => TrackedSettles
    /\ focus \in {"traffic_out", "traffic_in"} => OutQueueSettles
    /\ focus \in {"traffic_out", "traffic_in"} => DeferredSettles

(* The scheduler serves a critical plugin whatever the others do, and every background
   plugin in its turn. *)
DonglesServed ==
    /\ focus = "sdr_scheduler" => CriticalServed
    /\ focus = "sdr_scheduler" => BackgroundServed

(* Claims and leases come back, recoveries end, dead links are noticed, retries settle,
   and nobody waits for ever on a radio, a receiver or a broker. *)
LinksSettle ==
    /\ focus = "meshtastic_serial" => OpenClaimReturned
    /\ focus = "meshtastic_serial" => LeaseReturned
    /\ focus = "firmware_recovery" => PendingRecoveryEnds
    /\ focus = "mqtt_link" => DeadLinkNoticed
    /\ focus = "mqtt_link" => SuspensionEnds
    /\ focus = "mesh_core_link" => GivenUpOpenEnds
    /\ focus = "observer_broker" => BrokerLeftAtStop
    /\ focus = "health_probe" => CallerReturns
    /\ focus = "direct_decoder" => StopReturns
    /\ focus = "fm_receiver" => RetrySettles
====
