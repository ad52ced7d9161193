---- MODULE MCIntake ----
(* Instance for TLC: safety of several components.  A behaviour follows the
   component its focus names and leaves the others in their initial states. *)
EXTENDS HubIntake, IdentityStore, GatewayLife, TLC

VARIABLE focus

CHiMsg == LET M(type, packet, dir) ==
               [transport |-> "meshtastic", sub |-> "lora", type |-> type, peer |-> "p",
                channel |-> "0", packet |-> packet, direction |-> dir]
           IN  [m \in {"direct", "broadcast", "own"} |->
                  CASE m = "direct" -> M("direct", "1", "received")
                    [] m = "broadcast" -> M("broadcast", "2", "received")
                    [] OTHER -> M("direct", "3", "sent")]
COldRow == LET R(transport, sub, type, channel) ==
               [transport |-> transport, sub |-> sub, type |-> type, peer |-> "p",
                channel |-> channel]
           IN  <<R("meshtastic", "mqtt", "broadcast", "LongFast"),
                 R("meshtastic", "lora", "broadcast", "0"), R("meshtastic", "lora", "direct", "0"),
                 R("meshcore", "", "broadcast", "1"), R("lxmf", "", "direct", NoChannel)>>
CReactions == {<<"1", "x">>}

MCInit ==
    /\ focus \in {"history", "snapshot", "propagation", "schema", "identity", "mode", "send", "ready",
           "usb", "nodes", "saves", "channels", "meshcore", "heard"}
    /\ HiInit
    /\ SnInit
    /\ PnInit
    /\ ScInit
    /\ focus # "schema" => scColumns = {}
    /\ NiInit
    /\ focus # "identity" => niDir.file = Absent /\ niBackup = Absent
    /\ CfInit
    /\ focus # "mode" => cfConfigured = "on" /\ cfDisk = NoOverride
    /\ SdInit
    /\ RdInit
    /\ focus # "ready" => rdConfig = [mode |-> "mqtt", port |-> FALSE, sound |-> TRUE, watchdog |-> FALSE, fits |-> TRUE]
    /\ UbInit
    /\ focus # "usb" => ubExpected = "any"
    /\ NnInit
    /\ focus # "nodes" => nnOwn = "nobody"
    /\ NsInit
    /\ ChInit
    /\ MxInit
    /\ MdInit

OnlyHistory ==
    /\ focus = "history" /\ HiNext
    /\ UNCHANGED <<focus, snVars, pnVars, scVars, niVars, cfVars, sdVars, rdVars, ubVars,
                   nnVars, nsVars, chVars, mxVars, mdVars>>

OnlySnapshot ==
    /\ focus = "snapshot" /\ SnNext
    /\ UNCHANGED <<focus, hiVars, pnVars, scVars, niVars, cfVars, sdVars, rdVars, ubVars,
                   nnVars, nsVars, chVars, mxVars, mdVars>>

OnlyPropagation ==
    /\ focus = "propagation" /\ PnNext
    /\ UNCHANGED <<focus, hiVars, snVars, scVars, niVars, cfVars, sdVars, rdVars, ubVars,
                   nnVars, nsVars, chVars, mxVars, mdVars>>

OnlySchema ==
    /\ focus = "schema" /\ ScNext
    /\ UNCHANGED <<focus, hiVars, snVars, pnVars, niVars, cfVars, sdVars, rdVars, ubVars,
                   nnVars, nsVars, chVars, mxVars, mdVars>>

OnlyIdentity ==
    /\ focus = "identity" /\ NiNext
    /\ UNCHANGED <<focus, hiVars, snVars, pnVars, scVars, cfVars, sdVars, rdVars, ubVars,
                   nnVars, nsVars, chVars, mxVars, mdVars>>

OnlyMode ==
    /\ focus = "mode" /\ CfNext
    /\ UNCHANGED <<focus, hiVars, snVars, pnVars, scVars, niVars, sdVars, rdVars, ubVars,
                   nnVars, nsVars, chVars, mxVars, mdVars>>

OnlySend ==
    /\ focus = "send" /\ SdNext
    /\ UNCHANGED <<focus, hiVars, snVars, pnVars, scVars, niVars, cfVars, rdVars, ubVars,
                   nnVars, nsVars, chVars, mxVars, mdVars>>

OnlyReady ==
    /\ focus = "ready" /\ RdNext
    /\ UNCHANGED <<focus, hiVars, snVars, pnVars, scVars, niVars, cfVars, sdVars, ubVars,
                   nnVars, nsVars, chVars, mxVars, mdVars>>

OnlyUsb ==
    /\ focus = "usb" /\ UbNext
    /\ UNCHANGED <<focus, hiVars, snVars, pnVars, scVars, niVars, cfVars, sdVars, rdVars,
                   nnVars, nsVars, chVars, mxVars, mdVars>>

OnlyNodes ==
    /\ focus = "nodes" /\ NnNext
    /\ UNCHANGED <<focus, hiVars, snVars, pnVars, scVars, niVars, cfVars, sdVars, rdVars,
                   ubVars, nsVars, chVars, mxVars, mdVars>>

OnlySaves ==
    /\ focus = "saves" /\ NsNext
    /\ UNCHANGED <<focus, hiVars, snVars, pnVars, scVars, niVars, cfVars, sdVars, rdVars,
                   ubVars, nnVars, chVars, mxVars, mdVars>>

OnlyChannels ==
    /\ focus = "channels" /\ ChNext
    /\ UNCHANGED <<focus, hiVars, snVars, pnVars, scVars, niVars, cfVars, sdVars, rdVars,
                   ubVars, nnVars, nsVars, mxVars, mdVars>>

OnlyMeshcore ==
    /\ focus = "meshcore" /\ MxNext
    /\ UNCHANGED <<focus, hiVars, snVars, pnVars, scVars, niVars, cfVars, sdVars, rdVars,
                   ubVars, nnVars, nsVars, chVars, mdVars>>

OnlyHeard ==
    /\ focus = "heard" /\ MdNext
    /\ UNCHANGED <<focus, hiVars, snVars, pnVars, scVars, niVars, cfVars, sdVars, rdVars,
                   ubVars, nnVars, nsVars, chVars, mxVars>>

MCNext ==
    \/ OnlyHistory
    \/ OnlySnapshot
    \/ OnlyPropagation
    \/ OnlySchema
    \/ OnlyIdentity
    \/ OnlyMode
    \/ OnlySend
    \/ OnlyReady
    \/ OnlyUsb
    \/ OnlyNodes
    \/ OnlySaves
    \/ OnlyChannels
    \/ OnlyMeshcore
    \/ OnlyHeard

MCVars == <<focus, hiVars, snVars, pnVars, scVars, niVars, cfVars, sdVars, rdVars, ubVars,
            nnVars, nsVars, chVars, mxVars, mdVars>>

MCSpec == MCInit /\ [][MCNext]_MCVars

(* What came in is kept in order, pruned fairly and shown in time, a failing node is
   left, and the rows of an old store join their conversations. *)
HistoryKept ==
    /\ [](focus = "history" => HiTypeOK)
    /\ [](focus = "snapshot" => SnTypeOK)
    /\ [](focus = "propagation" => PnTypeOK)
    /\ [](focus = "schema" => ScTypeOK)
    /\ [](focus \in {"history", "snapshot", "propagation", "schema"} => HistoryInOrder)
    /\ [](focus \in {"history", "snapshot", "propagation", "schema"} => EventsHaveRows)
    /\ PruneIsFair
    /\ [](focus \in {"history", "snapshot", "propagation", "schema"} => SnapshotBounded)
    /\ [](focus \in {"history", "snapshot", "propagation", "schema"} => FailingIsLeft)
    /\ [](focus \in {"history", "snapshot", "propagation", "schema"} => OldRowsJoin)
    /\ [](focus \in {"history", "snapshot", "propagation", "schema"} => CleanUpRepeats)

(* A refused message was not sent, a path that is down is shown, the device that was
   validated is the one that is reset, and nodes, channels and answers are kept. *)
GatewayLifeHeld ==
    /\ [](focus = "send" => SdTypeOK)
    /\ [](focus = "ready" => RdTypeOK)
    /\ [](focus = "usb" => UbTypeOK)
    /\ [](focus = "nodes" => NnTypeOK)
    /\ [](focus = "saves" => NsTypeOK)
    /\ [](focus = "channels" => ChTypeOK)
    /\ [](focus = "meshcore" => MxTypeOK)
    /\ [](focus = "heard" => MdTypeOK)
    /\ [](focus = "send" => RefusedIsUnsent)
    /\ [](focus = "send" => OneAtTheRadio)
    /\ [](focus = "send" => StatusIsHonest)
    /\ [](focus = "ready" => DownIsShown)
    /\ [](focus = "usb" => ResetsTheValidated)
    /\ [](focus = "usb" => BindingIsDurable)
    /\ UbRebound
    /\ [](focus = "nodes" => RealNameIsShown)
    /\ [](focus = "saves" => OneSaver)
    /\ [](focus = "saves" => StopKeepsNodes)
    /\ [](focus = "channels" => PrimaryIsKept)
    /\ [](focus = "channels" => ChannelsAgree)
    /\ [](focus = "meshcore" => MeshCoreAnswers)
    /\ [](focus = "meshcore" => AnswerIsOfThisClient)
    /\ [](focus = "heard" => HeardOnce)

Symmetric == Permutations(NiProcs)
====
