---- MODULE MCLiveness ----
(* Instance for TLC: liveness of several components.  A behaviour follows the
   component its focus names and leaves the others in their initial states. *)
EXTENDS InternetProbe, PluginLifecycle, Dispatch, DashboardSessions, DashboardFeed,
        DashboardServer, TransportMonitor, TLC

VARIABLE focus

CIpGens == 1 .. 5
CName == [i \in Insts |-> IF i \in {"radio1", "radio2"} THEN "radio" ELSE "bridge"]
CBoot == <<"radio1", "bridge1">>
CDeps == [n \in {"radio", "bridge"} |-> IF n = "bridge" THEN {"radio"} ELSE {}]
CApi == [n \in {"radio", "bridge"} |-> IF n = "radio" THEN 2 ELSE 1]
CDsValidators == {"loop"}
CDfValues == {1, 2}

MCInit ==
    /\ focus \in {"internet_probe", "plugin_lifecycle", "announces", "pools", "dashboard_sessions",
           "feed", "registry", "tls", "peers", "failover"}
    /\ IpInit
    /\ focus # "internet_probe" => force = TRUE /\ net = TRUE
    /\ PlInit
    /\ AnInit
    /\ WpInit
    /\ DsInit
    /\ DfInit
    /\ focus # "feed" => dfKind = "metrics" /\ dfBeside /\ dfSrc = 1
    /\ BrInit
    /\ TlInit
    /\ focus # "tls" => tlManaged
    /\ TeInit
    /\ focus # "peers" => teAlive = {}
    /\ TfInit
    /\ AcInit
    /\ WdInit
    /\ RsInit
    /\ TcInit
    /\ TaInit
    /\ TpInit
    /\ ThInit

OnlyInternetProbe ==
    /\ focus = "internet_probe" /\ IpNext
    /\ UNCHANGED <<focus, plVars, anVars, wpVars, dsVars, dfVars, brVars, tlVars, teVars,
                   tfVars, acVars, wdVars, rsVars, tcVars, taVars, tpVars, thVars>>

OnlyPluginLifecycle ==
    /\ focus = "plugin_lifecycle" /\ PlNext
    /\ UNCHANGED <<focus, ipVars, anVars, wpVars, dsVars, dfVars, brVars, tlVars, teVars,
                   tfVars, acVars, wdVars, rsVars, tcVars, taVars, tpVars, thVars>>

OnlyAnnounces ==
    /\ focus = "announces" /\ AnNext
    /\ UNCHANGED <<focus, ipVars, plVars, wpVars, dsVars, dfVars, brVars, tlVars, teVars,
                   tfVars, acVars, wdVars, rsVars, tcVars, taVars, tpVars, thVars>>

OnlyPools ==
    /\ focus = "pools" /\ WpNext
    /\ UNCHANGED <<focus, ipVars, plVars, anVars, dsVars, dfVars, brVars, tlVars, teVars,
                   tfVars, acVars, wdVars, rsVars, tcVars, taVars, tpVars, thVars>>

OnlyDashboardSessions ==
    /\ focus = "dashboard_sessions" /\ DsNext
    /\ UNCHANGED <<focus, ipVars, plVars, anVars, wpVars, dfVars, brVars, tlVars, teVars,
                   tfVars, acVars, wdVars, rsVars, tcVars, taVars, tpVars, thVars>>

OnlyFeed ==
    /\ focus = "feed" /\ DfNext
    /\ UNCHANGED <<focus, ipVars, plVars, anVars, wpVars, dsVars, brVars, tlVars, teVars,
                   tfVars, acVars, wdVars, rsVars, tcVars, taVars, tpVars, thVars>>

OnlyRegistry ==
    /\ focus = "registry" /\ BrNext
    /\ UNCHANGED <<focus, ipVars, plVars, anVars, wpVars, dsVars, dfVars, tlVars, teVars,
                   tfVars, acVars, wdVars, rsVars, tcVars, taVars, tpVars, thVars>>

OnlyTls ==
    /\ focus = "tls" /\ TlNext
    /\ UNCHANGED <<focus, ipVars, plVars, anVars, wpVars, dsVars, dfVars, brVars, teVars,
                   tfVars, acVars, wdVars, rsVars, tcVars, taVars, tpVars, thVars>>

OnlyPeers ==
    /\ focus = "peers" /\ TeNext
    /\ UNCHANGED <<focus, ipVars, plVars, anVars, wpVars, dsVars, dfVars, brVars, tlVars,
                   tfVars, acVars, wdVars, rsVars, tcVars, taVars, tpVars, thVars>>

OnlyFailover ==
    /\ focus = "failover" /\ TfNext
    /\ UNCHANGED <<focus, ipVars, plVars, anVars, wpVars, dsVars, dfVars, brVars, tlVars,
                   teVars, acVars, wdVars, rsVars, tcVars, taVars, tpVars, thVars>>

MCNext ==
    \/ OnlyInternetProbe
    \/ OnlyPluginLifecycle
    \/ OnlyAnnounces
    \/ OnlyPools
    \/ OnlyDashboardSessions
    \/ OnlyFeed
    \/ OnlyRegistry
    \/ OnlyTls
    \/ OnlyPeers
    \/ OnlyFailover

MCVars == <<focus, ipVars, plVars, anVars, wpVars, dsVars, dfVars, brVars, tlVars, teVars,
            tfVars, acVars, wdVars, rsVars, tcVars, taVars, tpVars, thVars>>

MCSpec ==
    /\ MCInit /\ [][MCNext]_MCVars
    /\ WF_ipVars(focus = "internet_probe" /\ IpMonitorStep)
    /\ \A u \in Users : WF_ipVars(focus = "internet_probe" /\ UserStep(u))
    /\ WF_plVars(focus = "plugin_lifecycle" /\ MainStep)
    /\ WF_plVars(focus = "plugin_lifecycle" /\ RemoteStep)
    /\ \A i \in Insts : WF_plVars(focus = "plugin_lifecycle" /\ Notify(i))
    /\ \A i \in Insts \ Slow :
         /\ WF_plVars(focus = "plugin_lifecycle" /\ StarterStep(i))
         /\ WF_plVars(focus = "plugin_lifecycle" /\ StopperStep(i))
         /\ WF_plVars(focus = "plugin_lifecycle" /\ CleanerStep(i))
    /\ WF_anVars(focus = "announces" /\ DispatchStep)
    /\ \A w \in WpWorkers : WF_wpVars(focus = "pools" /\ PoolWorkerTakes(w))
    /\ WF_wpVars(focus = "pools" /\ (PoolDrains \/ PoolStops))
    /\ WF_dsVars(focus = "dashboard_sessions" /\ DsChangeStep)
    /\ \A w \in DsSockets : WF_dsVars(focus = "dashboard_sessions" /\ WsRevalidates(w))
    /\ WF_dfVars(focus = "feed" /\ DfRound)
    /\ WF_dfVars(focus = "feed" /\ DfHandler)
    /\ WF_brVars(focus = "registry" /\ WakesUp)
    /\ WF_tlVars(focus = "tls" /\ TlCloses)
    /\ WF_tlVars(focus = "tls" /\ TlCheck)
    /\ WF_teVars(focus = "peers" /\ TeTick)
    /\ WF_teVars(focus = "peers" /\ TmAsks)
    /\ WF_teVars(focus = "peers" /\ (Answered \/ Unanswered))
    /\ WF_tfVars(focus = "failover" /\ TfThread)

(* A stuck subscriber does not stop the dispatcher, every future settles, workers end,
   peers take turns and a fallback ends. *)
ServicesGoOn ==
    /\ focus \in {"announces", "pools"} => DispatchGoesOn
    /\ focus \in {"announces", "pools"} => FutureSettles
    /\ focus \in {"announces", "pools"} => PoolWorkersEnd
    /\ focus \in {"peers", "failover"} => PeersTakeTurns
    /\ focus \in {"peers", "failover"} => FallbackEnds

(* A revoked socket closes, every client ends up with the newest spectrum and none is
   starved, and a site whose checks fail closes. *)
DashboardFollows ==
    /\ focus = "dashboard_sessions" => RevokedSocketCloses
    /\ [](focus \in {"feed", "registry"} => SpectrumConverges)
    /\ focus \in {"feed", "registry"} => NobodyStarves
    /\ focus = "tls" => FailsClosed

(* The probe follows the network once network and switch settle; startup and shutdown
   end although plugins hang. *)
ApplicationGoesOn ==
    /\ focus = "internet_probe" => RecoveryNoticed
    /\ focus = "internet_probe" => OutageNoticed
    /\ focus = "plugin_lifecycle" => StartupEnds
    /\ focus = "plugin_lifecycle" => ShutdownEnds
====
