---- MODULE MCServices ----
(* Instance for TLC: safety of several components.  A behaviour follows the
   component its focus names and leaves the others in their initial states. *)
EXTENDS InternetProbe, PluginLifecycle, Migrations, AdminTransaction, Dispatch,
        DashboardSessions, DashboardFeed, DashboardServer, TransportMonitor, RemoteServices, TLC

VARIABLE focus

CIpGens == 1 .. 5
CName == [i \in Insts |-> IF i \in {"radio1", "radio2"} THEN "radio" ELSE "bridge"]
CBoot == <<"radio1", "bridge1">>
CDeps == [n \in {"radio", "bridge"} |-> IF n = "bridge" THEN {"radio"} ELSE {}]
CApi == [n \in {"radio", "bridge"} |-> IF n = "radio" THEN 2 ELSE 1]
CAtFeatureSets == {{"gps"}}
CDsValidators == {"loop", "command"}
CDfValues == {1, 2}

MCInit ==
    /\ focus \in {"internet_probe", "plugin_lifecycle", "migrations", "admin_transaction",
           "announces", "pools", "dashboard_sessions", "feed", "registry", "api_cache",
           "server", "tls", "restarts", "tiles", "tcp", "hubs", "peers", "relays", "failover",
           "links", "files", "requests", "broker"}
    /\ IpInit
    /\ focus # "internet_probe" => force = TRUE /\ net = TRUE
    /\ PlInit
    /\ MgInit
    /\ AtInit
    /\ focus # "admin_transaction" => atCurrent = 0
    /\ AnInit
    /\ WpInit
    /\ DsInit
    /\ DfInit
    /\ focus # "feed" => dfKind = "metrics" /\ dfBeside /\ dfSrc = 1
    /\ BrInit
    /\ AcInit
    /\ WdInit
    /\ TlInit
    /\ focus # "tls" => tlManaged
    /\ RsInit
    /\ TcInit
    /\ TaInit
    /\ TpInit
    /\ TeInit
    /\ focus # "peers" => teAlive = {}
    /\ ThInit
    /\ TfInit
    /\ FtInit
    /\ focus # "links" => ftKind = "deny"
    /\ FsInit
    /\ RqInit
    /\ focus # "requests" => rqAllowed = TRUE
    /\ CbInit

OnlyInternetProbe ==
    /\ focus = "internet_probe" /\ IpNext
    /\ UNCHANGED <<focus, plVars, mgVars, atVars, anVars, wpVars, dsVars, dfVars, brVars,
                   acVars, wdVars, tlVars, rsVars, tcVars, taVars, tpVars, teVars, thVars,
                   tfVars, ftVars, fsVars, rqVars, cbVars>>

OnlyPluginLifecycle ==
    /\ focus = "plugin_lifecycle" /\ PlNext
    /\ UNCHANGED <<focus, ipVars, mgVars, atVars, anVars, wpVars, dsVars, dfVars, brVars,
                   acVars, wdVars, tlVars, rsVars, tcVars, taVars, tpVars, teVars, thVars,
                   tfVars, ftVars, fsVars, rqVars, cbVars>>

OnlyMigrations ==
    /\ focus = "migrations" /\ MgNext
    /\ UNCHANGED <<focus, ipVars, plVars, atVars, anVars, wpVars, dsVars, dfVars, brVars,
                   acVars, wdVars, tlVars, rsVars, tcVars, taVars, tpVars, teVars, thVars,
                   tfVars, ftVars, fsVars, rqVars, cbVars>>

OnlyAdminTransaction ==
    /\ focus = "admin_transaction" /\ AtNext
    /\ UNCHANGED <<focus, ipVars, plVars, mgVars, anVars, wpVars, dsVars, dfVars, brVars,
                   acVars, wdVars, tlVars, rsVars, tcVars, taVars, tpVars, teVars, thVars,
                   tfVars, ftVars, fsVars, rqVars, cbVars>>

OnlyAnnounces ==
    /\ focus = "announces" /\ AnNext
    /\ UNCHANGED <<focus, ipVars, plVars, mgVars, atVars, wpVars, dsVars, dfVars, brVars,
                   acVars, wdVars, tlVars, rsVars, tcVars, taVars, tpVars, teVars, thVars,
                   tfVars, ftVars, fsVars, rqVars, cbVars>>

OnlyPools ==
    /\ focus = "pools" /\ WpNext
    /\ UNCHANGED <<focus, ipVars, plVars, mgVars, atVars, anVars, dsVars, dfVars, brVars,
                   acVars, wdVars, tlVars, rsVars, tcVars, taVars, tpVars, teVars, thVars,
                   tfVars, ftVars, fsVars, rqVars, cbVars>>

OnlyDashboardSessions ==
    /\ focus = "dashboard_sessions" /\ DsNext
    /\ UNCHANGED <<focus, ipVars, plVars, mgVars, atVars, anVars, wpVars, dfVars, brVars,
                   acVars, wdVars, tlVars, rsVars, tcVars, taVars, tpVars, teVars, thVars,
                   tfVars, ftVars, fsVars, rqVars, cbVars>>

OnlyFeed ==
    /\ focus = "feed" /\ DfNext
    /\ UNCHANGED <<focus, ipVars, plVars, mgVars, atVars, anVars, wpVars, dsVars, brVars,
                   acVars, wdVars, tlVars, rsVars, tcVars, taVars, tpVars, teVars, thVars,
                   tfVars, ftVars, fsVars, rqVars, cbVars>>

OnlyRegistry ==
    /\ focus = "registry" /\ BrNext
    /\ UNCHANGED <<focus, ipVars, plVars, mgVars, atVars, anVars, wpVars, dsVars, dfVars,
                   acVars, wdVars, tlVars, rsVars, tcVars, taVars, tpVars, teVars, thVars,
                   tfVars, ftVars, fsVars, rqVars, cbVars>>

OnlyApiCache ==
    /\ focus = "api_cache" /\ AcNext
    /\ UNCHANGED <<focus, ipVars, plVars, mgVars, atVars, anVars, wpVars, dsVars, dfVars,
                   brVars, wdVars, tlVars, rsVars, tcVars, taVars, tpVars, teVars, thVars,
                   tfVars, ftVars, fsVars, rqVars, cbVars>>

OnlyServer ==
    /\ focus = "server" /\ WdNext
    /\ UNCHANGED <<focus, ipVars, plVars, mgVars, atVars, anVars, wpVars, dsVars, dfVars,
                   brVars, acVars, tlVars, rsVars, tcVars, taVars, tpVars, teVars, thVars,
                   tfVars, ftVars, fsVars, rqVars, cbVars>>

OnlyTls ==
    /\ focus = "tls" /\ TlNext
    /\ UNCHANGED <<focus, ipVars, plVars, mgVars, atVars, anVars, wpVars, dsVars, dfVars,
                   brVars, acVars, wdVars, rsVars, tcVars, taVars, tpVars, teVars, thVars,
                   tfVars, ftVars, fsVars, rqVars, cbVars>>

OnlyRestarts ==
    /\ focus = "restarts" /\ RsNext
    /\ UNCHANGED <<focus, ipVars, plVars, mgVars, atVars, anVars, wpVars, dsVars, dfVars,
                   brVars, acVars, wdVars, tlVars, tcVars, taVars, tpVars, teVars, thVars,
                   tfVars, ftVars, fsVars, rqVars, cbVars>>

OnlyTiles ==
    /\ focus = "tiles" /\ TcNext
    /\ UNCHANGED <<focus, ipVars, plVars, mgVars, atVars, anVars, wpVars, dsVars, dfVars,
                   brVars, acVars, wdVars, tlVars, rsVars, taVars, tpVars, teVars, thVars,
                   tfVars, ftVars, fsVars, rqVars, cbVars>>

OnlyTcp ==
    /\ focus = "tcp" /\ TaNext
    /\ UNCHANGED <<focus, ipVars, plVars, mgVars, atVars, anVars, wpVars, dsVars, dfVars,
                   brVars, acVars, wdVars, tlVars, rsVars, tcVars, tpVars, teVars, thVars,
                   tfVars, ftVars, fsVars, rqVars, cbVars>>

OnlyHubs ==
    /\ focus = "hubs" /\ TpNext
    /\ UNCHANGED <<focus, ipVars, plVars, mgVars, atVars, anVars, wpVars, dsVars, dfVars,
                   brVars, acVars, wdVars, tlVars, rsVars, tcVars, taVars, teVars, thVars,
                   tfVars, ftVars, fsVars, rqVars, cbVars>>

OnlyPeers ==
    /\ focus = "peers" /\ TeNext
    /\ UNCHANGED <<focus, ipVars, plVars, mgVars, atVars, anVars, wpVars, dsVars, dfVars,
                   brVars, acVars, wdVars, tlVars, rsVars, tcVars, taVars, tpVars, thVars,
                   tfVars, ftVars, fsVars, rqVars, cbVars>>

OnlyRelays ==
    /\ focus = "relays" /\ ThNext
    /\ UNCHANGED <<focus, ipVars, plVars, mgVars, atVars, anVars, wpVars, dsVars, dfVars,
                   brVars, acVars, wdVars, tlVars, rsVars, tcVars, taVars, tpVars, teVars,
                   tfVars, ftVars, fsVars, rqVars, cbVars>>

OnlyFailover ==
    /\ focus = "failover" /\ TfNext
    /\ UNCHANGED <<focus, ipVars, plVars, mgVars, atVars, anVars, wpVars, dsVars, dfVars,
                   brVars, acVars, wdVars, tlVars, rsVars, tcVars, taVars, tpVars, teVars,
                   thVars, ftVars, fsVars, rqVars, cbVars>>

OnlyLinks ==
    /\ focus = "links" /\ FtNext
    /\ UNCHANGED <<focus, ipVars, plVars, mgVars, atVars, anVars, wpVars, dsVars, dfVars,
                   brVars, acVars, wdVars, tlVars, rsVars, tcVars, taVars, tpVars, teVars,
                   thVars, tfVars, fsVars, rqVars, cbVars>>

OnlyFiles ==
    /\ focus = "files" /\ FsNext
    /\ UNCHANGED <<focus, ipVars, plVars, mgVars, atVars, anVars, wpVars, dsVars, dfVars,
                   brVars, acVars, wdVars, tlVars, rsVars, tcVars, taVars, tpVars, teVars,
                   thVars, tfVars, ftVars, rqVars, cbVars>>

OnlyRequests ==
    /\ focus = "requests" /\ RqNext
    /\ UNCHANGED <<focus, ipVars, plVars, mgVars, atVars, anVars, wpVars, dsVars, dfVars,
                   brVars, acVars, wdVars, tlVars, rsVars, tcVars, taVars, tpVars, teVars,
                   thVars, tfVars, ftVars, fsVars, cbVars>>

OnlyBroker ==
    /\ focus = "broker" /\ CbNext
    /\ UNCHANGED <<focus, ipVars, plVars, mgVars, atVars, anVars, wpVars, dsVars, dfVars,
                   brVars, acVars, wdVars, tlVars, rsVars, tcVars, taVars, tpVars, teVars,
                   thVars, tfVars, ftVars, fsVars, rqVars>>

MCNext ==
    \/ OnlyInternetProbe
    \/ OnlyPluginLifecycle
    \/ OnlyMigrations
    \/ OnlyAdminTransaction
    \/ OnlyAnnounces
    \/ OnlyPools
    \/ OnlyDashboardSessions
    \/ OnlyFeed
    \/ OnlyRegistry
    \/ OnlyApiCache
    \/ OnlyServer
    \/ OnlyTls
    \/ OnlyRestarts
    \/ OnlyTiles
    \/ OnlyTcp
    \/ OnlyHubs
    \/ OnlyPeers
    \/ OnlyRelays
    \/ OnlyFailover
    \/ OnlyLinks
    \/ OnlyFiles
    \/ OnlyRequests
    \/ OnlyBroker

MCVars == <<focus, ipVars, plVars, mgVars, atVars, anVars, wpVars, dsVars, dfVars, brVars,
            acVars, wdVars, tlVars, rsVars, tcVars, taVars, tpVars, teVars, thVars, tfVars,
            ftVars, fsVars, rqVars, cbVars>>

MCSpec == MCInit /\ [][MCNext]_MCVars

(* The dashboard's sessions die with the password they were made for, sockets stay
   within their budget, and the shared caches never go back. *)
SessionsGuarded ==
    /\ [](focus = "dashboard_sessions" => DsTypeOK)
    /\ [](focus = "dashboard_sessions" => PasswordIsKnown)
    /\ OldSessionsRefused
    /\ [](focus = "dashboard_sessions" => SocketBudget)
    /\ [](focus = "feed" => DfTypeOK)
    /\ [](focus = "registry" => BrTypeOK)
    /\ [](focus = "api_cache" => AcTypeOK)
    /\ CacheGoesForward

Symmetric == Permutations(DsTokens) \cup Permutations(DsSockets)
====
