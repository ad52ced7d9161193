-------------------------- MODULE TransportMonitor --------------------------
(* The transport monitor (transport_monitor.py): turning the TCP interfaces of
   rnsd off and on with the internet, the pool of community hubs and its
   failover, the exchange of hub lists with peers; and the judgement of relay
   nodes by transport health (transport_health.py).                          *)
EXTENDS Integers, Sequences, FiniteSets, SequencesExt

CONSTANTS
    TaTimers,      \* bound: stabilization timers alive at a time
    TfPrimary,     \* primary hubs
    TfMaxFlips,    \* bound: changes of the network
    TpHubs,        \* hubs
    TpCommunity,   \* the hubs of the bundled list
    TpListed,      \* hubs named in the interfaces Reticulum has
    TpAlias,       \* hubs whose name resolves to the address of such an interface
    TpTarget,      \* target_connections
    TpCap,         \* _MAX_HUB_POOL_SIZE
    TePeers,       \* peers that exchange hub lists
    TeMax,         \* _MAX_EXCHANGE_PEERS
    TeAnnounces,   \* bound: peers announced
    ThNodes,       \* relay nodes
    ThDown,        \* down_threshold_checks
    ThChecks       \* bound: checks of a node

-----------------------------------------------------------------------------
(* TCP auto-manage: the event thread, the timers and the retry share the
   config under _config_lock.                                              *)

VARIABLES
    taOnline,      \* internet_available, as this plugin sees it
    taActive,      \* _active
    taConfig,      \* the TCP interfaces are enabled in the config
    taRnsd,        \* rnsd runs with them
    taState,       \* the state file names disabled interfaces
    taCool,        \* the cooldown of _restart_rnsd
    taTimer,       \* _tam_timer, or "none"
    taAt,          \* where each timer's thread is
    taHandler,     \* where the event thread is
    taRetry,       \* the deferred restart
    taFailed,      \* history: a restart failed though no cooldown refused it, or was not reached
    taTorn,        \* history: an end of the plugin or the process cut a change short
    taUnkept,      \* history: a disabled config was left without its state
    taLock         \* who has _config_lock, or "none"

taVars == <<taOnline, taActive, taConfig, taRnsd, taState, taCool, taTimer, taAt, taHandler,
            taRetry, taFailed, taTorn, taUnkept, taLock>>

TaInit ==
    /\ taOnline = TRUE /\ taActive = TRUE /\ taConfig = TRUE /\ taRnsd = TRUE /\ taState = FALSE
    /\ taCool = FALSE /\ taTimer = "none" /\ taAt = [t \in TaTimers |-> "free"]
    /\ taHandler = "idle" /\ taRetry = "none" /\ taLock = "none"
    /\ taFailed = FALSE /\ taTorn = FALSE /\ taUnkept = FALSE

(* The probe's transitions reach the handlers one after the other. *)
TaFlips ==
    /\ taActive /\ taHandler = "idle" /\ taOnline' = ~taOnline
    /\ taHandler' = IF taOnline THEN "lost" ELSE "available"
    /\ UNCHANGED <<taActive, taConfig, taRnsd, taState, taCool, taTimer, taAt, taRetry, taLock,
                   taFailed, taTorn, taUnkept>>

(* _schedule_tcp_disable: one timer at a time, for all it knows. *)
Schedules ==
    /\ taHandler = "lost" /\ taHandler' = "idle"
    /\ IF taTimer # "none" THEN UNCHANGED <<taTimer, taAt>>
       ELSE \E t \in TaTimers : /\ taAt[t] = "free" /\ taTimer' = t
                                /\ taAt' = [taAt EXCEPT ![t] = "waiting"]
    /\ UNCHANGED <<taOnline, taActive, taConfig, taRnsd, taState, taCool, taRetry, taLock,
                   taFailed, taTorn, taUnkept>>

(* _cancel_tcp_disable: a timer that has fired is past cancelling. *)
Uncounted(t) == IF t # "none" /\ taAt[t] = "waiting" THEN [taAt EXCEPT ![t] = "free"] ELSE taAt

Cancels ==
    /\ taHandler = "available" /\ taHandler' = "enable"
    /\ taTimer' = "none" /\ taAt' = Uncounted(taTimer)
    /\ UNCHANGED <<taOnline, taActive, taConfig, taRnsd, taState, taCool, taRetry, taLock,
                   taFailed, taTorn, taUnkept>>

(* The timer expires, and forgets whichever timer is noted. *)
TaExpires(t) ==
    /\ taAt[t] = "waiting" /\ taAt' = [taAt EXCEPT ![t] = "fired"]
    /\ UNCHANGED <<taOnline, taActive, taConfig, taRnsd, taState, taCool, taTimer, taHandler,
                   taRetry, taLock, taFailed, taTorn, taUnkept>>

TaChecks(t) ==
    /\ taAt[t] = "fired" /\ taTimer' = "none"
    /\ taAt' = [taAt EXCEPT ![t] = IF taActive /\ ~taOnline THEN "disable" ELSE "free"]
    /\ UNCHANGED <<taOnline, taActive, taConfig, taRnsd, taState, taCool, taHandler, taRetry,
                   taLock, taFailed, taTorn, taUnkept>>

(* write_rns_config: the file is replaced at once; it raises before that or,
   with the mode yet to be set, after it.                                    *)
WriteRaises(on) == taConfig' \in {taConfig, on}

(* _disable_tcp_interfaces, under the config lock: the config is written,
   rnsd restarted, and only then is the state kept.                       *)
Disables(t) ==
    /\ taAt[t] = "disable" /\ taLock = "none"
    /\ \/ /\ taConfig /\ taConfig' = FALSE /\ taLock' = t /\ taAt' = [taAt EXCEPT ![t] = "restart"]
          /\ UNCHANGED taUnkept
       \/ /\ taConfig /\ WriteRaises(FALSE) /\ taUnkept' = (taUnkept \/ ~taConfig')
          /\ taAt' = [taAt EXCEPT ![t] = "free"] /\ UNCHANGED taLock
       \/ /\ ~taConfig /\ taAt' = [taAt EXCEPT ![t] = "free"] /\ UNCHANGED <<taConfig, taLock, taUnkept>>
    /\ UNCHANGED <<taOnline, taActive, taRnsd, taState, taCool, taTimer, taHandler, taRetry,
                   taFailed, taTorn>>

(* _restart_rnsd: refused in the cooldown or by the broker; or rnsd takes the
   config, and may not be seen ready in time.                               *)
Restart(ok) ==
    \/ ~ok /\ taCool /\ UNCHANGED <<taRnsd, taCool, taFailed>>
    \/ ~ok /\ ~taCool /\ taFailed' = TRUE
       /\ \/ UNCHANGED <<taRnsd, taCool>>
          \/ taRnsd' = taConfig /\ taCool' = TRUE
    \/ ok /\ ~taCool /\ taRnsd' = taConfig /\ taCool' = TRUE /\ UNCHANGED taFailed

(* Mutant of Restarted: what was written stays when rnsd is not restarted. *)
RestartedUnreverted(t) ==
    /\ taAt[t] = "restart"
    /\ \E ok \in BOOLEAN : Restart(ok) /\ taAt' = [taAt EXCEPT ![t] = IF ok THEN "persist" ELSE "free"]
                           /\ taLock' = IF ok THEN t ELSE "none"
    /\ UNCHANGED <<taOnline, taActive, taConfig, taState, taTimer, taHandler, taRetry, taTorn, taUnkept>>

Restarted(t) ==
    /\ taAt[t] = "restart"
    /\ \E ok \in BOOLEAN : Restart(ok) /\ taAt' = [taAt EXCEPT ![t] = IF ok THEN "persist" ELSE "revert"]
    /\ UNCHANGED <<taOnline, taActive, taConfig, taState, taTimer, taHandler, taRetry, taLock,
                   taTorn, taUnkept>>

(* The config is turned back, unless reading or writing it raises. *)
Reverts(t) ==
    /\ taAt[t] = "revert" /\ WriteRaises(TRUE) /\ taUnkept' = (taUnkept \/ ~taConfig')
    /\ taAt' = [taAt EXCEPT ![t] = "free"] /\ taLock' = "none"
    /\ UNCHANGED <<taOnline, taActive, taRnsd, taState, taCool, taTimer, taHandler, taRetry,
                   taFailed, taTorn>>

(* The state file is written or removed; an error is only logged. *)
Kept(on) == taState' \in {taState, on}

Cleared(ok) == IF ok THEN Kept(FALSE) ELSE UNCHANGED taState

TaPersists(t) ==
    /\ taAt[t] = "persist" /\ Kept(TRUE) /\ taUnkept' = (taUnkept \/ ~taState')
    /\ taAt' = [taAt EXCEPT ![t] = "free"] /\ taLock' = "none"
    /\ UNCHANGED <<taOnline, taActive, taConfig, taRnsd, taCool, taTimer, taHandler, taRetry,
                   taFailed, taTorn>>

(* _enable_tcp_interfaces: nothing noted, nothing to do; noted but enabled
   already, the note goes; otherwise the config is written and rnsd restarted. *)
Enables ==
    /\ taHandler = "enable" /\ taLock = "none"
    /\ \/ ~taState /\ taHandler' = "idle" /\ UNCHANGED <<taConfig, taState, taLock, taFailed>>
       \/ taState /\ taConfig /\ Kept(FALSE) /\ taHandler' = "idle" /\ UNCHANGED <<taConfig,
                                                                                   taLock, taFailed>>
       \/ taState /\ ~taConfig /\ taConfig' = TRUE /\ taLock' = "handler" /\ taHandler' = "restart"
          /\ UNCHANGED <<taState, taFailed>>
       \/ taState /\ ~taConfig /\ WriteRaises(TRUE) /\ taFailed' = (taFailed \/ taConfig')
          /\ taHandler' = "idle" /\ UNCHANGED <<taState, taLock>>
    /\ UNCHANGED <<taOnline, taActive, taRnsd, taCool, taTimer, taAt, taRetry, taTorn, taUnkept>>

(* Mutant of Reenabled: a restart that was refused is not tried again. *)
ReenabledOnce ==
    /\ taHandler = "restart" /\ taHandler' = "idle" /\ taLock' = "none"
    /\ \E ok \in BOOLEAN : Restart(ok) /\ Cleared(ok) /\ UNCHANGED taRetry
    /\ UNCHANGED <<taOnline, taActive, taConfig, taTimer, taAt, taTorn, taUnkept>>

Reenabled ==
    /\ taHandler = "restart" /\ taHandler' = "idle" /\ taLock' = "none"
    /\ \E ok \in BOOLEAN :
          /\ Restart(ok) /\ Cleared(ok)
          /\ taRetry' = IF ok THEN taRetry ELSE IF taCool' THEN "waiting" ELSE "due"
    /\ UNCHANGED <<taOnline, taActive, taConfig, taTimer, taAt, taTorn, taUnkept>>

(* The cooldown ends, and the retry that waited for it is due a second later:
   long before another cooldown has passed.                                  *)
TaCools ==
    /\ taCool /\ taRetry # "due" /\ taCool' = FALSE
    /\ taRetry' = IF taRetry = "waiting" THEN "due" ELSE taRetry
    /\ UNCHANGED <<taOnline, taActive, taConfig, taRnsd, taState, taTimer, taAt, taHandler, taLock,
                   taFailed, taTorn, taUnkept>>

(* Mutant of Retries: whether rnsd could be restarted or not, the note goes. *)
RetriesForgetful ==
    /\ taRetry = "due" /\ taLock = "none"
    /\ taRetry' = "none" /\ taTorn' = (taTorn \/ ~taActive)
    /\ IF taActive THEN \E ok \in BOOLEAN : Restart(ok) /\ Kept(FALSE)
       ELSE UNCHANGED <<taRnsd, taCool, taFailed, taState>>
    /\ UNCHANGED <<taOnline, taActive, taConfig, taTimer, taAt, taHandler, taLock, taUnkept>>

Retries ==
    /\ taRetry = "due" /\ taLock = "none"
    /\ taRetry' = "none" /\ taTorn' = (taTorn \/ ~taActive)
    /\ IF taActive THEN \E ok \in BOOLEAN : Restart(ok) /\ Cleared(ok)
       ELSE UNCHANGED <<taRnsd, taCool, taFailed, taState>>
    /\ UNCHANGED <<taOnline, taActive, taConfig, taTimer, taAt, taHandler, taLock, taUnkept>>

(* stop() cancels the timer that is noted and the retry. *)
TaStops ==
    /\ taActive /\ taActive' = FALSE /\ taTimer' = "none" /\ taAt' = Uncounted(taTimer)
    /\ taRetry' = "none" /\ taTorn' = (taTorn \/ taRetry # "none")
    /\ UNCHANGED <<taOnline, taConfig, taRnsd, taState, taCool, taHandler, taLock, taFailed, taUnkept>>

(* The process ends, in whatever its threads were doing, and starts again:
   _startup_tcp_recovery enables what is noted when the internet is there.  *)
TaReboot ==
    /\ taTorn' = (taTorn \/ taRetry # "none" \/ taLock # "none")
    /\ taUnkept' = (taUnkept \/ (taLock \in TaTimers /\ ~taState))
    /\ taActive' = TRUE /\ taTimer' = "none" /\ taAt' = [t \in TaTimers |-> "free"]
    /\ taHandler' = (IF taState /\ taOnline THEN "enable" ELSE "idle") /\ taRetry' = "none"
    /\ taLock' = "none" /\ taCool' = FALSE
    /\ UNCHANGED <<taOnline, taConfig, taRnsd, taState, taFailed>>

TaNext ==
    \/ TaFlips \/ Schedules \/ Cancels \/ Enables \/ Reenabled \/ TaCools \/ Retries \/ TaStops
    \/ TaReboot
    \/ \E t \in TaTimers : TaExpires(t) \/ TaChecks(t) \/ Disables(t) \/ Restarted(t) \/ Reverts(t) \/ TaPersists(t)

TaTypeOK ==
    /\ {taOnline, taActive, taConfig, taRnsd, taState, taCool, taFailed, taTorn, taUnkept} \subseteq BOOLEAN
    /\ taTimer \in TaTimers \cup {"none"} /\ taLock \in TaTimers \cup {"handler", "none"}
    /\ taAt \in [TaTimers -> {"free", "waiting", "fired", "disable", "restart", "revert", "persist"}]
    /\ taHandler \in {"idle", "lost", "available", "enable", "restart"}
    /\ taRetry \in {"none", "waiting", "due"}

TaQuiet == taLock = "none" /\ taHandler = "idle" /\ \A t \in TaTimers : taAt[t] \in {"free", "waiting"}

(* Whatever timers, restarts, refusals, failing writes and crashes overlap, an
   interface that is off in the config is one the state file knows to turn on
   again.  It is left without its state in three ways only, which the code
   logs or does not see: the state could not be written, the config could not
   be turned back, or the process ended between the two writes.              *)
DisabledIsRecorded == taLock = "none" /\ ~taConfig => taState \/ taUnkept

(* rnsd runs with what the config says, once nothing is in progress and while
   every write and every restart it is asked for succeeds.                     *)
RnsdFollowsConfig ==
    TaQuiet /\ taRetry = "none" /\ taActive /\ ~taFailed /\ ~taTorn /\ ~taUnkept => taRnsd = taConfig

(* "Re-enables when internet returns": with the internet there and nothing in
   progress, the interfaces are on.                                           *)
OnlineIsEnabled == TaQuiet /\ taOnline /\ taActive => taConfig

-----------------------------------------------------------------------------
(* Failover: the monitor thread probes the primary hubs and keeps a fallback
   while all of them are down.                                              *)

VARIABLES
    tfUp,          \* primary hubs that can be reached
    tfTodo,        \* primary hubs the check has yet to probe
    tfAny,         \* any_online
    tfDown,        \* _all_down_since: none, a while ago, beyond the threshold
    tfActive,      \* _fallback_active
    tfTracked,     \* interfaces in _active_fallbacks
    tfLive,        \* fallback interfaces in RNS.Transport
    tfLeft,        \* those among them whose detach raised
    tfNet,         \* internet_available
    tfAt,          \* where the monitor thread is
    tfFlips        \* changes of the network so far

tfVars == <<tfUp, tfTodo, tfAny, tfDown, tfActive, tfTracked, tfLive, tfLeft, tfNet, tfAt, tfFlips>>

TfInit ==
    /\ tfUp = TfPrimary /\ tfTodo = {} /\ tfAny = FALSE /\ tfDown = "no" /\ tfActive = FALSE
    /\ tfTracked = 0 /\ tfLive = 0 /\ tfLeft = 0 /\ tfNet = TRUE /\ tfAt = "idle" /\ tfFlips = 0

(* The network changes, or time passes over an outage. *)
TfChanges ==
    /\ tfFlips < TfMaxFlips /\ tfFlips' = tfFlips + 1
    /\ \/ tfUp' \in SUBSET TfPrimary /\ UNCHANGED tfNet
       \/ tfNet' = ~tfNet /\ UNCHANGED tfUp
    /\ UNCHANGED <<tfTodo, tfAny, tfDown, tfActive, tfTracked, tfLive, tfAt, tfLeft>>

TfLasts ==
    /\ tfDown = "since" /\ tfDown' = "long"
    /\ UNCHANGED <<tfUp, tfTodo, tfAny, tfActive, tfTracked, tfLive, tfNet, tfAt, tfFlips, tfLeft>>

TfBegins ==
    /\ tfAt = "idle" /\ tfNet /\ tfAt' = "probe" /\ tfTodo' = TfPrimary /\ tfAny' = FALSE
    /\ UNCHANGED <<tfUp, tfDown, tfActive, tfTracked, tfLive, tfNet, tfFlips, tfLeft>>

TfProbes(h) ==
    /\ tfAt = "probe" /\ h \in tfTodo /\ tfTodo' = tfTodo \ {h} /\ tfAny' = (tfAny \/ h \in tfUp)
    /\ UNCHANGED <<tfUp, tfDown, tfActive, tfTracked, tfLive, tfNet, tfAt, tfFlips, tfLeft>>

(* Mutant of TfDecides: whether a fallback is active is not asked. *)
TfDecidesAgain ==
    /\ tfAt = "probe" /\ tfTodo = {}
    /\ IF tfAny THEN tfDown' = "no" /\ tfAt' = (IF tfActive THEN "deactivate" ELSE "idle")
       ELSE /\ tfDown' = (IF tfDown = "no" THEN "since" ELSE tfDown)
            /\ tfAt' = IF tfDown = "long" THEN "activate" ELSE "idle"
    /\ UNCHANGED <<tfUp, tfTodo, tfAny, tfActive, tfTracked, tfLive, tfNet, tfFlips, tfLeft>>

TfDecides ==
    /\ tfAt = "probe" /\ tfTodo = {}
    /\ IF tfAny THEN tfDown' = "no" /\ tfAt' = (IF tfActive THEN "deactivate" ELSE "idle")
       ELSE /\ tfDown' = (IF tfDown = "no" THEN "since" ELSE tfDown)
            /\ tfAt' = IF tfDown = "long" /\ ~tfActive THEN "activate" ELSE "idle"
    /\ UNCHANGED <<tfUp, tfTodo, tfAny, tfActive, tfTracked, tfLive, tfNet, tfFlips, tfLeft>>

(* The first fallback whose interface can be made is used; none may be. *)
TfActivates ==
    /\ tfAt = "activate" /\ tfLive < TfMaxFlips + 2
    /\ \/ tfLive' = tfLive + 1 /\ tfAt' = "track"
       \/ tfAt' = "idle" /\ UNCHANGED tfLive
    /\ UNCHANGED <<tfUp, tfTodo, tfAny, tfDown, tfActive, tfTracked, tfNet, tfFlips, tfLeft>>

(* Mutant of TfTracks: the interface is not kept in the list. *)
TfTracksNothing ==
    /\ tfAt = "track" /\ tfAt' = "idle" /\ tfActive' = TRUE
    /\ UNCHANGED <<tfUp, tfTodo, tfAny, tfDown, tfTracked, tfLive, tfNet, tfFlips, tfLeft>>

TfTracks ==
    /\ tfAt = "track" /\ tfAt' = "idle" /\ tfActive' = TRUE /\ tfTracked' = tfTracked + 1
    /\ UNCHANGED <<tfUp, tfTodo, tfAny, tfDown, tfLive, tfNet, tfFlips, tfLeft>>

(* Whether an interface could be detached or not, it is no longer tracked. *)
TfDeactivates ==
    /\ tfAt = "deactivate" /\ tfAt' = "idle" /\ tfActive' = FALSE /\ tfTracked' = 0
    /\ \E failed \in 0 .. tfTracked : /\ tfLive' = tfLive - tfTracked + failed
                                      /\ tfLeft' = tfLeft + failed
    /\ UNCHANGED <<tfUp, tfTodo, tfAny, tfDown, tfNet, tfFlips>>

TfThread ==
    \/ TfBegins \/ TfDecides \/ TfActivates \/ TfTracks \/ TfDeactivates
    \/ \E h \in TfPrimary : TfProbes(h)

TfNext == TfThread \/ TfChanges \/ TfLasts

TfTypeOK ==
    /\ tfUp \subseteq TfPrimary /\ tfTodo \subseteq TfPrimary /\ {tfAny, tfActive, tfNet} \subseteq BOOLEAN
    /\ tfDown \in {"no", "since", "long"} /\ tfTracked \in 0 .. TfMaxFlips + 2 /\ tfLeft \in 0 .. tfLive /\ tfLive \in 0 .. TfMaxFlips + 2
    /\ tfAt \in {"idle", "probe", "activate", "track", "deactivate"}

(* There is one fallback at most that is not the remains of one whose detach
   raised, however often hubs come and go; and what is used is tracked.       *)
OneFallback == tfLive - tfLeft <= 1 /\ (tfActive => tfTracked = tfLive - tfLeft)

(* Once a primary hub stays reachable, the fallback is taken down for good, but
   for what could not be detached.                                            *)
FallbackEnds == <>[](tfUp # {} /\ tfNet) => <>[](tfLive = tfLeft)

-----------------------------------------------------------------------------
(* The pool of community hubs: the pool thread, the merges of the exchange
   thread and stop().                                                      *)

VARIABLES
    tpPc,          \* where the pool thread is
    tpPool,        \* _hub_pool
    tpStale,       \* hubs last seen before the cutoff of the sweep
    tpPinned,      \* _pinned_hubs
    tpAuto,        \* _auto_interfaces
    tpIfaces,      \* hubs with an interface in RNS.Transport
    tpLeft,        \* hubs with one whose detach raised
    tpFails,       \* failures noted in _hub_cooldowns
    tpCooling,     \* hubs whose cooldown lasts
    tpTodo,        \* hubs to drop, or candidates to connect to
    tpNeed,        \* connections still needed
    tpCur,         \* hubs whose interface is being made or taken down
    tpOff,         \* _tcp_disabled
    tpStop,        \* where stop() is
    tpDetach       \* interfaces stop() has taken and not yet detached

tpVars == <<tpPc, tpPool, tpStale, tpPinned, tpAuto, tpIfaces, tpLeft, tpFails, tpCooling, tpTodo, tpNeed,
            tpCur, tpOff, tpStop, tpDetach>>

TpInit ==
    /\ tpPc = "boot" /\ tpPool = {} /\ tpStale = {} /\ tpPinned = {} /\ tpAuto = {} /\ tpIfaces = {} /\ tpLeft = {}
    /\ tpFails = [h \in TpHubs |-> 0] /\ tpCooling = {} /\ tpTodo = {} /\ tpNeed = 0 /\ tpCur = {}
    /\ tpOff = FALSE /\ tpStop = "run" /\ tpDetach = {}

(* The names configured, and the names in the pool that resolve to an address
   configured: the pool is loaded only afterwards.                            *)
Pins ==
    /\ tpPc = "boot" /\ tpPc' = "load"
    /\ tpPinned' = TpListed \cup (tpPool \cap TpAlias)
    /\ UNCHANGED <<tpPool, tpStale, tpAuto, tpIfaces, tpFails, tpCooling, tpTodo, tpNeed, tpCur,
                   tpOff, tpStop, tpDetach, tpLeft>>

Loads ==
    /\ tpPc = "load" /\ tpPc' = "idle" /\ tpPool' = TpCommunity
    /\ UNCHANGED <<tpStale, tpPinned, tpAuto, tpIfaces, tpFails, tpCooling, tpTodo, tpNeed, tpCur,
                   tpOff, tpStop, tpDetach, tpLeft>>

(* Mutant of SweptPool: a hub's age alone counts. *)
SweptPoolByAge(pool) == {h \in pool : h \notin tpStale \/ h \in TpCommunity}

SweptPool(pool) == {h \in pool : h \notin tpStale \/ h \in tpAuto \/ h \in TpCommunity}

(* A tick; every tenth one sweeps the pool first. *)
Ticks ==
    /\ tpPc = "idle" /\ tpStop = "run" /\ tpTodo' = tpAuto
    /\ \E pool \in {tpPool, SweptPool(tpPool)} :
          /\ tpPool' = pool
          /\ IF pool = tpPool THEN UNCHANGED <<tpFails, tpCooling>>
             ELSE /\ tpFails' = [h \in TpHubs |-> IF h \in pool THEN tpFails[h] ELSE 0]
                  /\ tpCooling' = tpCooling \cap pool
    /\ tpPc' = IF tpOff THEN "drop" ELSE "probe"
    /\ UNCHANGED <<tpStale, tpPinned, tpAuto, tpIfaces, tpNeed, tpCur, tpOff, tpStop, tpDetach, tpLeft>>

(* Every connection is probed, and those that fail are dropped. *)
Probed ==
    /\ tpPc = "probe" /\ tpPc' = "drop" /\ tpTodo' \in SUBSET tpTodo
    /\ UNCHANGED <<tpPool, tpStale, tpPinned, tpAuto, tpIfaces, tpFails, tpCooling, tpNeed, tpCur,
                   tpOff, tpStop, tpDetach, tpLeft>>

TmDrops(h) ==
    /\ tpPc = "drop" /\ h \in tpTodo /\ tpCur = {} /\ tpTodo' = tpTodo \ {h}
    /\ tpAuto' = tpAuto \ {h} /\ tpCur' = tpAuto \cap {h}
    /\ UNCHANGED <<tpPc, tpPool, tpStale, tpPinned, tpIfaces, tpFails, tpCooling, tpNeed, tpOff,
                   tpStop, tpDetach, tpLeft>>

(* _update_cooldown: longer with every failure, up to max_cooldown_seconds. *)
Cooldown(h) ==
    /\ tpFails' = [tpFails EXCEPT ![h] = IF @ < 3 THEN @ + 1 ELSE @]
    /\ tpCooling' = tpCooling \cup {h}

(* An interface is detached and removed from RNS.Transport; if that raises, it
   stays there and nobody has it any more.                                  *)
Detached(h) ==
    \/ tpIfaces' = tpIfaces \ ({h} \ tpLeft) /\ UNCHANGED tpLeft
    \/ tpLeft' = tpLeft \cup {h} /\ UNCHANGED tpIfaces


Dropped(h) ==
    /\ tpPc = "drop" /\ h \in tpCur /\ tpCur' = {} /\ Detached(h) /\ Cooldown(h)
    /\ UNCHANGED <<tpPc, tpPool, tpStale, tpPinned, tpAuto, tpTodo, tpNeed, tpOff, tpStop, tpDetach>>

(* Mutant of Candidates: hubs whose cooldown lasts are tried as well. *)
CandidatesWarm(h) == h \in tpPool \ (tpPinned \cup tpAuto)

Candidates(h) == h \in tpPool \ (tpPinned \cup tpAuto \cup tpCooling)

Size(needed, n) == IF 2 * needed < n THEN 2 * needed ELSE n

(* _select_candidates takes twice what is needed, for diversity or at random. *)
Selects ==
    /\ tpPc = "drop" /\ tpTodo = {} /\ tpCur = {}
    /\ LET needed == TpTarget - Cardinality(tpAuto)
           free == {h \in TpHubs : Candidates(h)}
       IN IF tpOff \/ needed <= 0 THEN tpPc' = "idle" /\ UNCHANGED <<tpTodo, tpNeed>>
          ELSE /\ tpPc' = "connect" /\ tpNeed' = needed
               /\ \E c \in SUBSET free : Cardinality(c) = Size(needed, Cardinality(free)) /\ tpTodo' = c
    /\ UNCHANGED <<tpPool, tpStale, tpPinned, tpAuto, tpIfaces, tpFails, tpCooling, tpCur, tpOff, tpStop,
                   tpDetach, tpLeft>>

(* A candidate does not answer the probe, or its interface cannot be made. *)
Unreached(h) ==
    /\ tpPc = "connect" /\ tpNeed > 0 /\ h \in tpTodo /\ tpCur = {} /\ tpTodo' = tpTodo \ {h} /\ Cooldown(h)
    /\ UNCHANGED <<tpPc, tpPool, tpStale, tpPinned, tpAuto, tpIfaces, tpNeed, tpCur, tpOff, tpStop,
                   tpDetach, tpLeft>>

(* Mutant of Connects: every candidate is connected to. *)
ConnectsAll(h) ==
    /\ tpPc = "connect" /\ h \in tpTodo /\ tpCur = {} /\ tpTodo' = tpTodo \ {h}
    /\ tpCur' = {h} /\ tpIfaces' = tpIfaces \cup {h}
    /\ UNCHANGED <<tpPc, tpPool, tpStale, tpPinned, tpAuto, tpFails, tpCooling, tpNeed, tpOff,
                   tpStop, tpDetach, tpLeft>>

Connects(h) ==
    /\ tpPc = "connect" /\ tpNeed > 0 /\ h \in tpTodo /\ tpCur = {} /\ tpTodo' = tpTodo \ {h}
    /\ tpCur' = {h} /\ tpIfaces' = tpIfaces \cup {h}
    /\ UNCHANGED <<tpPc, tpPool, tpStale, tpPinned, tpAuto, tpFails, tpCooling, tpNeed, tpOff,
                   tpStop, tpDetach, tpLeft>>

Tracks(h) ==
    /\ tpPc = "connect" /\ h \in tpCur /\ tpCur' = {} /\ tpAuto' = tpAuto \cup {h}
    /\ tpNeed' = IF tpNeed > 0 THEN tpNeed - 1 ELSE 0
    /\ tpStale' = tpStale \ {h} /\ tpFails' = [tpFails EXCEPT ![h] = 0] /\ tpCooling' = tpCooling \ {h}
    /\ UNCHANGED <<tpPc, tpPool, tpPinned, tpIfaces, tpTodo, tpOff, tpStop, tpDetach, tpLeft>>

TickEnds ==
    /\ tpPc = "connect" /\ tpCur = {} /\ (tpTodo = {} \/ tpNeed = 0) /\ tpPc' = "idle"
    /\ tpTodo' = {} /\ tpNeed' = 0
    /\ UNCHANGED <<tpPool, tpStale, tpPinned, tpAuto, tpIfaces, tpFails, tpCooling, tpCur, tpOff,
                   tpStop, tpDetach, tpLeft>>

(* _merge_exchanged_hubs, by the exchange thread. *)
Merges(h) ==
    /\ tpStop = "run" /\ h \notin tpPool \cup tpPinned \cup TpCommunity /\ Cardinality(tpPool) < TpCap
    /\ tpPool' = tpPool \cup {h} /\ tpStale' = tpStale \ {h}
    /\ UNCHANGED <<tpPc, tpPinned, tpAuto, tpIfaces, tpFails, tpCooling, tpTodo, tpNeed, tpCur, tpOff,
                   tpStop, tpDetach, tpLeft>>

(* Time: a hub becomes stale, a cooldown ends; and the monitor thread finds the
   TCP interfaces turned off or on.                                             *)
TpTime ==
    /\ \/ \E h \in tpPool \ TpCommunity : tpStale' = tpStale \cup {h} /\ UNCHANGED <<tpCooling, tpOff>>
       \/ \E h \in tpCooling : tpCooling' = tpCooling \ {h} /\ UNCHANGED <<tpStale, tpOff>>
       \/ tpOff' = ~tpOff /\ UNCHANGED <<tpStale, tpCooling>>
    /\ UNCHANGED <<tpPc, tpPool, tpPinned, tpAuto, tpIfaces, tpFails, tpTodo, tpNeed, tpCur,
                   tpStop, tpDetach, tpLeft>>

(* stop(): the flag, then the interfaces, then the threads. *)
TpStops ==
    /\ tpStop = "run" /\ tpStop' = "flag"
    /\ UNCHANGED <<tpPc, tpPool, tpStale, tpPinned, tpAuto, tpIfaces, tpFails, tpCooling, tpTodo, tpNeed,
                   tpCur, tpOff, tpDetach, tpLeft>>

TearsDown ==
    /\ tpStop = "flag" /\ tpStop' = "torn" /\ tpDetach' = tpAuto /\ tpAuto' = {}
    /\ UNCHANGED <<tpPc, tpPool, tpStale, tpPinned, tpIfaces, tpFails, tpCooling, tpTodo, tpNeed,
                   tpCur, tpOff, tpLeft>>

TmDetaches(h) ==
    /\ h \in tpDetach /\ tpDetach' = tpDetach \ {h} /\ Detached(h)
    /\ UNCHANGED <<tpPc, tpPool, tpStale, tpPinned, tpAuto, tpFails, tpCooling, tpTodo, tpNeed,
                   tpCur, tpOff, tpStop>>

Joins ==
    /\ tpStop = "torn" /\ tpDetach = {} /\ tpPc \in {"boot", "idle"} /\ tpStop' = "joined"
    /\ UNCHANGED <<tpPc, tpPool, tpStale, tpPinned, tpAuto, tpIfaces, tpFails, tpCooling, tpTodo, tpNeed,
                   tpCur, tpOff, tpDetach, tpLeft>>

TpNext ==
    \/ Pins \/ Loads \/ Ticks \/ Probed \/ Selects \/ TickEnds \/ TpTime \/ TpStops \/ TearsDown \/ Joins
    \/ \E h \in TpHubs : \/ TmDrops(h) \/ Dropped(h) \/ Unreached(h) \/ Connects(h) \/ Tracks(h)
                         \/ Merges(h) \/ TmDetaches(h)

TpTypeOK ==
    /\ tpPc \in {"boot", "load", "idle", "probe", "drop", "connect"}
    /\ tpStop \in {"run", "flag", "torn", "joined"} /\ tpOff \in BOOLEAN
    /\ tpFails \in [TpHubs -> 0 .. 3] /\ tpNeed \in 0 .. TpTarget
    /\ UNION {tpPool, tpStale, tpPinned, tpAuto, tpIfaces, tpLeft, tpCooling, tpTodo, tpCur, tpDetach} \subseteq TpHubs

(* An interface of the pool in RNS.Transport is one somebody will take down (it
   is tracked, being made, being dropped, or in the hands of stop()), or one
   whose detach raised: that error is swallowed, and it stays.                 *)
InterfacesTracked == tpIfaces \subseteq tpAuto \cup tpCur \cup tpDetach \cup tpLeft

(* The pool never holds more connections than it is meant to, nor one the
   sweep has let go of.                                                     *)
PoolConsistent ==
    /\ Cardinality(tpAuto) <= TpTarget
    /\ tpAuto \subseteq tpPool \/ tpStop # "run"

(* A hub that failed is left alone for its cooldown, and a hub that is
   configured for ever, whatever lists come in meanwhile.               *)
LeftAlone == [][(tpIfaces' \ tpIfaces) \cap (tpCooling \cup TpListed) = {}]_tpVars

(* "Identify hubs already configured in Reticulum so we don't duplicate them":
   no interface of the pool leads to a hub an interface of Reticulum's has.    *)
NoDuplicateHub == tpIfaces \cap (TpListed \cup TpAlias) = {}

-----------------------------------------------------------------------------
(* The peers of the exchange: announces fill the table, the exchange thread
   asks the least recently asked.                                            *)

VARIABLES
    teNever,       \* peers never asked, as they came
    teAsked,       \* peers asked, by when
    teTodo,        \* the peers a tick still has to try
    teCur,         \* the peer being asked, or "none"
    teAlive,       \* peers that answer
    teCount        \* peers announced so far

teVars == <<teNever, teAsked, teTodo, teCur, teAlive, teCount>>

TeInit ==
    /\ teNever = <<>> /\ teAsked = <<>> /\ teTodo = <<>> /\ teCur = "none" /\ teCount = 0
    /\ teAlive \in SUBSET TePeers

Known == ToSet(teNever) \cup ToSet(teAsked)

Announced(p) ==
    /\ p \notin Known /\ teCount < TeAnnounces /\ teCount' = teCount + 1
    /\ LET full == Cardinality(Known) >= TeMax
           never == IF full /\ teNever # <<>> THEN Tail(teNever) ELSE teNever
       IN /\ teNever' = Append(never, p)
          /\ teAsked' = IF full /\ teNever = <<>> THEN Tail(teAsked) ELSE teAsked
    /\ UNCHANGED <<teTodo, teCur, teAlive>>

(* Mutant of Order: the peer asked last comes first. *)
OrderLatest == teNever \o Reverse(teAsked)

Order == teNever \o teAsked

TeTick ==
    /\ teTodo = <<>> /\ teCur = "none" /\ Known # {} /\ teTodo' = Order
    /\ UNCHANGED <<teNever, teAsked, teCur, teAlive, teCount>>

TmAsks ==
    /\ teCur = "none" /\ teTodo # <<>> /\ teCur' = Head(teTodo) /\ teTodo' = Tail(teTodo)
    /\ UNCHANGED <<teNever, teAsked, teAlive, teCount>>

(* One answer is enough for a tick; the peer is noted, also when an announce
   has taken its place meanwhile.                                            *)
Answered ==
    /\ teCur \in teAlive /\ teCur' = "none" /\ teTodo' = <<>>
    /\ teNever' = SelectSeq(teNever, LAMBDA q : q # teCur)
    /\ teAsked' = Append(SelectSeq(teAsked, LAMBDA q : q # teCur), teCur)
    /\ UNCHANGED <<teAlive, teCount>>

(* Mutant of Unanswered: the first peer that does not answer ends the tick. *)
UnansweredEnds ==
    /\ teCur \in TePeers \ teAlive /\ teCur' = "none" /\ teTodo' = <<>>
    /\ UNCHANGED <<teNever, teAsked, teAlive, teCount>>

Unanswered ==
    /\ teCur \in TePeers \ teAlive /\ teCur' = "none"
    /\ UNCHANGED <<teNever, teAsked, teTodo, teAlive, teCount>>

TeNext == TeTick \/ TmAsks \/ Answered \/ Unanswered \/ \E p \in TePeers : Announced(p)

TeTypeOK ==
    /\ Known \subseteq TePeers /\ ToSet(teTodo) \subseteq TePeers /\ teCur \in TePeers \cup {"none"}
    /\ teAlive \subseteq TePeers /\ teCount \in 0 .. TeAnnounces
    /\ Len(teNever) + Len(teAsked) = Cardinality(Known)

(* Peers that do not answer never keep the exchange from one that does: a known
   peer that answers is asked, unless announces push it out first.              *)
PeersTakeTurns ==
    \A p \in TePeers : (p \in Known /\ p \in teAlive) ~> (teCur = p \/ p \notin Known)

-----------------------------------------------------------------------------
(* Transport health: a check judges every node by its history, the database
   keeps the record without the streaks, a start reads it back.             *)

VARIABLES
    thNode,        \* record of each node: status, checks, appearances, absences in a row
    thDb,          \* what the database has of it
    thSaid,        \* the event the last check published
    thGone,        \* DOWN was published, and the node not seen since
    thLoaded,      \* 2: read from the database; 1: checked once since
    thPc           \* where the thread is

thVars == <<thNode, thDb, thSaid, thGone, thLoaded, thPc>>

ThNone == [st |-> "none", checks |-> 0, seen |-> 0, absent |-> 0]

ThInit ==
    /\ thNode = [n \in ThNodes |-> ThNone] /\ thDb = thNode /\ thSaid = [n \in ThNodes |-> "none"]
    /\ thGone = [n \in ThNodes |-> FALSE] /\ thLoaded = [n \in ThNodes |-> 0] /\ thPc = "check"

(* Mutant of Classified: a node is down at the threshold, and not beyond. *)
ClassifiedAtThreshold(r) ==
    IF r.checks <= 3 THEN "new"
    ELSE IF r.absent = ThDown THEN "down"
    ELSE IF 100 * r.seen < 80 * r.checks THEN "degraded" ELSE "healthy"

Classified(r) ==
    IF r.checks <= 3 THEN "new"
    ELSE IF r.absent >= ThDown THEN "down"
    ELSE IF 100 * r.seen < 80 * r.checks THEN "degraded" ELSE "healthy"

(* Mutant of Said: an event for every check that finds a node down. *)
SaidEachTime(old, new) ==
    IF new = "down" THEN "down"
    ELSE IF new = "healthy" /\ old = "down" THEN "recovered"
    ELSE IF new = "degraded" /\ old = "healthy" THEN "degraded" ELSE "none"

(* The event of a transition: a node that leaves "down" as degraded has none. *)
Said(old, new) ==
    IF new = "down" /\ old # "down" THEN "down"
    ELSE IF new = "healthy" /\ old = "down" THEN "recovered"
    ELSE IF new = "degraded" /\ old = "healthy" THEN "degraded" ELSE "none"

Recorded(r, here) ==
    LET c == [r EXCEPT !.checks = @ + 1, !.seen = IF here THEN @ + 1 ELSE @,
                       !.absent = IF here THEN 0 ELSE @ + 1]
    IN [c EXCEPT !.st = Classified(c)]

RunCheck(here) ==
    /\ thPc = "check" /\ thPc' = "persist"
    /\ \A n \in ThNodes : thNode[n].checks < ThChecks
    /\ thNode' = [n \in ThNodes |->
                    IF thNode[n].st # "none" THEN Recorded(thNode[n], n \in here)
                    ELSE IF n \in here THEN [st |-> "new", checks |-> 1, seen |-> 1, absent |-> 0]
                    ELSE thNode[n]]
    /\ thSaid' = [n \in ThNodes |-> IF thNode[n].st = "none" THEN "none"
                                    ELSE Said(thNode[n].st, thNode'[n].st)]
    /\ thGone' = [n \in ThNodes |-> n \notin here /\ (thGone[n] \/ thSaid[n] = "down")]
    /\ thLoaded' = [n \in ThNodes |-> IF thLoaded[n] = 2 THEN 1 ELSE 0]
    /\ UNCHANGED thDb

ThPersists ==
    /\ thPc = "persist" /\ thPc' = "check" /\ thDb' = thNode
    /\ UNCHANGED <<thNode, thSaid, thGone, thLoaded>>

(* _prune_history: what was not seen for the whole retention goes, from the
   database and then from memory.                                           *)
ThPrunes(n) ==
    /\ thPc = "check" /\ thNode[n].absent > ThDown /\ thDb' = [thDb EXCEPT ![n] = ThNone]
    /\ thNode' = [thNode EXCEPT ![n] = ThNone] /\ thGone' = [thGone EXCEPT ![n] = FALSE]
    /\ thSaid' = [thSaid EXCEPT ![n] = "none"]
    /\ UNCHANGED <<thLoaded, thPc>>

(* A restart: _load_from_db keeps the status and starts the streaks at zero. *)
ThRestarts ==
    /\ thPc' = "check" /\ thNode' = [n \in ThNodes |-> [thDb[n] EXCEPT !.absent = 0]]
    /\ thSaid' = [n \in ThNodes |-> "none"] /\ thGone' = [n \in ThNodes |-> FALSE]
    /\ thLoaded' = [n \in ThNodes |-> 2] /\ UNCHANGED thDb

ThNext ==
    \/ \E here \in SUBSET ThNodes : RunCheck(here)
    \/ ThPersists \/ ThRestarts \/ \E n \in ThNodes : ThPrunes(n)

ThTypeOK ==
    /\ thNode \in [ThNodes -> [st : {"none", "new", "healthy", "degraded", "down"}, checks : 0 .. ThChecks,
                               seen : 0 .. ThChecks, absent : 0 .. ThChecks]]
    /\ thPc \in {"check", "persist"}

(* A node that stays away is reported down once in a life of the plugin. *)
DownOncePerAbsence == \A n \in ThNodes : ~(thSaid[n] = "down" /\ thGone[n])

(* A node reported recovered is there; only the first check after a start,
   which has lost the streak, may say so of one that is absent.            *)
RecoveredIsPresent ==
    \A n \in ThNodes : thSaid[n] = "recovered" => thNode[n].absent = 0 \/ thLoaded[n] = 1

=============================================================================
