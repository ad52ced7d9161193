---------------------------- MODULE RemoteServices ----------------------------
(***************************************************************************)
(* What other nodes and the service itself may ask for: the links of       *)
(* file_transfer.py and remote_control.py (Ft), the received files (Fs),   *)
(* the requests of remote_client.py and their handlers (Rq), and the       *)
(* privileged broker with its client (Cb).  RNS and systemd are external.  *)
(***************************************************************************)
EXTENDS Integers, FiniteSets

CONSTANTS
    FtLinks,
    FsJobs,        \* resources that conclude
    FsNames,       \* 0..n: counters the names are tried with
    FsMaxCrashes,
    RqCommands,    \* commands typed at the client, in order: 1..n
    CbCalls        \* calls of request_control

NoBytes == "no bytes"

ASSUME RemoteServicesAssumption ==
    /\ FsNames \subseteq Nat /\ 0 \in FsNames /\ FsMaxCrashes \in Nat /\ NoBytes \notin FsJobs
    /\ RqCommands \subseteq Nat \ {0}

-----------------------------------------------------------------------------
(* Links.  A file transfer link is listed first and authorised by policy or
   identity; a control link is listed when it has identified itself.        *)
VARIABLES
    ftKind,     \* "deny", "allowlist", "open": _access_policy; "control"
    ftActive,   \* _active
    ftCleared,  \* stop has emptied the tables
    ftCleanup,  \* cleanup_managed_resources: "before", "running", "over"
    ftManaged,  \* links whose teardown is registered
    ftTables,   \* [links, authorized]: _links and _authorized_links, or for
                \* the control plugin only _active_links (authorized)
    ftLink,     \* link -> where its established callback is
    ftOpen,     \* links that are open
    ftWatched,  \* links with a closed callback
    ftAsked,    \* links with an identified callback
    ftKnown     \* links whose identity was found allowed, callback under way

ftRest == <<ftKind, ftCleared, ftCleanup>>
ftVars == <<ftRest, ftActive, ftManaged, ftTables, ftLink, ftOpen, ftWatched, ftAsked, ftKnown>>

(* start(): the access policy of the one plugin; the other has only one. *)
FtFileStarts == ftKind \in {"deny", "allowlist", "open"}
FtControlStarts == ftKind = "control"

FtInit ==
    /\ (FtFileStarts \/ FtControlStarts)
    /\ ftActive = TRUE /\ ftCleared = FALSE /\ ftCleanup = "before" /\ ftManaged = {}
    /\ ftTables = [links |-> {}, authorized |-> {}] /\ ftLink = [l \in FtLinks |-> "none"]
    /\ ftOpen = {} /\ ftWatched = {} /\ ftAsked = {} /\ ftKnown = {}

FtArrives(l) ==
    /\ ftLink[l] = "none" /\ ftLink' = [ftLink EXCEPT ![l] = "entered"] /\ ftOpen' = ftOpen \cup {l}
    /\ UNCHANGED <<ftRest, ftActive, ftManaged, ftTables, ftWatched, ftAsked, ftKnown>>

Without(tables, l) == [links |-> tables.links \ {l}, authorized |-> tables.authorized \ {l}]

(* A link goes down, by either side: the closed callback runs if it is set. *)
Down(l, tables) ==
    /\ ftOpen' = ftOpen \ {l}
    /\ ftTables' = (IF l \in ftWatched THEN Without(tables, l) ELSE tables)
FtPeerCloses(l) ==
    /\ l \in ftOpen /\ Down(l, ftTables)
    /\ UNCHANGED <<ftRest, ftActive, ftManaged, ftLink, ftWatched, ftAsked, ftKnown>>
Refuses(l) == Down(l, ftTables) /\ ftLink' = [ftLink EXCEPT ![l] = "over"]
Goes(l, where) == ftLink' = [ftLink EXCEPT ![l] = where] /\ UNCHANGED ftOpen

FtEntered(l) ==
    /\ ftLink[l] = "entered"
    /\ IF ~ftActive \/ ftKind = "deny" THEN Refuses(l) ELSE Goes(l, "manage") /\ UNCHANGED ftTables
    /\ UNCHANGED <<ftRest, ftActive, ftManaged, ftWatched, ftAsked, ftKnown>>

AfterManage == IF ftKind = "control" THEN "recheck" ELSE "list"

(* Mutant of FtManages: the link is left to its closed callback. *)
FtManagesNothing(l) ==
    /\ ftLink[l] = "manage" /\ Goes(l, AfterManage) /\ UNCHANGED ftTables
    /\ UNCHANGED <<ftRest, ftActive, ftManaged, ftWatched, ftAsked, ftKnown>>

(* manage_link: once the cleanup has taken its list, a registration closes
   the link and raises, and the callback closes it again.                   *)
FtManages(l) ==
    /\ ftLink[l] = "manage"
    /\ IF ftCleanup = "before"
       THEN ftManaged' = ftManaged \cup {l} /\ Goes(l, AfterManage) /\ UNCHANGED ftTables
       ELSE Refuses(l) /\ UNCHANGED ftManaged
    /\ UNCHANGED <<ftRest, ftActive, ftWatched, ftAsked, ftKnown>>

FtRechecks(l) ==
    /\ ftLink[l] = "recheck"
    /\ IF ftActive THEN Goes(l, "ask") /\ UNCHANGED ftTables ELSE Refuses(l)
    /\ UNCHANGED <<ftRest, ftActive, ftManaged, ftWatched, ftAsked, ftKnown>>

(* Mutant of FtLists: what was read at the entry is relied on. *)
FtListsUnchecked(l) ==
    /\ ftLink[l] = "list"
    /\ ftTables' = [ftTables EXCEPT !.links = @ \cup {l}] /\ Goes(l, "watch")
    /\ UNCHANGED <<ftRest, ftActive, ftManaged, ftWatched, ftAsked, ftKnown>>

FtLists(l) ==
    /\ ftLink[l] = "list"
    /\ IF ftActive THEN ftTables' = [ftTables EXCEPT !.links = @ \cup {l}] /\ Goes(l, "watch")
       ELSE Refuses(l)
    /\ UNCHANGED <<ftRest, ftActive, ftManaged, ftWatched, ftAsked, ftKnown>>

FtAsks(l) ==
    /\ ftLink[l] = "ask" /\ ftAsked' = ftAsked \cup {l}
    /\ ftLink' = [ftLink EXCEPT ![l] = IF ftKind = "control" THEN "watch" ELSE "up"]
    /\ UNCHANGED <<ftRest, ftActive, ftManaged, ftTables, ftOpen, ftWatched, ftKnown>>
FtWatches(l) ==
    /\ ftLink[l] = "watch" /\ ftWatched' = ftWatched \cup {l}
    /\ ftLink' = [ftLink EXCEPT ![l] =
                    IF ftKind = "control" THEN "up" ELSE IF ftKind = "open" THEN "authorize" ELSE "ask"]
    /\ UNCHANGED <<ftRest, ftActive, ftManaged, ftTables, ftOpen, ftAsked, ftKnown>>

Admissible(l) == ftActive /\ (ftKind = "control" \/ l \in ftTables.links)
Admitted(l) == [ftTables EXCEPT !.authorized = @ \cup {l}]

FtAuthorizesOpen(l) ==
    /\ ftLink[l] = "authorize"
    /\ IF Admissible(l) THEN ftTables' = Admitted(l) /\ Goes(l, "up") ELSE Refuses(l)
    /\ UNCHANGED <<ftRest, ftActive, ftManaged, ftWatched, ftAsked, ftKnown>>

(* A peer identifies itself, as who is allowed or as somebody else. *)
FtIdentified(l) ==
    /\ l \in ftOpen /\ l \in ftAsked /\ l \notin ftKnown /\ UNCHANGED ftLink
    /\ \/ ftActive /\ ftKnown' = ftKnown \cup {l} /\ UNCHANGED <<ftOpen, ftTables>>
       \/ Down(l, ftTables) /\ UNCHANGED ftKnown
    /\ UNCHANGED <<ftRest, ftActive, ftManaged, ftWatched, ftAsked>>

(* Mutant of FtAdmits: a link that is not listed any more is authorised. *)
FtAdmitsAny(l) ==
    /\ l \in ftKnown /\ ftKnown' = ftKnown \ {l} /\ UNCHANGED ftLink
    /\ IF ftActive THEN ftTables' = Admitted(l) /\ UNCHANGED ftOpen ELSE Down(l, ftTables)
    /\ UNCHANGED <<ftRest, ftActive, ftManaged, ftWatched, ftAsked>>

(* ... and is admitted under the lock, if the plugin still runs and, for a
   file transfer, the link is still listed.                                 *)
FtAdmits(l) ==
    /\ l \in ftKnown /\ ftKnown' = ftKnown \ {l} /\ UNCHANGED ftLink
    /\ IF Admissible(l) THEN ftTables' = Admitted(l) /\ UNCHANGED ftOpen ELSE Down(l, ftTables)
    /\ UNCHANGED <<ftRest, ftActive, ftManaged, ftWatched, ftAsked>>

(* stop() clears the flag, then the tables; the base class then takes the
   list of cleanups and runs them in turn.                                  *)
FtStops ==
    /\ ftActive /\ ftActive' = FALSE
    /\ UNCHANGED <<ftRest, ftManaged, ftTables, ftLink, ftOpen, ftWatched, ftAsked, ftKnown>>
FtClears ==
    /\ ~ftActive /\ ~ftCleared /\ ftCleared' = TRUE /\ ftTables' = [links |-> {}, authorized |-> {}]
    /\ UNCHANGED <<ftKind, ftCleanup, ftActive, ftManaged, ftLink, ftOpen, ftWatched, ftAsked, ftKnown>>
FtCleansUp ==
    /\ ftCleared /\ ftCleanup = "before" /\ ftCleanup' = "running"
    /\ UNCHANGED <<ftKind, ftCleared, ftActive, ftManaged, ftTables, ftLink, ftOpen, ftWatched, ftAsked, ftKnown>>
FtTearsDown(l) ==
    /\ ftCleanup = "running" /\ l \in ftManaged /\ ftManaged' = ftManaged \ {l} /\ Down(l, ftTables)
    /\ UNCHANGED <<ftRest, ftActive, ftLink, ftWatched, ftAsked, ftKnown>>
FtCleanedUp ==
    /\ ftCleanup = "running" /\ ftManaged = {} /\ ftCleanup' = "over"
    /\ UNCHANGED <<ftKind, ftCleared, ftActive, ftManaged, ftTables, ftLink, ftOpen, ftWatched, ftAsked, ftKnown>>

FtNext ==
    \/ FtStops \/ FtClears \/ FtCleansUp \/ FtCleanedUp
    \/ \E l \in FtLinks :
         \/ FtArrives(l) \/ FtPeerCloses(l) \/ FtEntered(l) \/ FtManages(l) \/ FtRechecks(l)
         \/ FtLists(l) \/ FtAsks(l) \/ FtWatches(l) \/ FtAuthorizesOpen(l)
         \/ FtIdentified(l) \/ FtAdmits(l) \/ FtTearsDown(l)

FtSpec == FtInit /\ [][FtNext]_ftVars

FtTypeOK ==
    /\ ftTables \in [links : SUBSET FtLinks, authorized : SUBSET FtLinks]
    /\ {ftManaged, ftOpen, ftWatched, ftAsked, ftKnown} \subseteq SUBSET FtLinks
    /\ ftCleanup \in {"before", "running", "over"} /\ {ftActive, ftCleared} \subseteq BOOLEAN

(* No link outlives its plugin, however its callbacks meet the stop: after the
   cleanup only a link whose callback is still running is open (stop,
   _link_established, manage_link).                                         *)
LinksEndWithPlugin == ftCleanup = "over" => \A l \in ftOpen : ftLink[l] \notin {"up", "over"}

(* Once stop has emptied the tables nothing is listed or authorised again, so
   no upload or count outlives it (stop, _link_established, _check_identity). *)
StoppedListsNothing == ftCleared => ftTables = [links |-> {}, authorized |-> {}]

(* Authorisation does not outlive a link that went down while its identity was
   being checked (_check_identity, _link_closed).                           *)
AuthorizedIsListed == ftKind # "control" => ftTables.authorized \subseteq ftTables.links

-----------------------------------------------------------------------------
(* Received files, several at once, all with one preferred name <<0, 0>>. *)
VARIABLES
    fsJob,      \* job -> [pc, name]
    fsDir,      \* name -> the job whose bytes it holds, or NoBytes
    fsKept,     \* names a crash does not undo
    fsTemp,     \* job -> "none", "open", "synced": its temporary file
    fsSaid,     \* history: job -> the name FILE_RECEIVED gave, or NoName
    fsCrashes

fsVars == <<fsJob, fsDir, fsKept, fsTemp, fsSaid, fsCrashes>>

NoName == <<>>
FsFiles == FsNames \X FsNames
FsIdle == [pc |-> "idle", name |-> <<0, 0>>]

FsInit ==
    /\ fsJob = [j \in FsJobs |-> FsIdle] /\ fsDir = [n \in FsFiles |-> NoBytes] /\ fsKept = {}
    /\ fsTemp = [j \in FsJobs |-> "none"] /\ fsSaid = [j \in FsJobs |-> NoName] /\ fsCrashes = 0

At(j, pc) == fsJob[j].pc = pc
To(j, pc) == fsJob' = [fsJob EXCEPT ![j].pc = pc]

(* _safe_filename: the first name free now.  It is free only for now. *)
FsPicks(j) ==
    /\ At(j, "idle") /\ fsSaid[j] = NoName
    /\ \E n \in FsNames :
         /\ fsDir[<<n, 0>>] = NoBytes /\ \A m \in FsNames : m < n => fsDir[<<m, 0>>] # NoBytes
         /\ fsJob' = [fsJob EXCEPT ![j] = [pc |-> "write", name |-> <<n, 0>>]]
    /\ UNCHANGED <<fsDir, fsKept, fsTemp, fsSaid, fsCrashes>>
FsWrites(j) ==
    /\ At(j, "write") /\ fsTemp' = [fsTemp EXCEPT ![j] = "open"] /\ To(j, "sync")
    /\ UNCHANGED <<fsDir, fsKept, fsSaid, fsCrashes>>
FsSyncs(j) ==
    /\ At(j, "sync") /\ fsTemp' = [fsTemp EXCEPT ![j] = "synced"] /\ To(j, "link")
    /\ UNCHANGED <<fsDir, fsKept, fsSaid, fsCrashes>>

(* Mutant of FsLinks: a rename, which replaces what took the name meanwhile. *)
FsRenames(j) ==
    /\ At(j, "link") /\ To(j, "dirsync")
    /\ fsDir' = [fsDir EXCEPT ![fsJob[j].name] = j]
    /\ UNCHANGED <<fsKept, fsTemp, fsSaid, fsCrashes>>

(* os.link takes a free name in one step; a taken one moves the counter on. *)
FsLinks(j) ==
    /\ At(j, "link")
    /\ LET name == fsJob[j].name next == <<name[1], name[2] + 1>> IN
       IF fsDir[name] = NoBytes THEN fsDir' = [fsDir EXCEPT ![name] = j] /\ To(j, "dirsync")
       ELSE next \in FsFiles /\ fsJob' = [fsJob EXCEPT ![j].name = next] /\ UNCHANGED fsDir
    /\ UNCHANGED <<fsKept, fsTemp, fsSaid, fsCrashes>>

(* Mutant of FsDirSyncs: the directory is not synced before the event. *)
FsDirSyncsNothing(j) ==
    /\ At(j, "dirsync") /\ fsTemp' = [fsTemp EXCEPT ![j] = "none"] /\ To(j, "report")
    /\ UNCHANGED <<fsDir, fsKept, fsSaid, fsCrashes>>

FsDirSyncs(j) ==
    /\ At(j, "dirsync") /\ To(j, "unlink")
    /\ fsKept' = fsKept \cup {n \in FsFiles : fsDir[n] # NoBytes}
    /\ UNCHANGED <<fsDir, fsTemp, fsSaid, fsCrashes>>

FsUnlinks(j) ==
    /\ At(j, "unlink") /\ fsTemp' = [fsTemp EXCEPT ![j] = "none"] /\ To(j, "report")
    /\ UNCHANGED <<fsDir, fsKept, fsSaid, fsCrashes>>
FsReports(j) ==
    /\ At(j, "report") /\ fsSaid' = [fsSaid EXCEPT ![j] = fsJob[j].name] /\ To(j, "idle")
    /\ UNCHANGED <<fsDir, fsKept, fsTemp, fsCrashes>>

(* Any step may fail: the temporary file goes, the transfer counts as failed;
   what was linked already stays.                                           *)
FsFails(j) ==
    /\ fsJob[j].pc \in {"write", "sync", "link", "dirsync", "unlink"}
    /\ fsTemp' = [fsTemp EXCEPT ![j] = "none"] /\ To(j, "failed")
    /\ UNCHANGED <<fsDir, fsKept, fsSaid, fsCrashes>>
(* A power loss: names that were not synced may be gone. *)
FsCrash ==
    /\ fsCrashes < FsMaxCrashes /\ fsCrashes' = fsCrashes + 1
    /\ \E gone \in SUBSET {n \in FsFiles \ fsKept : fsDir[n] # NoBytes} :
         fsDir' = [n \in FsFiles |-> IF n \in gone THEN NoBytes ELSE fsDir[n]]
    /\ fsJob' = [j \in FsJobs |-> [FsIdle EXCEPT !.pc = "failed"]] /\ UNCHANGED <<fsKept, fsTemp, fsSaid>>

FsNext ==
    \/ FsCrash
    \/ \E j \in FsJobs :
         \/ FsPicks(j) \/ FsWrites(j) \/ FsSyncs(j) \/ FsLinks(j) \/ FsDirSyncs(j)
         \/ FsUnlinks(j) \/ FsReports(j) \/ FsFails(j)

FsSpec == FsInit /\ [][FsNext]_fsVars

FsTypeOK ==
    /\ fsDir \in [FsFiles -> FsJobs \cup {NoBytes}] /\ fsKept \subseteq FsFiles
    /\ fsTemp \in [FsJobs -> {"none", "open", "synced"}]

(* What FILE_RECEIVED announced is on disk under that name, also after a power
   loss, and no later transfer replaced it (_store_received_file).          *)
AnnouncedIsStored == \A j \in FsJobs : fsSaid[j] # NoName => fsDir[fsSaid[j]] = j

-----------------------------------------------------------------------------
(* The remote client types one command after the other; the node runs each
   that reaches it, if it knows the identity.                               *)
VARIABLES
    rqClient,   \* "path", "link", "identify", "prompt", "wait", "gone"
    rqTyped,    \* the command that was typed last, 0 before the first
    rqAllowed,  \* the node's allowed_identities hold the client's
    rqIdentified,\* the node knows who the client is
    rqUp,       \* the link is up
    rqFlight,   \* requests on their way to the node
    rqRan,      \* commands the node ran
    rqAnswers,  \* answers on their way back: <<command, ok>>
    rqReceipt,  \* command -> the answer its receipt holds, or "none"
    rqShown     \* history: command -> what the user was told

rqVars == <<rqClient, rqTyped, rqAllowed, rqIdentified, rqUp, rqFlight, rqRan, rqAnswers, rqReceipt, rqShown>>

RqNone == [c \in RqCommands |-> "none"]

RqInit ==
    /\ rqClient = "path" /\ rqTyped = 0 /\ rqAllowed \in BOOLEAN /\ rqIdentified = FALSE /\ rqUp = FALSE
    /\ rqFlight = {} /\ rqRan = {} /\ rqAnswers = {} /\ rqReceipt = RqNone /\ rqShown = RqNone

(* connect: path, link and identification, each with a timeout; the last only
   waits a second for the node's refusal.                                   *)
RqConnects ==
    /\ \/ rqClient = "path" /\ rqClient' = "link" /\ UNCHANGED <<rqUp, rqIdentified>>
       \/ rqClient = "link" /\ rqClient' = "identify" /\ rqUp' = TRUE /\ UNCHANGED rqIdentified
       \/ rqClient = "identify" /\ rqUp /\ rqClient' = "prompt" /\ rqIdentified' \in {rqIdentified, TRUE} /\ UNCHANGED rqUp
       \/ rqClient \in {"path", "link", "identify"} /\ rqClient' = "gone" /\ UNCHANGED <<rqUp, rqIdentified>>
    /\ UNCHANGED <<rqTyped, rqAllowed, rqFlight, rqRan, rqAnswers, rqReceipt, rqShown>>
(* The identification reaches the node, which may take down the link. *)
RqIdentifies ==
    /\ rqClient \in {"prompt", "wait"} /\ rqUp /\ rqIdentified' = TRUE /\ rqUp' = rqAllowed
    /\ UNCHANGED <<rqClient, rqTyped, rqAllowed, rqFlight, rqRan, rqAnswers, rqReceipt, rqShown>>
RqTypes ==
    /\ rqClient = "prompt" /\ rqTyped + 1 \in RqCommands /\ rqTyped' = rqTyped + 1
    /\ IF rqUp THEN rqFlight' = rqFlight \cup {rqTyped'} /\ rqClient' = "wait" /\ UNCHANGED rqShown
       ELSE rqShown' = [rqShown EXCEPT ![rqTyped'] = "error"] /\ UNCHANGED <<rqFlight, rqClient>>
    /\ UNCHANGED <<rqAllowed, rqIdentified, rqUp, rqRan, rqAnswers, rqReceipt>>
(* A handler runs in full once the request has arrived, or refuses it. *)
RqServes(c) ==
    /\ c \in rqFlight /\ rqUp /\ rqFlight' = rqFlight \ {c}
    /\ IF rqIdentified /\ rqAllowed
       THEN rqRan' = rqRan \cup {c} /\ rqAnswers' = rqAnswers \cup {<<c, "ok">>}
       ELSE rqAnswers' = rqAnswers \cup {<<c, "error">>} /\ UNCHANGED rqRan
    /\ UNCHANGED <<rqClient, rqTyped, rqAllowed, rqIdentified, rqUp, rqReceipt, rqShown>>
RqLoses(c) ==
    /\ \/ rqFlight' = rqFlight \ {c} /\ UNCHANGED rqAnswers
       \/ rqAnswers' = {a \in rqAnswers : a[1] # c} /\ UNCHANGED rqFlight
    /\ UNCHANGED <<rqClient, rqTyped, rqAllowed, rqIdentified, rqUp, rqRan, rqReceipt, rqShown>>
RqLinkDown ==
    /\ rqUp /\ rqUp' = FALSE
    /\ UNCHANGED <<rqClient, rqTyped, rqAllowed, rqIdentified, rqFlight, rqRan, rqAnswers, rqReceipt, rqShown>>

(* Mutant of RqAnswered: one receipt for the link; a late answer fills it. *)
RqAnsweredLatest(a) ==
    /\ a \in rqAnswers /\ rqUp /\ rqAnswers' = rqAnswers \ {a}
    /\ rqReceipt' = [rqReceipt EXCEPT ![rqTyped] = a[2]]
    /\ UNCHANGED <<rqClient, rqTyped, rqAllowed, rqIdentified, rqUp, rqFlight, rqRan, rqShown>>

(* An answer is stored in the receipt of its own request, late or not. *)
RqAnswered(a) ==
    /\ a \in rqAnswers /\ rqUp /\ rqAnswers' = rqAnswers \ {a}
    /\ rqReceipt' = [rqReceipt EXCEPT ![a[1]] = a[2]]
    /\ UNCHANGED <<rqClient, rqTyped, rqAllowed, rqIdentified, rqUp, rqFlight, rqRan, rqShown>>

(* request polls the receipt of the command until the deadline. *)
RqShows ==
    /\ rqClient = "wait" /\ rqClient' = "prompt"
    /\ rqShown' = [rqShown EXCEPT ![rqTyped] = IF rqReceipt[rqTyped] = "ok" THEN "ok" ELSE "error"]
    /\ UNCHANGED <<rqTyped, rqAllowed, rqIdentified, rqUp, rqFlight, rqRan, rqAnswers, rqReceipt>>

RqNext ==
    \/ RqConnects \/ RqIdentifies \/ RqTypes \/ RqShows \/ RqLinkDown
    \/ \E c \in RqCommands : RqServes(c) \/ RqLoses(c)
    \/ \E a \in rqAnswers : RqAnswered(a)

RqSpec == RqInit /\ [][RqNext]_rqVars

RqTypeOK ==
    /\ rqClient \in {"path", "link", "identify", "prompt", "wait", "gone"}
    /\ rqTyped \in RqCommands \cup {0} /\ {rqUp, rqIdentified, rqAllowed} \subseteq BOOLEAN
    /\ {rqFlight, rqRan} \subseteq SUBSET RqCommands

(* A command that was reported done has been run by the node, whatever earlier
   ones timed out and were answered late (request, _handle_plugin_enable).
   The converse is false: an error may hide a command that ran.             *)
DoneWasRun == \A c \in RqCommands : rqShown[c] = "ok" => c \in rqRan

-----------------------------------------------------------------------------
(* The broker: one process per connection reads one request, runs at most one
   fixed command and answers; the client does not try again.                *)
VARIABLES
    cbCall,     \* call -> "idle", "sent", "ok", "failed"
    cbBroker,   \* call -> "none", "peer", "read", "check", "run", "ok", "failed", "gone"
    cbEffect    \* history: call -> "none", "begun", "complete": the command

cbVars == <<cbCall, cbBroker, cbEffect>>

CbInit ==
    /\ cbCall = [c \in CbCalls |-> "idle"] /\ cbBroker = [c \in CbCalls |-> "none"]
    /\ cbEffect = [c \in CbCalls |-> "none"]

CbRequests(c) ==
    /\ cbCall[c] = "idle" /\ cbCall' = [cbCall EXCEPT ![c] = "sent"]
    /\ cbBroker' = [cbBroker EXCEPT ![c] = "peer"] /\ UNCHANGED cbEffect
(* Another user than the service's is refused, then a late, large or malformed
   request, then an operation or arguments that the table does not have.    *)
CbStep(c, from, to) ==
    /\ cbBroker[c] = from /\ cbBroker' \in {[cbBroker EXCEPT ![c] = p] : p \in {to, "failed"}}
    /\ UNCHANGED <<cbCall, cbEffect>>
CbKnowsPeer(c) == CbStep(c, "peer", "read")
CbReads(c) == CbStep(c, "read", "check")
CbRefuses(c) ==
    /\ cbBroker[c] = "check" /\ cbBroker' = [cbBroker EXCEPT ![c] = "failed"] /\ UNCHANGED <<cbCall, cbEffect>>
CbRuns(c) ==
    /\ cbBroker[c] = "check" /\ cbBroker' = [cbBroker EXCEPT ![c] = "run"]
    /\ cbEffect' = [cbEffect EXCEPT ![c] = "begun"] /\ UNCHANGED cbCall

(* Mutant of CbEnds: the exit status is not looked at. *)
CbEndsAnyhow(c) ==
    /\ cbBroker[c] = "run" /\ cbBroker' = [cbBroker EXCEPT ![c] = "ok"]
    /\ cbEffect' \in {cbEffect, [cbEffect EXCEPT ![c] = "complete"]} /\ UNCHANGED cbCall

(* The command exits with zero, or with an error, or is cut by its timeout,
   which does not undo what it began.                                       *)
CbEnds(c) ==
    /\ cbBroker[c] = "run" /\ UNCHANGED cbCall
    /\ \/ cbBroker' = [cbBroker EXCEPT ![c] = "ok"] /\ cbEffect' = [cbEffect EXCEPT ![c] = "complete"]
       \/ cbBroker' = [cbBroker EXCEPT ![c] = "failed"] /\ UNCHANGED cbEffect

(* systemd or the kernel ends the broker. *)
CbDies(c) ==
    /\ cbBroker[c] \in {"peer", "read", "check", "run"} /\ cbBroker' = [cbBroker EXCEPT ![c] = "gone"]
    /\ UNCHANGED <<cbCall, cbEffect>>
(* The client takes the answer; without one in time, or with the connection
   closed, or cut short, it raises.                                         *)
CbAnswered(c) ==
    /\ cbCall[c] = "sent" /\ UNCHANGED <<cbBroker, cbEffect>>
    /\ \/ cbBroker[c] = "ok" /\ cbCall' = [cbCall EXCEPT ![c] = "ok"]
       \/ cbCall' = [cbCall EXCEPT ![c] = "failed"]

CbNext == \E c \in CbCalls :
    \/ CbRequests(c) \/ CbKnowsPeer(c) \/ CbReads(c) \/ CbRefuses(c) \/ CbRuns(c)
    \/ CbEnds(c) \/ CbDies(c) \/ CbAnswered(c)

CbSpec == CbInit /\ [][CbNext]_cbVars

CbTypeOK ==
    /\ cbCall \in [CbCalls -> {"idle", "sent", "ok", "failed"}]
    /\ cbEffect \in [CbCalls -> {"none", "begun", "complete"}]

(* A control operation that returned was completed by the broker; one that
   raised may have been too (request_control, serve_connection).            *)
GrantedWasDone == \A c \in CbCalls : cbCall[c] = "ok" => cbEffect[c] = "complete"

-----------------------------------------------------------------------------
(* What other nodes ask for ends with the plugin that serves it, and what was
   announced or reported done has been done (file_transfer.py,
   remote_control.py, remote_client.py, control_broker.py).                 *)
VisitorsServed ==
    /\ FtTypeOK /\ FsTypeOK /\ RqTypeOK /\ CbTypeOK
    /\ LinksEndWithPlugin /\ StoppedListsNothing /\ AuthorizedIsListed
    /\ AnnouncedIsStored /\ DoneWasRun /\ GrantedWasDone

=============================================================================
