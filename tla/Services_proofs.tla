--------------------------- MODULE Services_proofs ---------------------------
(***************************************************************************)
(* Proofs about what the service does for others: the links, files,        *)
(* requests and privileged operations of RemoteServices.                   *)
(***************************************************************************)
EXTENDS RemoteServices, TLAPS

-----------------------------------------------------------------------------
(***************************************************************************)
(* The links of a plugin, for any number of peers.  What makes the end of  *)
(* the plugin the end of its links is that from the moment a callback goes *)
(* past manage_link the teardown of its open link is registered.           *)
(***************************************************************************)

FtPlaces == {"none", "entered", "manage", "recheck", "list", "watch", "authorize", "ask", "up", "over"}

FtTypes ==
    /\ FtTypeOK
    /\ ftLink \in [FtLinks -> FtPlaces]

(* A link that has not arrived, or was refused, is not open. *)
OpenWasAccepted == \A l \in ftOpen : ftLink[l] \notin {"none", "over"}

(* Past manage_link an open link is one the cleanup knows of. *)
OpenIsManaged ==
    \A l \in ftOpen : ftLink[l] \notin {"entered", "manage"} => l \in ftManaged

(* The stop clears the flag, the tables and the cleanups in this order. *)
StopInOrder ==
    /\ ftCleared => ~ftActive
    /\ ftCleanup = "over" => ftManaged = {}

FtInv ==
    /\ FtTypes
    /\ OpenWasAccepted
    /\ OpenIsManaged
    /\ StopInOrder
    /\ StoppedListsNothing
    /\ AuthorizedIsListed

LEMMA FtInitInv == FtInit => FtInv
<1> SUFFICES ASSUME FtInit PROVE FtInv
  OBVIOUS
<1>1. ftTables \in [links : SUBSET FtLinks, authorized : SUBSET FtLinks]
  BY DEF FtInit
<1>2. FtTypes
  BY <1>1 DEF FtInit, FtTypes, FtTypeOK, FtPlaces
<1>3. OpenWasAccepted /\ OpenIsManaged /\ StopInOrder
  BY DEF FtInit, OpenWasAccepted, OpenIsManaged, StopInOrder
<1>4. StoppedListsNothing /\ AuthorizedIsListed
  BY DEF FtInit, StoppedListsNothing, AuthorizedIsListed
<1>5. QED
  BY <1>2, <1>3, <1>4 DEF FtInv

(* What a link that goes down leaves of the tables keeps what holds of them. *)
LEMMA DownKeeps ==
    ASSUME FtInv, NEW l \in FtLinks, Down(l, ftTables), UNCHANGED ftRest
    PROVE  /\ ftTables' \in [links : SUBSET FtLinks, authorized : SUBSET FtLinks]
           /\ ftOpen' = ftOpen \ {l}
           /\ StoppedListsNothing'
           /\ AuthorizedIsListed'
<1>1. ftTables \in [links : SUBSET FtLinks, authorized : SUBSET FtLinks]
  BY DEF FtInv, FtTypes, FtTypeOK
<1>2. ftTables' = ftTables \/ ftTables' = Without(ftTables, l)
  BY DEF Down
<1>3. /\ Without(ftTables, l) \in [links : SUBSET FtLinks, authorized : SUBSET FtLinks]
      /\ Without(ftTables, l).links = ftTables.links \ {l}
      /\ Without(ftTables, l).authorized = ftTables.authorized \ {l}
  BY <1>1 DEF Without
<1>4. StoppedListsNothing'
  <2> SUFFICES ASSUME ftCleared' PROVE ftTables' = [links |-> {}, authorized |-> {}]
    BY DEF StoppedListsNothing
  <2>1. ftTables = [links |-> {}, authorized |-> {}]
    BY DEF ftRest, FtInv, StoppedListsNothing
  <2>2. Without(ftTables, l) = [links |-> {}, authorized |-> {}]
    BY <2>1 DEF Without
  <2>3. QED
    BY <1>2, <2>1, <2>2
<1>5. AuthorizedIsListed'
  BY <1>2, <1>3 DEF ftRest, FtInv, AuthorizedIsListed
<1>6. QED
  BY <1>1, <1>2, <1>3, <1>4, <1>5 DEF Down

(* No step of a callback, a peer or the stop undoes it. *)
LEMMA FtStepKeeps == FtInv /\ [FtNext]_ftVars => FtInv'
<1> SUFFICES ASSUME FtInv, [FtNext]_ftVars PROVE FtInv'
  OBVIOUS
<1> USE DEF FtInv
<1>1. CASE FtStops
  BY <1>1 DEF FtStops, ftRest, FtTypes, FtTypeOK, FtPlaces, OpenWasAccepted, OpenIsManaged,
              StopInOrder, StoppedListsNothing, AuthorizedIsListed
<1>2. CASE FtClears
  BY <1>2 DEF FtClears, FtTypes, FtTypeOK, FtPlaces, OpenWasAccepted, OpenIsManaged, StopInOrder,
              StoppedListsNothing, AuthorizedIsListed
<1>3. CASE FtCleansUp
  BY <1>3 DEF FtCleansUp, FtTypes, FtTypeOK, FtPlaces, OpenWasAccepted, OpenIsManaged, StopInOrder,
              StoppedListsNothing, AuthorizedIsListed
<1>4. CASE FtCleanedUp
  BY <1>4 DEF FtCleanedUp, FtTypes, FtTypeOK, FtPlaces, OpenWasAccepted, OpenIsManaged, StopInOrder,
              StoppedListsNothing, AuthorizedIsListed
<1>5. ASSUME NEW l \in FtLinks, FtArrives(l) PROVE FtInv'
  BY <1>5 DEF FtArrives, ftRest, FtTypes, FtTypeOK, FtPlaces, OpenWasAccepted, OpenIsManaged, StopInOrder,
              StoppedListsNothing, AuthorizedIsListed
<1>6. ASSUME NEW l \in FtLinks, Down(l, ftTables), UNCHANGED <<ftRest, ftActive, ftWatched, ftAsked>>,
             ftManaged' \in {ftManaged, ftManaged \ {l}}, ftKnown' \in SUBSET FtLinks,
             ftLink' \in {ftLink, [ftLink EXCEPT ![l] = "over"]}
      PROVE FtInv'
  <2>1. /\ ftTables' \in [links : SUBSET FtLinks, authorized : SUBSET FtLinks]
        /\ ftOpen' = ftOpen \ {l} /\ StoppedListsNothing' /\ AuthorizedIsListed'
    BY <1>6, DownKeeps
  <2>2. FtTypes'
    BY <1>6, <2>1 DEF ftRest, FtTypes, FtTypeOK, FtPlaces
  <2>3. \A k \in ftOpen' : k \in ftOpen /\ k # l /\ k \in FtLinks /\ ftLink'[k] = ftLink[k]
    BY <1>6, <2>1 DEF FtTypes, FtTypeOK
  <2>4. OpenWasAccepted' /\ OpenIsManaged' /\ StopInOrder'
    BY <1>6, <2>3 DEF ftRest, OpenWasAccepted, OpenIsManaged, StopInOrder
  <2>5. QED
    BY <2>1, <2>2, <2>4
<1>7. ASSUME NEW l \in FtLinks, FtPeerCloses(l) PROVE FtInv'
  BY <1>6, <1>7 DEF FtPeerCloses, FtTypes, FtTypeOK
<1>8. ASSUME NEW l \in FtLinks, Refuses(l),
             UNCHANGED <<ftRest, ftActive, ftManaged, ftWatched, ftAsked, ftKnown>>
      PROVE FtInv'
  BY <1>6, <1>8 DEF Refuses, FtTypes, FtTypeOK
<1>9. ASSUME NEW l \in FtLinks, NEW w \in FtPlaces \ {"none", "over", "entered", "manage"},
             ftLink[l] \notin {"none", "entered", "over"}, Goes(l, w),
             ftLink[l] = "manage" => l \in ftManaged',
             ftManaged' \in {ftManaged, ftManaged \cup {l}}, ftCleanup = "over" => ftManaged' = {},
             ftTables' \in [links : SUBSET FtLinks, authorized : SUBSET FtLinks],
             StoppedListsNothing', AuthorizedIsListed',
             UNCHANGED <<ftRest, ftActive>>,
             ftWatched' \in SUBSET FtLinks, ftAsked' \in SUBSET FtLinks, ftKnown' = ftKnown
      PROVE FtInv'
  <2>1. FtTypes'
    BY <1>9 DEF Goes, ftRest, FtTypes, FtTypeOK, FtPlaces
  <2>2. OpenWasAccepted' /\ OpenIsManaged' /\ StopInOrder'
    BY <1>9 DEF Goes, ftRest, FtTypes, FtTypeOK, FtPlaces, OpenWasAccepted, OpenIsManaged, StopInOrder
  <2>3. QED
    BY <1>9, <2>1, <2>2
<1>10. ASSUME NEW l \in FtLinks, FtEntered(l) PROVE FtInv'
  <2>1. CASE ~ftActive \/ ftKind = "deny"
    BY <1>8, <1>10, <2>1 DEF FtEntered
  <2>2. CASE ~(~ftActive \/ ftKind = "deny")
    BY <1>10, <2>2 DEF FtEntered, Goes, ftRest, FtTypes, FtTypeOK, FtPlaces, OpenWasAccepted,
                       OpenIsManaged, StopInOrder, StoppedListsNothing, AuthorizedIsListed
  <2>3. QED
    BY <2>1, <2>2
<1>11. ASSUME NEW l \in FtLinks, FtManages(l) PROVE FtInv'
  <2>1. CASE ftCleanup = "before"
    <3>1. StoppedListsNothing' /\ AuthorizedIsListed'
      BY <1>11, <2>1 DEF FtManages, ftRest, StoppedListsNothing, AuthorizedIsListed
    <3>2. AfterManage \in FtPlaces \ {"none", "over", "entered", "manage"}
      BY DEF AfterManage, FtPlaces
    <3>3. QED
      BY <1>9, <1>11, <2>1, <3>1, <3>2 DEF FtManages, FtTypes, FtTypeOK
  <2>2. CASE ftCleanup # "before"
    BY <1>8, <1>11, <2>2 DEF FtManages
  <2>3. QED
    BY <2>1, <2>2
<1>12. ASSUME NEW l \in FtLinks, FtRechecks(l) PROVE FtInv'
  <2>1. CASE ftActive
    <3>1. StoppedListsNothing' /\ AuthorizedIsListed'
      BY <1>12, <2>1 DEF FtRechecks, ftRest, StoppedListsNothing, AuthorizedIsListed
    <3>2. QED
      BY <1>9, <1>12, <2>1, <3>1 DEF FtRechecks, FtTypes, FtTypeOK, FtPlaces, StopInOrder
  <2>2. CASE ~ftActive
    BY <1>8, <1>12, <2>2 DEF FtRechecks
  <2>3. QED
    BY <2>1, <2>2
<1>13. ASSUME NEW l \in FtLinks, FtLists(l) PROVE FtInv'
  <2>1. CASE ftActive
    <3>1. ftTables' = [ftTables EXCEPT !.links = @ \cup {l}]
      BY <1>13, <2>1 DEF FtLists
    <3>2. ftTables' \in [links : SUBSET FtLinks, authorized : SUBSET FtLinks]
      BY <3>1 DEF FtTypes, FtTypeOK
    <3>3. ftTables'.authorized = ftTables.authorized /\ ftTables.links \subseteq ftTables'.links
      BY <3>1 DEF FtTypes, FtTypeOK
    <3>4. StoppedListsNothing' /\ AuthorizedIsListed'
      BY <1>13, <2>1, <3>3 DEF FtLists, ftRest, StopInOrder, StoppedListsNothing, AuthorizedIsListed
    <3>5. QED
      BY <1>9, <1>13, <2>1, <3>2, <3>4 DEF FtLists, FtTypes, FtTypeOK, FtPlaces, StopInOrder
  <2>2. CASE ~ftActive
    BY <1>8, <1>13, <2>2 DEF FtLists
  <2>3. QED
    BY <2>1, <2>2
<1>14. ASSUME NEW l \in FtLinks, FtAsks(l) PROVE FtInv'
  BY <1>14 DEF FtAsks, ftRest, FtTypes, FtTypeOK, FtPlaces, OpenWasAccepted, OpenIsManaged, StopInOrder,
               StoppedListsNothing, AuthorizedIsListed
<1>15. ASSUME NEW l \in FtLinks, FtWatches(l) PROVE FtInv'
  BY <1>15 DEF FtWatches, ftRest, FtTypes, FtTypeOK, FtPlaces, OpenWasAccepted, OpenIsManaged, StopInOrder,
               StoppedListsNothing, AuthorizedIsListed
<1>16. ASSUME NEW l \in FtLinks, Admissible(l), ftTables' = Admitted(l), UNCHANGED ftRest
       PROVE /\ ftTables' \in [links : SUBSET FtLinks, authorized : SUBSET FtLinks]
             /\ StoppedListsNothing' /\ AuthorizedIsListed'
  <2>1. ftTables' \in [links : SUBSET FtLinks, authorized : SUBSET FtLinks]
    BY <1>16 DEF Admitted, FtTypes, FtTypeOK
  <2>2. ftTables'.links = ftTables.links /\ ftTables'.authorized = ftTables.authorized \cup {l}
    BY <1>16 DEF Admitted, FtTypes, FtTypeOK
  <2>3. QED
    BY <1>16, <2>1, <2>2 DEF Admissible, ftRest, StopInOrder, StoppedListsNothing, AuthorizedIsListed
<1>17. ASSUME NEW l \in FtLinks, FtAuthorizesOpen(l) PROVE FtInv'
  <2>1. CASE Admissible(l)
    BY <1>9, <1>16, <1>17, <2>1 DEF FtAuthorizesOpen, FtTypes, FtTypeOK, FtPlaces, StopInOrder
  <2>2. CASE ~Admissible(l)
    BY <1>8, <1>17, <2>2 DEF FtAuthorizesOpen
  <2>3. QED
    BY <2>1, <2>2
<1>18. ASSUME NEW l \in FtLinks, FtIdentified(l) PROVE FtInv'
  <2>1. CASE UNCHANGED <<ftOpen, ftTables>>
    BY <1>18, <2>1 DEF FtIdentified, Down, Without, ftRest, FtTypes, FtTypeOK, FtPlaces, OpenWasAccepted, OpenIsManaged, StopInOrder,
                 StoppedListsNothing, AuthorizedIsListed
  <2>2. CASE Down(l, ftTables) /\ UNCHANGED ftKnown
    BY <1>6, <1>18, <2>2 DEF FtIdentified, FtTypes, FtTypeOK
  <2>3. QED
    BY <1>18, <2>1, <2>2 DEF FtIdentified
<1>19. ASSUME NEW l \in FtLinks, FtAdmits(l) PROVE FtInv'
  <2>1. CASE Admissible(l)
    <3>1. /\ ftTables' \in [links : SUBSET FtLinks, authorized : SUBSET FtLinks]
          /\ StoppedListsNothing' /\ AuthorizedIsListed'
      BY <1>16, <1>19, <2>1 DEF FtAdmits
    <3>2. QED
      BY <1>19, <2>1, <3>1 DEF FtAdmits, ftRest, FtTypes, FtTypeOK, OpenWasAccepted, OpenIsManaged, StopInOrder
  <2>2. CASE ~Admissible(l)
    <3>1. ftKnown' \in SUBSET FtLinks
      BY <1>19 DEF FtAdmits, FtTypes, FtTypeOK
    <3>2. QED
      BY <1>6, <1>19, <2>2, <3>1 DEF FtAdmits
  <2>3. QED
    BY <2>1, <2>2
<1>20. ASSUME NEW l \in FtLinks, FtTearsDown(l) PROVE FtInv'
  BY <1>6, <1>20 DEF FtTearsDown, FtTypes, FtTypeOK
<1>21. CASE UNCHANGED ftVars
  BY <1>21 DEF ftVars, ftRest, FtTypes, FtTypeOK, FtPlaces, OpenWasAccepted, OpenIsManaged, StopInOrder,
               StoppedListsNothing, AuthorizedIsListed
<1>22. QED
  BY <1>1, <1>2, <1>3, <1>4, <1>5, <1>7, <1>10, <1>11, <1>12, <1>13, <1>14, <1>15, <1>17, <1>18, <1>19,
     <1>20, <1>21 DEF FtNext

LEMMA FtInvImplies == FtInv => FtTypeOK /\ LinksEndWithPlugin /\ StoppedListsNothing /\ AuthorizedIsListed
BY DEF FtInv, FtTypes, OpenWasAccepted, OpenIsManaged, StopInOrder, LinksEndWithPlugin

-----------------------------------------------------------------------------
(***************************************************************************)
(* The received files, for any number of transfers and of names.  A name   *)
(* that a job linked stays its own until the directory is synced, and for  *)
(* ever after: what is kept is never free again, and a link takes only a   *)
(* free name.                                                              *)
(***************************************************************************)

FsPlaces == {"idle", "write", "sync", "link", "dirsync", "unlink", "report", "failed"}

FsTypes ==
    /\ FsTypeOK
    /\ fsJob \in [FsJobs -> [pc : FsPlaces, name : FsFiles]]
    /\ fsSaid \in [FsJobs -> FsFiles \cup {NoName}]

(* A job past its link has its bytes under its name. *)
LinkedIsOwn == \A j \in FsJobs : fsJob[j].pc \in {"dirsync", "unlink", "report"} => fsDir[fsJob[j].name] = j

(* Past the sync of the directory that name is kept. *)
SyncedIsKept == \A j \in FsJobs : fsJob[j].pc \in {"unlink", "report"} => fsJob[j].name \in fsKept

SaidIsKept == \A j \in FsJobs : fsSaid[j] # NoName => fsSaid[j] \in fsKept

KeptIsTaken == \A n \in fsKept : fsDir[n] # NoBytes

FsInv ==
    /\ FsTypes
    /\ LinkedIsOwn
    /\ SyncedIsKept
    /\ SaidIsKept
    /\ KeptIsTaken
    /\ AnnouncedIsStored

LEMMA FsInitInv == FsInit => FsInv
<1> SUFFICES ASSUME FsInit PROVE FsInv
  OBVIOUS
<1>1. <<0, 0>> \in FsFiles
  BY RemoteServicesAssumption DEF FsFiles
<1>2. FsTypes
  BY <1>1 DEF FsInit, FsIdle, FsTypes, FsTypeOK, FsPlaces
<1>3. QED
  BY <1>2 DEF FsInit, FsIdle, FsInv, LinkedIsOwn, SyncedIsKept, SaidIsKept, KeptIsTaken, AnnouncedIsStored

(* A job that goes on, with its name and without touching the directory. *)
LEMMA JobGoes ==
    ASSUME FsInv, NEW j \in FsJobs, NEW pc \in FsPlaces, To(j, pc)
    PROVE  /\ fsJob' \in [FsJobs -> [pc : FsPlaces, name : FsFiles]]
           /\ fsJob'[j].pc = pc /\ fsJob'[j].name = fsJob[j].name
           /\ \A k \in FsJobs : k # j => fsJob'[k] = fsJob[k]
BY DEF FsInv, FsTypes, To

LEMMA FsStepKeeps == FsInv /\ [FsNext]_fsVars => FsInv'
<1> SUFFICES ASSUME FsInv, [FsNext]_fsVars PROVE FsInv'
  OBVIOUS
<1>0. /\ fsJob \in [FsJobs -> [pc : FsPlaces, name : FsFiles]]
      /\ fsDir \in [FsFiles -> FsJobs \cup {NoBytes}] /\ fsKept \subseteq FsFiles
      /\ fsTemp \in [FsJobs -> {"none", "open", "synced"}]
      /\ fsSaid \in [FsJobs -> FsFiles \cup {NoName}]
  BY DEF FsInv, FsTypes, FsTypeOK
<1>1. CASE FsCrash
  <2>1. PICK gone \in SUBSET {n \in FsFiles \ fsKept : fsDir[n] # NoBytes} :
             fsDir' = [n \in FsFiles |-> IF n \in gone THEN NoBytes ELSE fsDir[n]]
    BY <1>1 DEF FsCrash
  <2>2. fsJob' = [j \in FsJobs |-> [FsIdle EXCEPT !.pc = "failed"]] /\ UNCHANGED <<fsKept, fsTemp, fsSaid>>
    BY <1>1 DEF FsCrash
  <2>3. [FsIdle EXCEPT !.pc = "failed"] = [pc |-> "failed", name |-> <<0, 0>>] /\ <<0, 0>> \in FsFiles
    BY RemoteServicesAssumption DEF FsIdle, FsFiles
  <2>4. FsTypes'
    BY <1>0, <2>1, <2>2, <2>3 DEF FsTypes, FsTypeOK, FsPlaces
  <2>5. LinkedIsOwn' /\ SyncedIsKept'
    BY <2>2, <2>3 DEF LinkedIsOwn, SyncedIsKept
  <2>6. \A n \in fsKept : n \in FsFiles /\ fsDir'[n] = fsDir[n]
    BY <1>0, <2>1
  <2>7. SaidIsKept' /\ KeptIsTaken' /\ AnnouncedIsStored'
    BY <2>2, <2>6 DEF FsInv, SaidIsKept, KeptIsTaken, AnnouncedIsStored
  <2>8. QED
    BY <2>4, <2>5, <2>7 DEF FsInv
<1>2. ASSUME NEW j \in FsJobs, NEW pc \in FsPlaces \ {"dirsync", "unlink", "report"}, To(j, pc),
             fsTemp' \in [FsJobs -> {"none", "open", "synced"}], UNCHANGED <<fsDir, fsKept, fsSaid>>
      PROVE FsInv'
  <2>1. /\ fsJob' \in [FsJobs -> [pc : FsPlaces, name : FsFiles]] /\ fsJob'[j].pc = pc
        /\ \A k \in FsJobs : k # j => fsJob'[k] = fsJob[k]
    BY <1>2, JobGoes
  <2>2. QED
    BY <1>0, <1>2, <2>1 DEF FsInv, FsTypes, FsTypeOK, LinkedIsOwn, SyncedIsKept, SaidIsKept, KeptIsTaken,
                            AnnouncedIsStored
<1>3. ASSUME NEW j \in FsJobs, FsPicks(j) PROVE FsInv'
  <2>1. PICK n \in FsNames : fsJob' = [fsJob EXCEPT ![j] = [pc |-> "write", name |-> <<n, 0>>]]
    BY <1>3 DEF FsPicks
  <2>2. <<n, 0>> \in FsFiles
    BY RemoteServicesAssumption DEF FsFiles
  <2>3. /\ fsJob' \in [FsJobs -> [pc : FsPlaces, name : FsFiles]] /\ fsJob'[j].pc = "write"
        /\ \A k \in FsJobs : k # j => fsJob'[k] = fsJob[k]
    BY <1>0, <2>1, <2>2 DEF FsPlaces
  <2>4. QED
    BY <1>0, <1>3, <2>3 DEF FsPicks, FsInv, FsTypes, FsTypeOK, LinkedIsOwn, SyncedIsKept, SaidIsKept,
                            KeptIsTaken, AnnouncedIsStored
<1>4. ASSUME NEW j \in FsJobs, FsWrites(j) PROVE FsInv'
  BY <1>0, <1>2, <1>4 DEF FsWrites, FsPlaces
<1>5. ASSUME NEW j \in FsJobs, FsSyncs(j) PROVE FsInv'
  BY <1>0, <1>2, <1>5 DEF FsSyncs, FsPlaces
<1>6. ASSUME NEW j \in FsJobs, FsLinks(j) PROVE FsInv'
  <2> DEFINE name == fsJob[j].name
             next == <<name[1], name[2] + 1>>
  <2>1. CASE fsDir[name] = NoBytes
    <3>1. name \in FsFiles /\ fsDir' = [fsDir EXCEPT ![name] = j] /\ To(j, "dirsync")
      BY <1>0, <1>6, <2>1 DEF FsLinks
    <3>2. fsDir'[name] = j /\ \A m \in FsFiles : m # name => fsDir'[m] = fsDir[m]
      BY <1>0, <3>1
    <3>3. /\ fsJob' \in [FsJobs -> [pc : FsPlaces, name : FsFiles]] /\ fsJob'[j].pc = "dirsync"
          /\ fsJob'[j].name = name /\ \A k \in FsJobs : k # j => fsJob'[k] = fsJob[k]
      BY <3>1, JobGoes DEF FsPlaces
    <3>4. FsTypes'
      BY <1>0, <1>6, <3>1, <3>3 DEF FsLinks, FsTypes, FsTypeOK
    <3>5. LinkedIsOwn'
      BY <1>0, <2>1, <3>2, <3>3, RemoteServicesAssumption DEF FsInv, LinkedIsOwn
    <3>6. SyncedIsKept' /\ SaidIsKept' /\ KeptIsTaken'
      BY <1>0, <1>6, <2>1, <3>2, <3>3, RemoteServicesAssumption
         DEF FsLinks, FsInv, SyncedIsKept, SaidIsKept, KeptIsTaken
    <3>7. AnnouncedIsStored'
      BY <1>0, <1>6, <2>1, <3>2, RemoteServicesAssumption DEF FsLinks, FsInv, AnnouncedIsStored, NoName
    <3>8. QED
      BY <3>4, <3>5, <3>6, <3>7 DEF FsInv
  <2>2. CASE fsDir[name] # NoBytes
    <3>1. next \in FsFiles /\ fsJob' = [fsJob EXCEPT ![j].name = next] /\ UNCHANGED fsDir
      BY <1>6, <2>2 DEF FsLinks
    <3>2. /\ fsJob' \in [FsJobs -> [pc : FsPlaces, name : FsFiles]] /\ fsJob'[j].pc = "link"
          /\ \A k \in FsJobs : k # j => fsJob'[k] = fsJob[k]
      BY <1>0, <1>6, <3>1 DEF FsLinks, At
    <3>3. QED
      BY <1>0, <1>6, <3>1, <3>2 DEF FsLinks, FsInv, FsTypes, FsTypeOK, LinkedIsOwn, SyncedIsKept, SaidIsKept,
                            KeptIsTaken, AnnouncedIsStored
  <2>3. QED
    BY <2>1, <2>2
<1>7. ASSUME NEW j \in FsJobs, FsDirSyncs(j) PROVE FsInv'
  <2>1. /\ fsJob' \in [FsJobs -> [pc : FsPlaces, name : FsFiles]] /\ fsJob'[j].pc = "unlink"
        /\ fsJob'[j].name = fsJob[j].name /\ \A k \in FsJobs : k # j => fsJob'[k] = fsJob[k]
    BY <1>7, JobGoes DEF FsDirSyncs, FsPlaces
  <2>2. fsKept' = fsKept \cup {n \in FsFiles : fsDir[n] # NoBytes} /\ UNCHANGED <<fsDir, fsTemp, fsSaid>>
    BY <1>7 DEF FsDirSyncs
  <2>3. fsJob[j].name \in FsFiles /\ fsDir[fsJob[j].name] = j
    BY <1>0, <1>7 DEF FsDirSyncs, At, FsInv, LinkedIsOwn
  <2>4. QED
    BY <1>0, <2>1, <2>2, <2>3, RemoteServicesAssumption
       DEF FsInv, FsTypes, FsTypeOK, LinkedIsOwn, SyncedIsKept, SaidIsKept, KeptIsTaken, AnnouncedIsStored
<1>8. ASSUME NEW j \in FsJobs, FsUnlinks(j) PROVE FsInv'
  <2>1. /\ fsJob' \in [FsJobs -> [pc : FsPlaces, name : FsFiles]] /\ fsJob'[j].pc = "report"
        /\ fsJob'[j].name = fsJob[j].name /\ \A k \in FsJobs : k # j => fsJob'[k] = fsJob[k]
    BY <1>8, JobGoes DEF FsUnlinks, FsPlaces
  <2>2. fsJob[j].pc = "unlink" /\ fsTemp' = [fsTemp EXCEPT ![j] = "none"] /\ UNCHANGED <<fsDir, fsKept, fsSaid>>
    BY <1>8 DEF FsUnlinks, At
  <2>3. QED
    BY <1>0, <2>1, <2>2 DEF FsInv, FsTypes, FsTypeOK, LinkedIsOwn, SyncedIsKept, SaidIsKept, KeptIsTaken,
                            AnnouncedIsStored
<1>9. ASSUME NEW j \in FsJobs, FsReports(j) PROVE FsInv'
  <2>1. /\ fsJob' \in [FsJobs -> [pc : FsPlaces, name : FsFiles]] /\ fsJob'[j].pc = "idle"
        /\ \A k \in FsJobs : k # j => fsJob'[k] = fsJob[k]
    BY <1>9, JobGoes DEF FsReports, FsPlaces
  <2>2. fsSaid' = [fsSaid EXCEPT ![j] = fsJob[j].name] /\ UNCHANGED <<fsDir, fsKept, fsTemp>>
    BY <1>9 DEF FsReports
  <2>3. fsJob[j].name \in FsFiles /\ fsDir[fsJob[j].name] = j /\ fsJob[j].name \in fsKept
    BY <1>0, <1>9 DEF FsReports, At, FsInv, LinkedIsOwn, SyncedIsKept
  <2>4. QED
    BY <1>0, <2>1, <2>2, <2>3
       DEF FsInv, FsTypes, FsTypeOK, LinkedIsOwn, SyncedIsKept, SaidIsKept, KeptIsTaken, AnnouncedIsStored
<1>10. ASSUME NEW j \in FsJobs, FsFails(j) PROVE FsInv'
  BY <1>0, <1>2, <1>10 DEF FsFails, FsPlaces
<1>11. CASE UNCHANGED fsVars
  BY <1>11 DEF fsVars, FsInv, FsTypes, FsTypeOK, LinkedIsOwn, SyncedIsKept, SaidIsKept, KeptIsTaken,
               AnnouncedIsStored
<1>12. QED
  BY <1>1, <1>3, <1>4, <1>5, <1>6, <1>7, <1>8, <1>9, <1>10, <1>11 DEF FsNext

-----------------------------------------------------------------------------
(***************************************************************************)
(* The requests of the remote client: an answer, in flight, in its receipt *)
(* or shown, says "ok" only of a command the node ran.                     *)
(***************************************************************************)

RqInv ==
    /\ RqTypeOK
    /\ rqReceipt \in [RqCommands -> {"none", "ok", "error"}]
    /\ rqShown \in [RqCommands -> {"none", "ok", "error"}]
    /\ rqAnswers \subseteq RqCommands \X {"ok", "error"}
    /\ \A c \in RqCommands : <<c, "ok">> \in rqAnswers => c \in rqRan
    /\ \A c \in RqCommands : rqReceipt[c] = "ok" => c \in rqRan
    /\ DoneWasRun

LEMMA RqInitInv == RqInit => RqInv
BY DEF RqInit, RqNone, RqInv, RqTypeOK, DoneWasRun

LEMMA RqStepKeeps == RqInv /\ [RqNext]_rqVars => RqInv'
<1> SUFFICES ASSUME RqInv, [RqNext]_rqVars PROVE RqInv'
  OBVIOUS
<1> USE DEF RqInv, RqTypeOK, DoneWasRun
<1>1. CASE RqConnects
  BY <1>1 DEF RqConnects
<1>2. CASE RqIdentifies
  BY <1>2 DEF RqIdentifies
<1>3. CASE RqTypes
  BY <1>3 DEF RqTypes
<1>4. CASE RqShows
  BY <1>4 DEF RqShows
<1>5. CASE RqLinkDown
  BY <1>5 DEF RqLinkDown
<1>6. ASSUME NEW c \in RqCommands, RqServes(c) PROVE RqInv'
  BY <1>6 DEF RqServes
<1>7. ASSUME NEW c \in RqCommands, RqLoses(c) PROVE RqInv'
  BY <1>7 DEF RqLoses
<1>8. ASSUME NEW a \in rqAnswers, RqAnswered(a) PROVE RqInv'
  <2>1. a[1] \in RqCommands /\ a[2] \in {"ok", "error"} /\ (a[2] = "ok" => a[1] \in rqRan)
    OBVIOUS
  <2>2. QED
    BY <1>8, <2>1 DEF RqAnswered
<1>9. CASE UNCHANGED rqVars
  BY <1>9 DEF rqVars
<1>10. QED
  BY <1>1, <1>2, <1>3, <1>4, <1>5, <1>6, <1>7, <1>8, <1>9 DEF RqNext

-----------------------------------------------------------------------------
(***************************************************************************)
(* The privileged broker: it answers "ok" when the command has exited with *)
(* zero, and a call answers "ok" only then.                                *)
(***************************************************************************)

CbInv ==
    /\ CbTypeOK
    /\ cbBroker \in [CbCalls -> {"none", "peer", "read", "check", "run", "ok", "failed", "gone"}]
    /\ \A c \in CbCalls : cbBroker[c] = "ok" => cbEffect[c] = "complete"
    /\ \A c \in CbCalls : cbCall[c] = "ok" => cbBroker[c] = "ok"

LEMMA CbInitInv == CbInit => CbInv
BY DEF CbInit, CbInv, CbTypeOK

LEMMA CbStepKeeps == CbInv /\ [CbNext]_cbVars => CbInv'
<1> SUFFICES ASSUME CbInv, [CbNext]_cbVars PROVE CbInv'
  OBVIOUS
<1> USE DEF CbInv, CbTypeOK
<1>1. ASSUME NEW c \in CbCalls, CbRequests(c) PROVE CbInv'
  BY <1>1 DEF CbRequests
<1>2. ASSUME NEW c \in CbCalls, CbKnowsPeer(c) \/ CbReads(c) PROVE CbInv'
  BY <1>2 DEF CbKnowsPeer, CbReads, CbStep
<1>3. ASSUME NEW c \in CbCalls, CbRefuses(c) PROVE CbInv'
  BY <1>3 DEF CbRefuses
<1>4. ASSUME NEW c \in CbCalls, CbRuns(c) PROVE CbInv'
  BY <1>4 DEF CbRuns
<1>5. ASSUME NEW c \in CbCalls, CbEnds(c) PROVE CbInv'
  BY <1>5 DEF CbEnds
<1>6. ASSUME NEW c \in CbCalls, CbDies(c) PROVE CbInv'
  BY <1>6 DEF CbDies
<1>7. ASSUME NEW c \in CbCalls, CbAnswered(c) PROVE CbInv'
  BY <1>7 DEF CbAnswered
<1>8. CASE UNCHANGED cbVars
  BY <1>8 DEF cbVars
<1>9. QED
  BY <1>1, <1>2, <1>3, <1>4, <1>5, <1>6, <1>7, <1>8 DEF CbNext

-----------------------------------------------------------------------------
(* Whoever the service works for, however many they are: the links end with
   their plugin, what was announced is stored, and what was reported done has
   been done.                                                                *)
THEOREM VisitorsAreServed == FtSpec /\ FsSpec /\ RqSpec /\ CbSpec => []VisitorsServed
<1>1. FtSpec => []FtInv
  BY FtInitInv, FtStepKeeps, PTL DEF FtSpec
<1>2. FsSpec => []FsInv
  BY FsInitInv, FsStepKeeps, PTL DEF FsSpec
<1>3. RqSpec => []RqInv
  BY RqInitInv, RqStepKeeps, PTL DEF RqSpec
<1>4. CbSpec => []CbInv
  BY CbInitInv, CbStepKeeps, PTL DEF CbSpec
<1>5. FtInv /\ FsInv /\ RqInv /\ CbInv => VisitorsServed
  BY FtInvImplies DEF FsInv, FsTypes, RqInv, CbInv, VisitorsServed, GrantedWasDone
<1>6. QED
  BY <1>1, <1>2, <1>3, <1>4, <1>5, PTL

=============================================================================
