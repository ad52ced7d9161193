-------------------------- MODULE AdminTransaction --------------------------
(***************************************************************************)
(* Installing, upgrading and rolling back releases (admin_cli.py): a       *)
(* journal, a verified backup and the release pointer make each a          *)
(* transaction that an error undoes and that the next command recovers     *)
(* after a crash.                                                          *)
(*                                                                         *)
(* A state root (configuration with its manifest, data) and the managed    *)
(* unit files are represented by the release that wrote them last, 0 for   *)
(* the mutable predecessor; the services are one.  Validation of bundles   *)
(* and paths is outside.                                                   *)
(***************************************************************************)
EXTENDS Integers, Sequences, FiniteSets, SequencesExt

CONSTANTS
    AtProcs,       \* administrators' processes
    AtReleases,    \* release numbers, not 0
    AtFeatureSets, \* features a command may ask for
    AtRetain,      \* releases kept by _prune_releases
    AtInstalled,   \* how many releases have been installed, one after the other, at first
    AtMaxRuns,     \* bound: commands in a behaviour
    AtMaxRecovers  \* bound: commands beyond that, which recover and are refused

ASSUME AdminTransactionAssumption ==
    /\ AtReleases \subseteq Nat \ {0} /\ AtRetain \in Nat \ {0} /\ {AtMaxRuns, AtMaxRecovers} \subseteq Nat
    /\ \A k \in AtInstalled : k \in 0..AtRetain /\ 1..k \subseteq AtReleases

VARIABLES
    atLock,    \* holder of the maintenance lock, or 0
    atOrder,   \* the release directories, oldest first
    atCurrent, \* what the pointer "current" names, 0: no pointer
    atState,   \* [man, data]: the manifest and the data of the state roots
    atUnits,   \* the release the managed files come from
    atRunning, \* the service is active
    atBackup,  \* the backup of the transaction
    atLegacy,  \* the protected backup of the mutable predecessor
    atJournal,
    atBefore,  \* history: what the transaction found
    atClean,   \* history: no undoing has reported errors yet
    atRuns,    \* commands given
    atProc     \* local variables of a command

atVars == <<atLock, atOrder, atCurrent, atState, atUnits, atRunning, atBackup, atLegacy,
            atJournal, atBefore, atClean, atRuns, atProc>>
atDisk == <<atOrder, atCurrent, atState, atUnits>>

NoManifest == [rel |-> 0, prev |-> 0, feats |-> {}, legacy |-> FALSE]
NoBackup == [man |-> NoManifest, data |-> 0, units |-> -1, feats |-> {}]
NoJournal == [state |-> "complete", op |-> "none", prev |-> 0, new |-> 0, backed |-> FALSE, running |-> TRUE]
AtIdle == [pc |-> "idle", op |-> "none", cand |-> 0, feats |-> {}, prev |-> 0, man |-> NoManifest,
           then |-> "none", snap |-> -1, backed |-> FALSE, switched |-> FALSE, errors |-> FALSE]

AtInit ==
    /\ atLock = 0 /\ atRunning = TRUE /\ atBackup = NoBackup /\ atLegacy = NoBackup
    /\ \E k \in AtInstalled :
         /\ atOrder = [i \in 1..k |-> i] /\ atCurrent = k /\ atUnits = k
         /\ atState = [man |-> IF k = 0 THEN NoManifest
                               ELSE [NoManifest EXCEPT !.rel = k, !.prev = k - 1],
                       data |-> k]
    /\ atJournal = [NoJournal EXCEPT !.state = "none"]
    /\ atBefore = <<>> /\ atRuns = 0 /\ atClean = TRUE
    /\ atProc = [p \in AtProcs |-> AtIdle]

Unfinished == atJournal.state \in {"preparing", "backed_up", "switching"}
AtPc(p, pc) == atProc[p].pc = pc
AtTo(p, pc) == atProc' = [atProc EXCEPT ![p].pc = pc]
Journalled(state) == atJournal' = [atJournal EXCEPT !.state = state]
(* A closed journal is never read again, nor is the backup that it names. *)
Closed(state) ==
    atJournal' = [NoJournal EXCEPT !.state = state] /\ atBackup' = NoBackup /\ atBefore' = <<>>
(* The command ends, with or without an error message. *)
CommandEnds(p) == atProc' = [atProc EXCEPT ![p] = AtIdle] /\ atLock' = IF atLock = p THEN 0 ELSE atLock

(* A command: it recovers what an earlier one left, under the lock. *)
CommandGiven(p, op, cand, feats) ==
    /\ AtPc(p, "idle") /\ atLock = 0
    /\ IF op = "none" THEN Unfinished /\ atRuns < AtMaxRuns + AtMaxRecovers ELSE atRuns < AtMaxRuns
    /\ atRuns' = atRuns + 1
    /\ atLock' = IF Unfinished THEN p ELSE 0
    /\ atProc' = [atProc EXCEPT ![p] = [AtIdle EXCEPT !.pc = IF Unfinished THEN "recover" ELSE "plan",
                                        !.op = op, !.cand = cand, !.feats = feats, !.then = "plan"]]
    /\ UNCHANGED <<atDisk, atRunning, atBackup, atLegacy, atJournal, atBefore, atClean>>

(* A plan that is refused whatever the disk holds: a wheel without its source,
   a bundle or a target that is not valid.                                 *)
PlanRefused(p) ==
    /\ AtPc(p, "plan") /\ atProc[p].op = "none" /\ CommandEnds(p)
    /\ UNCHANGED <<atDisk, atRunning, atBackup, atLegacy, atJournal, atBefore, atClean, atRuns>>

(* _apply_release_materialized up to the second lock, without it: the plan
   is made from what the disk holds now.                                   *)
ApplyPlans(p) ==
    LET man == atState.man IN
    /\ AtPc(p, "plan") /\ atProc[p].op \in {"install", "upgrade"}
    /\ IF \/ man # NoManifest /\ man.rel # atCurrent
          \/ atCurrent # 0 /\ atCurrent \notin ToSet(atOrder)
          \/ atProc[p].cand \in ToSet(atOrder)
          \/ atProc[p].op = "install" /\ man # NoManifest
       THEN CommandEnds(p)
       ELSE /\ atProc' = [atProc EXCEPT ![p] = [@ EXCEPT !.pc = "lock", !.prev = atCurrent, !.man = man]]
            /\ UNCHANGED atLock
    /\ UNCHANGED <<atDisk, atRunning, atBackup, atLegacy, atJournal, atBefore, atClean, atRuns>>

(* _rollback up to the second lock; "to legacy" needs the predecessor's backup. *)
RollbackPlans(p) ==
    LET man == atState.man IN
    /\ AtPc(p, "plan") /\ atProc[p].op = "rollback"
    /\ IF \/ man = NoManifest \/ atCurrent \notin ToSet(atOrder)
          \/ IF atProc[p].cand = 0 THEN ~man.legacy
             ELSE atProc[p].cand \notin ToSet(atOrder) \ {atCurrent}
       THEN CommandEnds(p)
       ELSE /\ atProc' = [atProc EXCEPT ![p] = [@ EXCEPT !.pc = "lock", !.prev = atCurrent, !.man = man]]
            /\ UNCHANGED atLock
    /\ UNCHANGED <<atDisk, atRunning, atBackup, atLegacy, atJournal, atBefore, atClean, atRuns>>

(* The second lock; only the rollback to the predecessor looks again at
   what it planned from.                                                   *)
TakesLock(p) ==
    /\ AtPc(p, "lock") /\ atLock = 0
    /\ IF Unfinished THEN /\ atLock' = p
                          /\ atProc' = [atProc EXCEPT ![p] = [@ EXCEPT !.pc = "recover", !.then = "begin"]]
                     ELSE atLock' = p /\ AtTo(p, "begin")
    /\ UNCHANGED <<atDisk, atRunning, atBackup, atLegacy, atJournal, atBefore, atClean, atRuns>>

TxBegins(p) ==
    LET c == atProc[p] IN
    /\ AtPc(p, "begin")
    /\ IF c.op = "rollback" /\ c.cand = 0 /\ <<atState.man, atCurrent>> # <<c.man, c.prev>>
       THEN CommandEnds(p) /\ UNCHANGED <<atJournal, atBefore, atClean>>
       ELSE /\ atJournal' = [state |-> "preparing", op |-> c.op, prev |-> c.prev, new |-> c.cand,
                             backed |-> FALSE, running |-> atRunning]
            /\ atBefore' = <<atDisk, atRunning>>
            /\ atProc' = [atProc EXCEPT ![p].pc = IF c.op = "rollback" THEN "stop" ELSE "build",
                                        ![p].snap = atUnits]
            /\ UNCHANGED atLock
    /\ UNCHANGED <<atDisk, atRunning, atBackup, atLegacy, atClean, atRuns>>

CommandFails(p) == AtTo(p, "undo pointer") /\ UNCHANGED <<atDisk, atRunning, atBackup, atLegacy, atJournal>>

(* The candidate directory is made, and fails when it exists. *)
TxBuilds(p) ==
    /\ AtPc(p, "build")
    /\ IF atProc[p].cand \in ToSet(atOrder) THEN CommandFails(p)
       ELSE /\ atOrder' = Append(atOrder, atProc[p].cand) /\ AtTo(p, "install")
            /\ UNCHANGED <<atCurrent, atState, atUnits, atRunning, atBackup, atLegacy, atJournal>>
    /\ UNCHANGED <<atLock, atBefore, atClean, atRuns>>

(* Environment and packages are installed. *)
TxInstalls(p) ==
    /\ AtPc(p, "install")
    /\ \/ CommandFails(p)
       \/ /\ AtTo(p, "stop")
          /\ UNCHANGED <<atDisk, atRunning, atBackup, atLegacy, atJournal>>
    /\ UNCHANGED <<atLock, atBefore, atClean, atRuns>>

(* The services are stopped; an ordinary rollback does so outside its
   handler and leaves a failure to the next recovery.                      *)
TxStops(p) ==
    /\ AtPc(p, "stop")
    /\ \/ /\ atRunning' = FALSE /\ AtTo(p, "backup")
          /\ UNCHANGED <<atLock, atDisk, atBackup, atLegacy, atJournal>>
       \/ /\ atRunning
          /\ IF atProc[p].op = "rollback" /\ atProc[p].cand # 0
             THEN CommandEnds(p) /\ UNCHANGED <<atDisk, atRunning, atBackup, atLegacy, atJournal>>
             ELSE CommandFails(p) /\ UNCHANGED atLock
    /\ UNCHANGED <<atBefore, atClean, atRuns>>

(* _backup_state, _persist_file_snapshots, and the journal that names the
   backup.  An ordinary rollback saves no managed files; an upgrade backs up
   the features of both releases.                                          *)
TxBacksUpLate(p) ==
    LET c == atProc[p] IN
    /\ AtPc(p, "backup")
    /\ atBackup' = [man |-> atState.man, data |-> atState.data, feats |-> c.feats \cup c.man.feats,
                    units |-> IF c.op = "rollback" /\ c.cand # 0 THEN -1 ELSE c.snap]
    /\ atProc' = [atProc EXCEPT ![p].pc = IF c.op = "rollback" THEN "switch" ELSE "migrate",
                                ![p].backed = TRUE]
    /\ UNCHANGED <<atLock, atDisk, atRunning, atLegacy, atJournal, atBefore, atClean, atRuns>>

TxBacksUp(p) ==
    LET c == atProc[p] IN
    /\ AtPc(p, "backup")
    /\ \/ CommandFails(p)
       \/ /\ atBackup' = [man |-> atState.man, data |-> atState.data,
                          feats |-> IF c.op = "rollback" THEN c.man.feats ELSE c.feats \cup c.man.feats,
                          units |-> IF c.op = "rollback" /\ c.cand # 0 THEN -1 ELSE c.snap]
          /\ atJournal' = [atJournal EXCEPT !.state = "backed_up", !.backed = TRUE]
          /\ atProc' = [atProc EXCEPT ![p].pc = IF c.op = "rollback" THEN "switch" ELSE "migrate",
                                      ![p].backed = TRUE]
          /\ UNCHANGED <<atDisk, atRunning, atLegacy>>
    /\ UNCHANGED <<atLock, atBefore, atClean, atRuns>>

(* Configuration and legacy state are migrated in place; then the journal
   says "switching".                                                       *)
TxMigrates(p) ==
    /\ AtPc(p, "migrate")
    /\ atState' = [atState EXCEPT !.data = atProc[p].cand]
    /\ \/ AtTo(p, "switching")
       \/ AtTo(p, "undo pointer")
    /\ UNCHANGED <<atLock, atOrder, atCurrent, atUnits, atRunning, atBackup, atLegacy, atJournal, atBefore, atClean, atRuns>>

TxSwitching(p) ==
    /\ AtPc(p, "switching") /\ Journalled("switching") /\ AtTo(p, "switch")
    /\ UNCHANGED <<atLock, atDisk, atRunning, atBackup, atLegacy, atBefore, atClean, atRuns>>

(* _switch_release *)
TxSwitches(p) ==
    LET c == atProc[p] IN
    /\ AtPc(p, "switch") /\ c.cand # 0
    /\ \/ CommandFails(p)
       \/ /\ atCurrent' = c.cand
          /\ atProc' = [atProc EXCEPT ![p].pc = "files", ![p].switched = TRUE]
          /\ UNCHANGED <<atOrder, atState, atUnits, atRunning, atBackup, atLegacy, atJournal>>
    /\ UNCHANGED <<atLock, atBefore, atClean, atRuns>>

(* An upgrade renders the units and installs the helpers, a rollback does not. *)
TxWritesFiles(p) ==
    /\ AtPc(p, "files")
    /\ \/ CommandFails(p)
       \/ /\ atUnits' = IF atProc[p].op = "rollback" THEN atUnits ELSE atProc[p].cand
          /\ AtTo(p, "manifest")
          /\ UNCHANGED <<atOrder, atCurrent, atState, atRunning, atBackup, atLegacy, atJournal>>
    /\ UNCHANGED <<atLock, atBefore, atClean, atRuns>>

(* The manifest carries the predecessor's backup along. *)
TxWritesManifest(p) ==
    LET c == atProc[p]
        bridge == c.op = "upgrade" /\ c.man = NoManifest /\ c.prev = 0 IN
    /\ AtPc(p, "manifest")
    /\ \/ CommandFails(p)
       \/ /\ atState' = [atState EXCEPT !.man =
                [rel |-> c.cand, prev |-> c.prev, legacy |-> bridge \/ c.man.legacy,
                 feats |-> IF c.op = "rollback" THEN c.man.feats ELSE c.feats]]
          /\ atLegacy' = IF bridge THEN atBackup ELSE atLegacy
          /\ AtTo(p, "activate")
          /\ UNCHANGED <<atOrder, atCurrent, atUnits, atRunning, atBackup, atJournal>>
    /\ UNCHANGED <<atLock, atBefore, atClean, atRuns>>

(* _rollback_legacy: the predecessor's files, no pointer, its state. *)
LegacyFiles(p) ==
    /\ AtPc(p, "switch") /\ atProc[p].cand = 0
    /\ \/ CommandFails(p)
       \/ /\ atUnits' = atLegacy.units /\ AtTo(p, "legacy pointer")
          /\ UNCHANGED <<atOrder, atCurrent, atState, atRunning, atBackup, atLegacy, atJournal>>
    /\ UNCHANGED <<atLock, atBefore, atClean, atRuns>>

LegacyPointer(p) ==
    /\ AtPc(p, "legacy pointer") /\ atCurrent' = 0 /\ AtTo(p, "legacy state")
    /\ UNCHANGED <<atLock, atOrder, atState, atUnits, atRunning, atBackup, atLegacy, atJournal, atBefore, atClean, atRuns>>

LegacyState(p) ==
    /\ AtPc(p, "legacy state")
    /\ \/ CommandFails(p)
       \/ /\ atState' = [man |-> atLegacy.man, data |-> atLegacy.data] /\ AtTo(p, "activate")
          /\ UNCHANGED <<atOrder, atCurrent, atUnits, atRunning, atBackup, atLegacy, atJournal>>
    /\ UNCHANGED <<atLock, atBefore, atClean, atRuns>>

(* The candidate is started if the service was active, must become ready and
   keep every identity; running, it writes the data.  The journal says
   "complete".                                                             *)
TxActivates(p) ==
    LET c == atProc[p] IN
    /\ AtPc(p, "activate")
    /\ atState' = [atState EXCEPT !.data = IF atJournal.running THEN atCurrent ELSE @]
    /\ \/ /\ atRunning' = atJournal.running /\ AtTo(p, "complete")
       \/ /\ atRunning' \in BOOLEAN /\ AtTo(p, "undo pointer")
    /\ UNCHANGED <<atLock, atOrder, atCurrent, atUnits, atBackup, atLegacy, atJournal, atBefore, atClean, atRuns>>

TxCompletes(p) ==
    /\ AtPc(p, "complete") /\ Closed("complete") /\ atLock' = 0
    /\ IF atProc[p].op = "rollback" THEN atProc' = [atProc EXCEPT ![p] = AtIdle] ELSE AtTo(p, "prune")
    /\ UNCHANGED <<atDisk, atRunning, atLegacy, atClean, atRuns>>

(* _prune_releases, after the lock: the candidate and the newest others stay;
   the rest is removed, the oldest last, until an error.                   *)
TxPrunes(p) ==
    LET others == SelectSeq(atOrder, LAMBDA r : r # atProc[p].cand)
        many == IF Len(others) < AtRetain THEN 0 ELSE Len(others) - AtRetain + 1 IN
    /\ AtPc(p, "prune") /\ CommandEnds(p)
    /\ \E stay \in 0..many :
         atOrder' = SelectSeq(atOrder, LAMBDA r : r \notin {others[i] : i \in (stay + 1)..many})
    /\ UNCHANGED <<atCurrent, atState, atUnits, atRunning, atBackup, atLegacy, atJournal, atBefore, atClean, atRuns>>

(* The handler of an error: each attempt may fail too, which is noted. *)
UndoStep(p, next, changed, others) ==
    /\ \/ changed /\ AtTo(p, next)
       \/ UNCHANGED <<atOrder, atCurrent, atState, atUnits, atRunning>>
          /\ atProc' = [atProc EXCEPT ![p].pc = next, ![p].errors = TRUE]
    /\ others
    /\ UNCHANGED <<atLock, atBackup, atLegacy, atBefore, atClean, atRuns>>

UndoesPointer(p) ==
    LET c == atProc[p] IN
    /\ AtPc(p, "undo pointer")
    /\ UndoStep(p, "undo files",
          /\ atCurrent' = IF c.switched \/ c.op = "rollback" THEN c.prev ELSE atCurrent
          /\ atRunning' = FALSE /\ UNCHANGED <<atOrder, atState, atUnits>>,
          UNCHANGED atJournal)

UndoesFilesOfRollback(p) ==
    LET c == atProc[p] IN
    /\ AtPc(p, "undo files")
    /\ UndoStep(p, "undo state",
          /\ atUnits' = IF c.op = "rollback" /\ c.cand = 0 THEN c.snap ELSE atUnits
          /\ UNCHANGED <<atOrder, atCurrent, atState, atRunning>>,
          UNCHANGED atJournal)

UndoesFiles(p) ==
    LET c == atProc[p] IN
    /\ AtPc(p, "undo files")
    /\ UndoStep(p, "undo state",
          /\ atUnits' = IF c.op = "rollback" /\ c.cand # 0 THEN atUnits ELSE c.snap
          /\ UNCHANGED <<atOrder, atCurrent, atState, atRunning>>,
          UNCHANGED atJournal)

(* The manifest is restored with the state, or from memory. *)
UndoesState(p) ==
    LET c == atProc[p] IN
    /\ AtPc(p, "undo state")
    /\ UndoStep(p, "undo services",
          /\ atState' = IF c.backed THEN [man |-> atBackup.man, data |-> atBackup.data]
                        ELSE IF c.op = "rollback" THEN [atState EXCEPT !.man = c.man] ELSE atState
          /\ UNCHANGED <<atOrder, atCurrent, atUnits, atRunning>>,
          UNCHANGED atJournal)

UndoesServices(p) ==
    /\ AtPc(p, "undo services")
    /\ UndoStep(p, "undone",
          /\ atRunning' = atJournal.running
          /\ UNCHANGED <<atOrder, atCurrent, atState, atUnits>>,
          UNCHANGED atJournal)

(* The candidate is removed: errors are ignored, and it may stay. *)
UndoesCandidate(p) ==
    LET c == atProc[p] IN
    /\ AtPc(p, "undone") /\ AtTo(p, "undo journal")
    /\ atOrder' \in {atOrder} \cup
          (IF c.op = "rollback" THEN {} ELSE {SelectSeq(atOrder, LAMBDA r : r # c.cand)})
    /\ UNCHANGED <<atLock, atCurrent, atState, atUnits, atRunning, atBackup, atLegacy, atJournal, atBefore, atClean, atRuns>>

(* The journal is closed; if it cannot be written the transaction stays
   unfinished, for the next command to recover.                            *)
Undone(p) ==
    LET c == atProc[p] IN
    /\ AtPc(p, "undo journal") /\ CommandEnds(p)
    /\ \/ /\ Closed(IF c.errors THEN "rolled_back, errors" ELSE "rolled_back")
          /\ atClean' = (atClean /\ ~c.errors)
       \/ UNCHANGED <<atJournal, atBackup, atBefore, atClean>>
    /\ UNCHANGED <<atDisk, atRunning, atLegacy, atRuns>>

-----------------------------------------------------------------------------
(* _recover_interrupted_transaction; what contradicts the evidence is
   refused: the command ends and the journal stays unfinished.             *)

RecoverBegins(p) ==
    LET j == atJournal IN
    /\ AtPc(p, "recover")
    /\ IF (j.prev # 0 /\ j.prev \notin ToSet(atOrder)) \/ (~j.backed /\ atCurrent # j.prev)
       THEN CommandEnds(p) /\ UNCHANGED atRunning
       ELSE /\ atRunning' = FALSE /\ AtTo(p, IF j.backed THEN "restore files" ELSE "restore services")
            /\ UNCHANGED atLock
    /\ UNCHANGED <<atDisk, atBackup, atLegacy, atJournal, atBefore, atClean, atRuns>>

RecoverFiles(p) ==
    /\ AtPc(p, "restore files") /\ AtTo(p, "restore pointer")
    /\ atUnits' = IF atBackup.units = -1 THEN atUnits ELSE atBackup.units
    /\ UNCHANGED <<atLock, atOrder, atCurrent, atState, atRunning, atBackup, atLegacy, atJournal, atBefore, atClean, atRuns>>

RecoverPointerKeeps(p) ==
    /\ AtPc(p, "restore pointer") /\ AtTo(p, "restore state")
    /\ UNCHANGED <<atLock, atDisk, atRunning, atBackup, atLegacy, atJournal, atBefore, atClean, atRuns>>

RecoverPointer(p) ==
    /\ AtPc(p, "restore pointer") /\ AtTo(p, "restore state")
    /\ atCurrent' = atJournal.prev
    /\ UNCHANGED <<atLock, atOrder, atState, atUnits, atRunning, atBackup, atLegacy, atJournal, atBefore, atClean, atRuns>>

RecoverState(p) ==
    /\ AtPc(p, "restore state") /\ AtTo(p, "check")
    /\ atState' = [man |-> atBackup.man, data |-> atBackup.data]
    /\ UNCHANGED <<atLock, atOrder, atCurrent, atUnits, atRunning, atBackup, atLegacy, atJournal, atBefore, atClean, atRuns>>

(* The restored manifest must agree with the pointer and with the backup. *)
EvidenceRefused ==
    \/ (atState.man = NoManifest) # (atJournal.prev = 0)
    \/ atState.man.rel # atJournal.prev
    \/ atState.man # NoManifest /\ atState.man.feats # atBackup.feats

RecoverChecks(p) ==
    /\ AtPc(p, "check")
    /\ IF EvidenceRefused THEN CommandEnds(p) ELSE AtTo(p, "restore services") /\ UNCHANGED atLock
    /\ UNCHANGED <<atDisk, atRunning, atBackup, atLegacy, atJournal, atBefore, atClean, atRuns>>

(* _restore_service_states: the previous release may not become ready. *)
RecoverServices(p) ==
    /\ AtPc(p, "restore services")
    /\ \/ atRunning' = atJournal.running /\ AtTo(p, "remove") /\ UNCHANGED atLock
       \/ atJournal.running /\ atRunning' \in BOOLEAN /\ CommandEnds(p)
    /\ UNCHANGED <<atDisk, atBackup, atLegacy, atJournal, atBefore, atClean, atRuns>>

RecoverRemoves(p) ==
    /\ AtPc(p, "remove") /\ AtTo(p, "close")
    /\ atOrder' = IF atJournal.op = "rollback" THEN atOrder
                  ELSE SelectSeq(atOrder, LAMBDA r : r # atJournal.new)
    /\ UNCHANGED <<atLock, atCurrent, atState, atUnits, atRunning, atBackup, atLegacy, atJournal, atBefore, atClean, atRuns>>

RecoveryCloses(p) ==
    /\ AtPc(p, "close") /\ Closed("recovered") /\ AtTo(p, atProc[p].then)
    /\ atLock' = IF atProc[p].then = "plan" THEN 0 ELSE p
    /\ UNCHANGED <<atDisk, atRunning, atLegacy, atClean, atRuns>>

(* The process is killed or the power fails. *)
CommandCrashes(p) ==
    /\ ~AtPc(p, "idle") /\ CommandEnds(p) /\ atRunning' \in BOOLEAN
    /\ UNCHANGED <<atDisk, atBackup, atLegacy, atJournal, atBefore, atClean, atRuns>>

CommonSteps(p) == PlanRefused(p) \/ TakesLock(p) \/ TxBegins(p) \/ TxStops(p) \/ TxBacksUp(p) \/ TxSwitches(p) \/ TxWritesFiles(p)
             \/ TxWritesManifest(p) \/ TxActivates(p) \/ TxCompletes(p)
ApplySteps(p) == ApplyPlans(p) \/ TxBuilds(p) \/ TxInstalls(p) \/ TxMigrates(p) \/ TxSwitching(p) \/ TxPrunes(p)
RollbackSteps(p) == RollbackPlans(p) \/ LegacyFiles(p) \/ LegacyPointer(p) \/ LegacyState(p)
UndoSteps(p) == UndoesPointer(p) \/ UndoesFiles(p) \/ UndoesState(p) \/ UndoesServices(p) \/ UndoesCandidate(p) \/ Undone(p)
RecoverSteps(p) == RecoverBegins(p) \/ RecoverFiles(p) \/ RecoverPointer(p) \/ RecoverState(p)
              \/ RecoverChecks(p) \/ RecoverServices(p) \/ RecoverRemoves(p) \/ RecoveryCloses(p)

(* Releases are numbered as they are first installed. *)
Offered == {r \in AtReleases : r - 1 \in ToSet(atOrder) \cup {0}}

AtNext ==
    \E p \in AtProcs :
        \/ \E cand \in Offered, feats \in AtFeatureSets :
              CommandGiven(p, "install", cand, feats) \/ CommandGiven(p, "upgrade", cand, feats)
        \/ \E cand \in AtReleases \cup {0} : CommandGiven(p, "rollback", cand, {})
        \/ CommandGiven(p, "none", 0, {})
        \/ ApplySteps(p) \/ RollbackSteps(p) \/ CommonSteps(p) \/ UndoSteps(p) \/ RecoverSteps(p) \/ CommandCrashes(p)

AtSpec == AtInit /\ [][AtNext]_atVars

-----------------------------------------------------------------------------

AtTypeOK ==
    /\ atLock \in AtProcs \cup {0} /\ ToSet(atOrder) \subseteq AtReleases
    /\ {atCurrent, atState.data, atState.man.rel, atUnits} \subseteq AtReleases \cup {0}
    /\ atRunning \in BOOLEAN /\ atBackup.units \in AtReleases \cup {0, -1}

(* Between commands the release that runs, the manifest and the directories
   agree, whatever failed or was killed before: the next command is planned
   from them.                                                              *)
PointerAgrees ==
    (~Unfinished /\ atClean
     /\ \A p \in AtProcs : atProc[p].pc \in {"idle", "plan", "lock"})
        => /\ atState.man.rel = atCurrent
           /\ atCurrent = 0 \/ atCurrent \in ToSet(atOrder)

(* "System/configuration paths and migrations are mutated only after that
   checkpoint": while the journal names no backup, what a recovery could not
   restore is as it was.                                                   *)
BackupFirst ==
    Unfinished /\ ~atJournal.backed
        => LET before == atBefore[1] IN
           <<atCurrent, atState, atUnits>> = <<before[2], before[3], before[4]>>

(* An error or a crash anywhere in a transaction, in its undoing and in its
   recovery leaves, once the journal is closed without complaint, exactly
   the pointer, the manifest, the data, the managed files and the service
   that the transaction found, and the releases; only the candidate's
   directory may be left, which the undoing does not insist on removing.   *)
FailureRestores ==
    [][atJournal'.state # atJournal.state /\ atJournal'.state \in {"rolled_back", "recovered"}
        => LET found == atBefore[1]
               left == IF atJournal'.state = "rolled_back" THEN {atJournal.new} \ ToSet(found[1]) ELSE {}
           IN /\ <<atCurrent', atState', atUnits', atRunning'>> = <<found[2], found[3], found[4], atBefore[2]>>
              /\ SelectSeq(atOrder', LAMBDA r : r \notin left) = found[1]]_atVars

(* Every interrupted transaction can be recovered: the evidence that the
   commands wrote themselves is never refused.                             *)
NeverRefused == \A p \in AtProcs : AtPc(p, "check") => ~EvidenceRefused

(* An installation transaction backs up before it changes anything, and a failure or a
   crash in it ends with the release pointer and the files of one release. *)
TransactionsAtomic ==
    /\ [](/\ AtTypeOK
          /\ PointerAgrees
          /\ BackupFirst)
    /\ FailureRestores
=============================================================================
