------------------------------ MODULE StateTrees ------------------------------
(***************************************************************************)
(* What a transaction does to state on disk (admin_cli.py): it merges      *)
(* state of legacy homes into the canonical trees (Sm), snapshots managed  *)
(* files and restores trees and files from the backup (Rt), and rewrites   *)
(* the configuration (Cg).  Paths, owners and modes are outside; a tree is *)
(* the contents of a few files, a file's content a number, 0: no file.     *)
(***************************************************************************)
EXTENDS Integers, Sequences, FiniteSets

CONSTANTS
    SmSources,   \* legacy trees that map to one canonical tree, in order
    SmFiles,     \* files of the trees
    SmIdentity,  \* the file named "identity"
    SmMaxWrites, \* bound: writes of an old program in its legacy home
    RtRoots,     \* durable state roots
    RtManaged,   \* managed files outside the roots
    RtMaxKills,  \* bound: kills during the transaction and its recovery
    CgMaxEdits   \* bound: edits of the configuration by the operator

ASSUME StateTreesAssumption ==
    /\ SmIdentity \in SmFiles /\ SmMaxWrites \in Nat /\ RtMaxKills \in Nat /\ CgMaxEdits \in Nat

-----------------------------------------------------------------------------
(* Merging legacy state. *)
VARIABLES
    smLegacy,    \* the legacy trees, NoTree: removed
    smCanon,     \* the canonical tree
    smSlot, smDisplaced, \* the temporary trees beside it
    smAt,        \* source being merged or removed
    smPc,
    smTodo,      \* files of the source not added yet
    smMan,       \* source -> its manifest, taken before the merge
    smBefore,    \* history: the canonical tree the transaction found
    smMerged,    \* history: what the merges made
    smTwice,     \* history: a rename and the rename that undoes it both failed
    smWrites,
    smLate       \* history: files written after the last look at their manifest

smVars == <<smLegacy, smCanon, smSlot, smDisplaced, smAt, smPc, smTodo, smMan, smBefore, smMerged,
            smTwice, smWrites, smLate>>
smTemp == <<smSlot, smDisplaced>>

NoTree == [f \in SmFiles |-> -1]
SmTrees == [SmFiles -> 0..2]
Holds(tree, other) == \A f \in SmFiles : other[f] > 0 => tree[f] = other[f]
SmTo(pc) == smPc' = pc

SmInit ==
    /\ smLegacy \in [SmSources -> SmTrees \cup {NoTree}] /\ smCanon \in SmTrees \cup {NoTree}
    /\ smSlot = NoTree /\ smDisplaced = NoTree /\ smAt = 1 /\ smPc = "begin" /\ smTodo = {}
    /\ smMan = [s \in SmSources |-> NoTree] /\ smBefore = smCanon /\ smMerged = smCanon
    /\ smTwice = FALSE /\ smWrites = 0 /\ smLate = {}

(* A program started by hand still writes in a legacy home. *)
SmWrites(s, f) ==
    /\ smWrites < SmMaxWrites /\ smLegacy[s] # NoTree /\ smPc \notin {"done", "failed", "killed"}
    /\ smWrites' = smWrites + 1
    /\ smLegacy' = [smLegacy EXCEPT ![s][f] = 3]
    /\ smLate' = IF smPc = "rmtree" /\ smAt = s THEN smLate \cup {<<s, f>>} ELSE smLate
    /\ UNCHANGED <<smCanon, smTemp, smAt, smPc, smTodo, smMan, smBefore, smMerged, smTwice>>

(* The manifest is taken, then the merge begins. *)
SmBegins ==
    /\ smPc = "begin"
    /\ IF smAt > Cardinality(SmSources) THEN SmTo("check") /\ smAt' = 1 /\ UNCHANGED smMan
       ELSE IF smLegacy[smAt] = NoTree THEN smAt' = smAt + 1 /\ UNCHANGED <<smPc, smMan>>
       ELSE SmTo("copy") /\ smMan' = [smMan EXCEPT ![smAt] = smLegacy[smAt]] /\ UNCHANGED smAt
    /\ UNCHANGED <<smLegacy, smCanon, smTemp, smTodo, smBefore, smMerged, smTwice, smWrites, smLate>>

(* The slot starts as a verified copy: of the canonical tree if there is one. *)
SmCopies ==
    /\ smPc = "copy"
    /\ IF smCanon # NoTree
       THEN smSlot' = smCanon /\ SmTo("add") /\ smTodo' = {f \in SmFiles : smLegacy[smAt][f] > 0}
       ELSE smSlot' = smLegacy[smAt] /\ SmTo("displace") /\ UNCHANGED smTodo
    /\ UNCHANGED <<smLegacy, smCanon, smDisplaced, smAt, smMan, smBefore, smMerged, smTwice, smWrites, smLate>>

(* The merge is given up: the temporary trees are discarded. *)
GivesUp ==
    /\ SmTo("failed") /\ smSlot' = NoTree /\ smDisplaced' = NoTree

(* Mutant of SmAdds: the legacy file replaces a canonical one that differs. *)
SmAddsOver(f) ==
    /\ smPc = "add" /\ f \in smTodo
    /\ smSlot' = [smSlot EXCEPT ![f] = smLegacy[smAt][f]]
    /\ smTodo' = smTodo \ {f} /\ UNCHANGED <<smDisplaced, smPc>>
    /\ UNCHANGED <<smLegacy, smCanon, smAt, smMan, smBefore, smMerged, smTwice, smWrites, smLate>>

(* A file of the source joins the slot unless another content is there. *)
SmAdds(f) ==
    /\ smPc = "add" /\ f \in smTodo
    /\ IF smSlot[f] \in {0, smLegacy[smAt][f]}
       THEN /\ smSlot' = [smSlot EXCEPT ![f] = smLegacy[smAt][f]]
            /\ smTodo' = smTodo \ {f} /\ UNCHANGED <<smDisplaced, smPc>>
       ELSE GivesUp /\ UNCHANGED smTodo
    /\ UNCHANGED <<smLegacy, smCanon, smAt, smMan, smBefore, smMerged, smTwice, smWrites, smLate>>

(* What the source holds now must all be in the slot. *)
SmVerifies ==
    /\ smPc = "add" /\ smTodo = {}
    /\ IF Holds(smSlot, smLegacy[smAt]) THEN SmTo("displace") /\ UNCHANGED smTemp ELSE GivesUp
    /\ UNCHANGED <<smLegacy, smCanon, smAt, smTodo, smMan, smBefore, smMerged, smTwice, smWrites, smLate>>

SmDisplaces ==
    /\ smPc = "displace"
    /\ smDisplaced' = smCanon /\ smCanon' = NoTree /\ SmTo("install")
    /\ UNCHANGED <<smLegacy, smSlot, smAt, smTodo, smMan, smBefore, smMerged, smTwice, smWrites, smLate>>

(* Mutant of SmInstalls: a failed rename is not undone. *)
SmInstallsOrNot ==
    /\ smPc = "install"
    /\ \/ smCanon' = smSlot /\ smSlot' = NoTree /\ SmTo("sync") /\ UNCHANGED <<smDisplaced, smTwice>>
       \/ UNCHANGED <<smCanon, smTwice>> /\ GivesUp
    /\ UNCHANGED <<smLegacy, smAt, smTodo, smMan, smBefore, smMerged, smWrites, smLate>>

(* The slot is renamed; if that fails the displaced tree goes back, and if
   that fails too both are discarded: only the backup has the tree then.   *)
SmInstalls ==
    /\ smPc = "install"
    /\ \/ smCanon' = smSlot /\ smSlot' = NoTree /\ SmTo("sync") /\ UNCHANGED <<smDisplaced, smTwice>>
       \/ smCanon' = smDisplaced /\ GivesUp /\ UNCHANGED smTwice
       \/ smDisplaced # NoTree /\ UNCHANGED smCanon /\ GivesUp /\ smTwice' = TRUE
    /\ UNCHANGED <<smLegacy, smAt, smTodo, smMan, smBefore, smMerged, smWrites, smLate>>

(* The rename is made durable; if that fails the old tree comes back, unless
   setting the new one aside or the way back fails as well.                *)
SmSyncs ==
    /\ smPc = "sync"
    /\ \/ SmTo("dispose") /\ smMerged' = smCanon /\ UNCHANGED <<smCanon, smTemp, smTwice>>
       \/ smCanon' = smDisplaced /\ GivesUp /\ UNCHANGED <<smMerged, smTwice>>
       \/ UNCHANGED <<smCanon, smMerged, smTwice>> /\ GivesUp
       \/ smDisplaced # NoTree /\ smCanon' = NoTree /\ GivesUp /\ smTwice' = TRUE /\ UNCHANGED smMerged
    /\ UNCHANGED <<smLegacy, smAt, smTodo, smMan, smBefore, smWrites, smLate>>

(* The displaced tree is discarded, or only warned about; the identities of
   the manifest must be in the canonical tree.                             *)
SmDisposes ==
    /\ smPc = "dispose" /\ smDisplaced' = NoTree
    /\ IF smMan[smAt][SmIdentity] \in {0, smCanon[SmIdentity]}
       THEN SmTo("begin") /\ smAt' = smAt + 1 ELSE SmTo("failed") /\ UNCHANGED smAt
    /\ UNCHANGED <<smLegacy, smCanon, smSlot, smTodo, smMan, smBefore, smMerged, smTwice, smWrites, smLate>>

(* Mutant of SmChecks: nobody looks whether the source changed. *)
SmChecksNothing ==
    /\ smPc = "check" /\ smAt <= Cardinality(SmSources) /\ SmTo("rmtree")
    /\ UNCHANGED <<smLegacy, smCanon, smTemp, smAt, smTodo, smMan, smBefore, smMerged, smTwice, smWrites, smLate>>

(* After the release is committed a source goes if it is still what was merged. *)
SmChecks ==
    /\ smPc = "check" /\ smAt <= Cardinality(SmSources)
    /\ IF smLegacy[smAt] = NoTree THEN smAt' = smAt + 1 /\ UNCHANGED smPc
       ELSE SmTo(IF smLegacy[smAt] = smMan[smAt] THEN "rmtree" ELSE "done") /\ UNCHANGED smAt
    /\ UNCHANGED <<smLegacy, smCanon, smTemp, smTodo, smMan, smBefore, smMerged, smTwice, smWrites, smLate>>

SmRemoves ==
    /\ smPc = "rmtree"
    /\ smLegacy' = [smLegacy EXCEPT ![smAt] = NoTree] /\ smAt' = smAt + 1 /\ SmTo("check")
    /\ UNCHANGED <<smCanon, smTemp, smTodo, smMan, smBefore, smMerged, smTwice, smWrites, smLate>>

(* Any other step of the merge may fail, and the process may be killed. *)
SmFails ==
    /\ smPc \in {"copy", "add", "displace"} /\ GivesUp
    /\ UNCHANGED <<smLegacy, smCanon, smAt, smTodo, smMan, smBefore, smMerged, smTwice, smWrites, smLate>>
SmKilled ==
    /\ smPc \notin {"done", "failed", "killed"} /\ SmTo("killed")
    /\ UNCHANGED <<smLegacy, smCanon, smTemp, smAt, smTodo, smMan, smBefore, smMerged, smTwice, smWrites, smLate>>

SmNext ==
    \/ SmBegins \/ SmCopies \/ SmVerifies \/ SmDisplaces \/ SmInstalls \/ SmSyncs \/ SmDisposes
    \/ SmChecks \/ SmRemoves \/ SmFails \/ SmKilled
    \/ \E f \in SmFiles : SmAdds(f) \/ \E s \in SmSources : SmWrites(s, f)

SmSpec == SmInit /\ [][SmNext]_smVars

SmTypeOK ==
    /\ smLegacy \in [SmSources -> [SmFiles -> -1..3]] /\ smCanon \in [SmFiles -> -1..3]
    /\ smSlot \in [SmFiles -> -1..3] /\ smDisplaced \in [SmFiles -> -1..3]
    /\ smAt \in 1..Cardinality(SmSources) + 1 /\ smTodo \subseteq SmFiles /\ smWrites \in 0..SmMaxWrites

(* No merge of any number of legacy homes replaces or drops a canonical file,
   whatever fails and wherever it is killed: the canonical tree, or the one
   displaced beside it, holds all it had (_merge_tree_atomically).         *)
CanonicalIsKept == smTwice \/ Holds(smCanon, smBefore) \/ Holds(smDisplaced, smBefore)

(* A legacy tree is removed only when everything in it is in the merged tree;
   what is written while it is being removed is the exception
   (_remove_migrated_legacy_state).                                        *)
RemovedIsMerged ==
    [][\A s \in SmSources : smLegacy[s] # NoTree /\ smLegacy'[s] = NoTree =>
         \A f \in SmFiles : smLegacy[s][f] \in {0, smMerged[f]} \/ <<s, f>> \in smLate]_smVars

-----------------------------------------------------------------------------
(* Snapshots, the backup and restoring from it. *)
VARIABLES
    rtLive,     \* root -> its tree: 0 absent, 1 as found, 2 changed
    rtFiles,    \* managed file -> its content, likewise
    rtBackup,   \* root -> the tree in the backup
    rtBlobs,    \* managed file -> its blob in the backup, -1: none yet
    rtListed,   \* managed-files.json is written
    rtJournal,
    rtMem,      \* the snapshots the process holds
    rtPc,
    rtTodo,     \* files or roots the present loop has not reached
    rtTmp,      \* root -> the staged tree, -1: none
    rtDisp,     \* root -> the displaced tree, -1: none
    rtSwitched, \* roots switched by this restore
    rtWas,      \* history: the trees when the restore began
    rtFound,    \* history: trees and files when the transaction began
    rtErrors,   \* the undoing of a restore, or of a file, failed as well
    rtEarly,    \* history: the handler ran before the journal named the backup
    rtKills

rtVars == <<rtLive, rtFiles, rtBackup, rtBlobs, rtListed, rtJournal, rtMem, rtPc, rtTodo, rtTmp,
            rtDisp, rtSwitched, rtWas, rtFound, rtErrors, rtEarly, rtKills>>
rtSaved == <<rtBackup, rtBlobs, rtListed, rtJournal, rtMem, rtFound, rtEarly, rtKills>>
rtStage == <<rtTmp, rtDisp, rtSwitched, rtWas>>

RtNone(S) == [x \in S |-> -1]
RtGoes(pc, todo) == rtPc' = pc /\ rtTodo' = todo

RtInit ==
    /\ rtLive \in [RtRoots -> {0, 1}] /\ rtFiles \in [RtManaged -> {0, 1}]
    /\ rtBackup = RtNone(RtRoots) /\ rtBlobs = RtNone(RtManaged) /\ rtListed = FALSE
    /\ rtJournal = "preparing" /\ rtMem = rtFiles /\ rtPc = "backup" /\ rtTodo = {}
    /\ rtTmp = RtNone(RtRoots) /\ rtDisp = RtNone(RtRoots) /\ rtSwitched = {} /\ rtWas = rtLive
    /\ rtFound = <<rtLive, rtFiles>> /\ rtErrors = FALSE /\ rtEarly = FALSE /\ rtKills = 0

(* The trees are copied, then one blob per managed file is written. *)
RtBacksUp ==
    /\ rtPc = "backup" /\ rtBackup' = rtLive /\ RtGoes("blobs", RtManaged)
    /\ UNCHANGED <<rtLive, rtFiles, rtBlobs, rtListed, rtJournal, rtMem, rtStage, rtFound, rtErrors, rtEarly, rtKills>>
SavesBlob(f) ==
    /\ rtPc = "blobs" /\ f \in rtTodo
    /\ rtBlobs' = [rtBlobs EXCEPT ![f] = rtMem[f]] /\ rtTodo' = rtTodo \ {f}
    /\ UNCHANGED <<rtLive, rtFiles, rtBackup, rtListed, rtJournal, rtMem, rtPc, rtStage, rtFound, rtErrors, rtEarly, rtKills>>
ListsBlobs ==
    /\ rtPc = "blobs" /\ rtTodo = {} /\ rtListed' = TRUE /\ RtGoes("journal", {})
    /\ UNCHANGED <<rtLive, rtFiles, rtBackup, rtBlobs, rtJournal, rtMem, rtStage, rtFound, rtErrors, rtEarly, rtKills>>
(* Mutant of JournalsBackup: the journal names the backup before its snapshots are there. *)
JournalsEarly ==
    /\ rtPc \in {"blobs", "journal"} /\ rtJournal = "preparing" /\ rtJournal' = "backed_up"
    /\ rtPc' = (IF rtPc = "journal" THEN "work" ELSE rtPc)
    /\ UNCHANGED <<rtLive, rtFiles, rtBackup, rtBlobs, rtListed, rtMem, rtTodo, rtStage, rtFound, rtErrors, rtEarly, rtKills>>

JournalsBackup ==
    /\ rtPc = "journal" /\ rtJournal' = "backed_up" /\ RtGoes("work", {})
    /\ UNCHANGED <<rtLive, rtFiles, rtBackup, rtBlobs, rtListed, rtMem, rtStage, rtFound, rtErrors, rtEarly, rtKills>>

(* The rest of the transaction changes roots and managed files, and ends. *)
RtWorks ==
    /\ rtPc = "work"
    /\ \/ \E r \in RtRoots : rtLive' = [rtLive EXCEPT ![r] = 2] /\ UNCHANGED rtFiles
       \/ \E f \in RtManaged, c \in {0, 2} : rtFiles' = [rtFiles EXCEPT ![f] = c] /\ UNCHANGED rtLive
    /\ UNCHANGED <<rtSaved, rtPc, rtTodo, rtStage, rtErrors>>
RtCommits ==
    /\ rtPc = "work" /\ rtJournal' = "complete" /\ RtGoes("done", {})
    /\ UNCHANGED <<rtLive, rtFiles, rtBackup, rtBlobs, rtListed, rtMem, rtStage, rtFound, rtErrors, rtEarly, rtKills>>
(* A failure: the handler restores from what the process remembers. *)
RtFails ==
    /\ rtPc \in {"blobs", "journal", "work"} /\ RtGoes("files", RtManaged)
    /\ rtEarly' = (rtJournal = "preparing")
    /\ UNCHANGED <<rtLive, rtFiles, rtBackup, rtBlobs, rtListed, rtJournal, rtMem, rtFound, rtKills, rtStage, rtErrors>>

(* Mutant of RestoresFile: a file that was not there before stays. *)
RestoresPresentFile(f) ==
    /\ rtPc = "files" /\ f \in rtTodo
    /\ rtFiles' = [rtFiles EXCEPT ![f] = IF rtMem[f] = 0 THEN @ ELSE rtMem[f]] /\ rtTodo' = rtTodo \ {f}
    /\ UNCHANGED <<rtLive, rtSaved, rtPc, rtStage, rtErrors>>

(* Files are restored one by one; in the handler an error is noted and the
   trees are restored all the same, in a recovery it ends the command.     *)
RestoresFile(f) ==
    /\ rtPc = "files" /\ f \in rtTodo
    /\ rtFiles' = [rtFiles EXCEPT ![f] = rtMem[f]] /\ rtTodo' = rtTodo \ {f}
    /\ UNCHANGED <<rtLive, rtSaved, rtPc, rtStage, rtErrors>>

FileFails ==
    /\ rtPc = "files" /\ rtTodo # {} /\ rtKills = 0
    /\ rtErrors' = TRUE /\ RtGoes("files", {})
    /\ UNCHANGED <<rtLive, rtFiles, rtSaved, rtStage>>

(* Every root present in the backup is staged beside its place. *)
RtStages ==
    /\ rtPc = "files" /\ rtTodo = {} /\ rtWas' = rtLive /\ rtSwitched' = {}
    /\ rtTmp' = [r \in RtRoots |-> IF rtBackup[r] = 0 THEN -1 ELSE rtBackup[r]]
    /\ RtGoes("switch", RtRoots)
    /\ UNCHANGED <<rtLive, rtFiles, rtSaved, rtDisp, rtErrors>>
(* One root: what is there is set aside ... *)
RtDisplaces(r) ==
    /\ rtPc = "switch" /\ r \in rtTodo \ rtSwitched
    /\ rtDisp' = [rtDisp EXCEPT ![r] = IF rtLive[r] = 0 THEN -1 ELSE rtLive[r]]
    /\ rtLive' = [rtLive EXCEPT ![r] = 0] /\ rtSwitched' = rtSwitched \cup {r}
    /\ \A q \in rtSwitched : q \notin rtTodo
    /\ UNCHANGED <<rtFiles, rtSaved, rtPc, rtTodo, rtTmp, rtWas, rtErrors>>
(* ... and the staged tree renamed into its place. *)
RtSwitches(r) ==
    /\ rtPc = "switch" /\ r \in rtTodo \cap rtSwitched
    /\ rtLive' = [rtLive EXCEPT ![r] = IF rtTmp[r] = -1 THEN 0 ELSE rtTmp[r]]
    /\ rtTmp' = [rtTmp EXCEPT ![r] = -1] /\ rtTodo' = rtTodo \ {r}
    /\ UNCHANGED <<rtFiles, rtSaved, rtPc, rtDisp, rtSwitched, rtWas, rtErrors>>

(* Mutant of RtUndoes: only the root that failed goes back. *)
RtUndoesLast ==
    /\ rtPc = "undo" /\ rtTodo # {}
    /\ \E r \in rtTodo : rtLive' = [rtLive EXCEPT ![r] = IF rtDisp[r] = -1 THEN 0 ELSE rtDisp[r]]
    /\ rtDisp' = RtNone(RtRoots) /\ rtTodo' = {}
    /\ UNCHANGED <<rtFiles, rtSaved, rtPc, rtTmp, rtSwitched, rtWas, rtErrors>>

(* A step of the restore or its verification fails: every switched root goes
   back; a rename that fails here leaves the root as it is or without a tree,
   and its displaced tree is discarded with the others.                    *)
SwitchFails ==
    /\ rtPc = "switch" /\ RtGoes("undo", rtSwitched)
    /\ UNCHANGED <<rtLive, rtFiles, rtSaved, rtStage, rtErrors>>

RtUndoes ==
    /\ rtPc = "undo"
    /\ \E r \in rtTodo :
         /\ \/ rtLive' = [rtLive EXCEPT ![r] = IF rtDisp[r] = -1 THEN 0 ELSE rtDisp[r]] /\ UNCHANGED rtErrors
            \/ rtErrors' = TRUE /\ rtLive' \in {rtLive, [rtLive EXCEPT ![r] = 0]}
         /\ rtDisp' = [rtDisp EXCEPT ![r] = -1] /\ rtTodo' = rtTodo \ {r}
    /\ UNCHANGED <<rtFiles, rtSaved, rtPc, rtTmp, rtSwitched, rtWas>>

(* The restore has failed: the handler gives up with errors, a recovery
   leaves the journal for the next command.                                *)
RtRefused ==
    /\ rtPc = "undo" /\ rtTodo = {} /\ rtTmp' = RtNone(RtRoots)
    /\ RtGoes(IF rtKills = 0 THEN "refused" ELSE "killed", {})
    /\ rtJournal' = IF rtKills = 0 THEN "rolled_back" ELSE rtJournal
    /\ UNCHANGED <<rtLive, rtFiles, rtBackup, rtBlobs, rtListed, rtMem, rtFound, rtEarly, rtKills, rtDisp, rtSwitched, rtWas, rtErrors>>

RtRestored ==
    /\ rtPc = "switch" /\ rtTodo = {} /\ \A r \in RtRoots : rtLive[r] = rtBackup[r]
    /\ rtDisp' = RtNone(RtRoots) /\ RtGoes("done", {})
    /\ rtJournal' = IF rtKills = 0 THEN "rolled_back" ELSE "recovered"
    /\ UNCHANGED <<rtLive, rtFiles, rtBackup, rtBlobs, rtListed, rtMem, rtFound, rtEarly, rtKills, rtTmp, rtSwitched, rtWas, rtErrors>>

(* A kill: memory is lost, staged and displaced trees stay as orphans. *)
RtKilled ==
    /\ rtPc \notin {"done", "refused", "killed"} /\ rtKills < RtMaxKills
    /\ rtKills' = rtKills + 1 /\ RtGoes("killed", {}) /\ rtErrors' = FALSE
    /\ rtMem' = RtNone(RtManaged) /\ rtTmp' = RtNone(RtRoots) /\ rtDisp' = RtNone(RtRoots)
    /\ rtSwitched' = {}
    /\ UNCHANGED <<rtLive, rtFiles, rtBackup, rtBlobs, rtListed, rtJournal, rtWas, rtFound, rtEarly>>

(* The next command: before the journal named a backup nothing was changed;
   after, the snapshots are loaded, or the recovery is refused for good.   *)
RtRecovers ==
    /\ rtPc = "killed"
    /\ IF rtJournal = "preparing" THEN rtJournal' = "recovered" /\ RtGoes("done", {}) /\ UNCHANGED rtMem
       ELSE IF rtListed /\ \A f \in RtManaged : rtBlobs[f] # -1
            THEN rtMem' = rtBlobs /\ RtGoes("files", RtManaged) /\ UNCHANGED rtJournal
            ELSE RtGoes("stuck", {}) /\ UNCHANGED <<rtMem, rtJournal>>
    /\ UNCHANGED <<rtLive, rtFiles, rtBackup, rtBlobs, rtListed, rtStage, rtFound, rtErrors, rtEarly, rtKills>>

RtNext ==
    \/ RtBacksUp \/ ListsBlobs \/ JournalsBackup \/ RtWorks \/ RtCommits \/ RtFails \/ FileFails
    \/ RtStages \/ SwitchFails \/ RtUndoes \/ RtRefused \/ RtRestored \/ RtKilled \/ RtRecovers
    \/ \E f \in RtManaged : SavesBlob(f) \/ RestoresFile(f)
    \/ \E r \in RtRoots : RtDisplaces(r) \/ RtSwitches(r)

RtSpec == RtInit /\ [][RtNext]_rtVars

RtTypeOK ==
    /\ rtLive \in [RtRoots -> 0..2] /\ rtFiles \in [RtManaged -> 0..2]
    /\ rtBlobs \in [RtManaged -> -1..2] /\ rtKills \in 0..RtMaxKills
    /\ rtSwitched \subseteq RtRoots /\ rtTodo \subseteq RtRoots \cup RtManaged

(* A restoration that ends without an error has brought every root and every
   managed file back (_restore_state_backup, _restore_files).  It does not
   hold: a failure between backup and journal makes the handler switch roots
   of which the journal says nothing; a kill there is never repaired.       *)
RestoredAlways ==
    rtPc = "done" /\ rtJournal \in {"rolled_back", "recovered"} /\ ~rtErrors => <<rtLive, rtFiles>> = rtFound

(* It holds, however often the process is killed while it works or recovers,
   where the handler ran after the journal or was not killed
   (_apply_release_materialized, _recover_interrupted_transaction).         *)
RestoredIsSnapshot == ~rtEarly \/ rtKills = 0 => RestoredAlways

(* A restore that is refused leaves the roots all as they were, or says that
   it could not; and a journal that names a backup can always be recovered. *)
RestoreAllOrNothing ==
    /\ rtPc = "refused" /\ ~rtErrors => rtLive = rtWas
    /\ rtPc # "stuck"


-----------------------------------------------------------------------------
(* The migrations of the configuration and of the dashboard's credentials. *)
VARIABLES
    cgConf,    \* homes: legacy homes its paths name; mesh; policy; list; pw
    cgSecret,  \* hash, bootstrap password and sessions of the dashboard
    cgPc,
    cgKind,    \* migration under way: 1 paths, 2 mesh, 3 policy, 4 credentials
    cgPlan,    \* the configuration the plan was made from, with what it found
    cgDry,     \* policy the dry plan announced
    cgWarned,  \* the warning of an open policy was printed
    cgFound,   \* configuration and secrets of snapshot and backup
    cgEdits

cgVars == <<cgConf, cgSecret, cgPc, cgKind, cgPlan, cgDry, cgWarned, cgFound, cgEdits>>

CgConfs == [homes : {{1}, {1, 2}}, mesh : {"legacy", "canonical"}, policy : {"unset", "allowlist"},
            list : {"none", "empty", "some"}, pw : {"none", "plain", "hash"}]
CgSecrets == [hash : {"none", "legacy", "modern"}, boot : {"none", "old"}, sessions : {TRUE}]

(* What the plans find to do in the present configuration. *)
PathsToMigrate == cgConf.homes # {}
MeshToMigrate == cgConf.mesh = "legacy"
PolicyToMigrate == cgConf.policy = "unset"
CredentialsToRotate ==
    /\ cgConf.pw # "hash"
    /\ cgConf.pw = "plain" \/ cgSecret.boot = "old" \/ cgSecret.hash = "legacy"
CgTodo(kind) ==
    \/ (kind = 1 /\ PathsToMigrate) \/ (kind = 2 /\ MeshToMigrate)
    \/ (kind = 3 /\ PolicyToMigrate) \/ (kind = 4 /\ CredentialsToRotate)
CgPolicy(conf) == [none |-> "deny", empty |-> "open", some |-> "allowlist"][conf.list]
CgWouldOpen == PolicyToMigrate /\ CgPolicy(cgConf) = "open"

CgInit ==
    /\ cgConf \in CgConfs /\ cgSecret \in CgSecrets /\ cgPc = "dry" /\ cgKind = 1 /\ cgPlan = cgConf
    /\ cgDry = FALSE /\ cgWarned = FALSE /\ cgFound = <<cgConf, cgSecret>> /\ cgEdits = 0

(* The dry plan, before the lock, warns of an open policy. *)
CgPlansDry ==
    /\ cgPc = "dry" /\ cgPc' = "backup" /\ cgDry' = CgWouldOpen /\ cgWarned' = CgWouldOpen
    /\ UNCHANGED <<cgConf, cgSecret, cgKind, cgPlan, cgFound, cgEdits>>
CgBacksUp ==
    /\ cgPc = "backup" /\ cgPc' = "plan" /\ cgFound' = <<cgConf, cgSecret>>
    /\ UNCHANGED <<cgConf, cgSecret, cgKind, cgPlan, cgDry, cgWarned, cgEdits>>

(* Mutant of CgPlans: the live plan relies on the warning of the dry one. *)
CgPlansUnwarned ==
    /\ cgPc = "plan" /\ cgKind <= 4 /\ cgPlan' = cgConf
    /\ IF CgTodo(cgKind) THEN cgPc' = "apply" /\ UNCHANGED cgKind ELSE cgKind' = cgKind + 1 /\ UNCHANGED cgPc
    /\ UNCHANGED <<cgConf, cgSecret, cgDry, cgWarned, cgFound, cgEdits>>

(* A live plan remembers the configuration it read; one that opens the policy
   warns again unless the dry plan had said so.                             *)
CgPlans ==
    /\ cgPc = "plan" /\ cgKind <= 4 /\ cgPlan' = cgConf
    /\ IF CgTodo(cgKind) THEN cgPc' = "apply" /\ UNCHANGED cgKind ELSE cgKind' = cgKind + 1 /\ UNCHANGED cgPc
    /\ cgWarned' = (cgWarned \/ (cgKind = 3 /\ CgWouldOpen /\ ~cgDry))
    /\ UNCHANGED <<cgConf, cgSecret, cgDry, cgFound, cgEdits>>

(* The plan of the first legacy home goes by its paths, the others stay. *)
PathsMigrated == [cgConf EXCEPT !.homes = @ \ {CHOOSE h \in @ : \A k \in @ : h <= k}]
MeshMigrated == [cgConf EXCEPT !.mesh = "canonical"]
PolicyMigrated == [cgConf EXCEPT !.policy = CgPolicy(cgPlan)]
CgMigrated ==
    CASE cgKind = 1 -> PathsMigrated [] cgKind = 2 -> MeshMigrated [] cgKind = 3 -> PolicyMigrated

(* Mutant of CgApplies: the plan is carried out whatever the file holds now. *)
CgAppliesStale ==
    /\ cgPc = "apply" /\ cgKind < 4
    /\ cgConf' = CgMigrated /\ cgPc' = "validate"
    /\ UNCHANGED <<cgSecret, cgKind, cgPlan, cgDry, cgWarned, cgFound, cgEdits>>

(* The plan is carried out in one write if the file is still what was read. *)
CgApplies ==
    /\ cgPc = "apply" /\ cgKind < 4
    /\ IF cgConf = cgPlan THEN cgConf' = CgMigrated /\ cgPc' = "validate"
       ELSE cgPc' = "undo" /\ UNCHANGED cgConf
    /\ UNCHANGED <<cgSecret, cgKind, cgPlan, cgDry, cgWarned, cgFound, cgEdits>>

(* Mutant of CgValidates: what the migration left is not looked at. *)
CgValidatesNothing ==
    /\ cgPc = "validate" /\ cgPc' = "plan" /\ cgKind' = cgKind + 1
    /\ UNCHANGED <<cgConf, cgSecret, cgPlan, cgDry, cgWarned, cgFound, cgEdits>>

(* A new plan must find nothing: a second legacy home ends the transaction. *)
CgValidates ==
    /\ cgPc = "validate"
    /\ IF CgTodo(cgKind) THEN cgPc' = "undo" /\ UNCHANGED cgKind ELSE cgPc' = "plan" /\ cgKind' = cgKind + 1
    /\ UNCHANGED <<cgConf, cgSecret, cgPlan, cgDry, cgWarned, cgFound, cgEdits>>

(* Credentials: a plaintext password leaves the file, then hash, bootstrap
   password and sessions are replaced, each in a step of its own.           *)
CgDropsPlaintext ==
    /\ cgPc = "apply" /\ cgKind = 4
    /\ IF cgPlan.pw # "plain" THEN cgPc' = "hash" /\ UNCHANGED cgConf
       ELSE IF cgConf = cgPlan THEN cgConf' = [cgConf EXCEPT !.pw = "none"] /\ cgPc' = "hash"
       ELSE cgPc' = "undo" /\ UNCHANGED cgConf
    /\ UNCHANGED <<cgSecret, cgKind, cgPlan, cgDry, cgWarned, cgFound, cgEdits>>
CgRotates ==
    /\ \/ cgPc = "hash" /\ cgSecret' = [cgSecret EXCEPT !.hash = "new"] /\ cgPc' = "boot"
       \/ cgPc = "boot" /\ cgSecret' = [cgSecret EXCEPT !.boot = "new"] /\ cgPc' = "sessions"
    /\ UNCHANGED <<cgConf, cgKind, cgPlan, cgDry, cgWarned, cgFound, cgEdits>>
(* Mutant of CgLogsOut: the sessions made with the old password stay. *)
CgLogsNobodyOut ==
    /\ cgPc = "sessions" /\ cgPc' = "plan" /\ cgKind' = 5
    /\ UNCHANGED <<cgConf, cgSecret, cgPlan, cgDry, cgWarned, cgFound, cgEdits>>

CgLogsOut ==
    /\ cgPc = "sessions" /\ cgPc' = "plan" /\ cgKind' = 5
    /\ cgSecret' = [cgSecret EXCEPT !.sessions = FALSE]
    /\ UNCHANGED <<cgConf, cgPlan, cgDry, cgWarned, cgFound, cgEdits>>

CgCommits ==
    /\ cgPc = "plan" /\ cgKind = 5 /\ cgPc' = "done"
    /\ UNCHANGED <<cgConf, cgSecret, cgKind, cgPlan, cgDry, cgWarned, cgFound, cgEdits>>
(* Anything may fail; all is restored, the operator's edits since included. *)
CgFails ==
    /\ cgPc \notin {"dry", "backup", "undo", "undone", "done"} /\ cgPc' = "undo"
    /\ UNCHANGED <<cgConf, cgSecret, cgKind, cgPlan, cgDry, cgWarned, cgFound, cgEdits>>
CgUndoes ==
    /\ cgPc = "undo" /\ cgPc' = "undone" /\ cgConf' = cgFound[1] /\ cgSecret' = cgFound[2]
    /\ UNCHANGED <<cgKind, cgPlan, cgDry, cgWarned, cgFound, cgEdits>>

(* The operator edits the file while the command runs. *)
CgEdit ==
    /\ cgEdits < CgMaxEdits /\ cgPc \notin {"done", "undone"} /\ cgEdits' = cgEdits + 1
    /\ \/ \E l \in {"none", "empty", "some"} : cgConf' = [cgConf EXCEPT !.list = l]
       \/ \E p \in {"unset", "allowlist"} : cgConf' = [cgConf EXCEPT !.policy = p]
       \/ \E p \in {"plain", "hash"} : cgConf' = [cgConf EXCEPT !.pw = p]
    /\ cgConf' # cgConf
    /\ UNCHANGED <<cgSecret, cgPc, cgKind, cgPlan, cgDry, cgWarned, cgFound>>

CgNext ==
    \/ CgPlansDry \/ CgBacksUp \/ CgPlans \/ CgApplies \/ CgValidates \/ CgDropsPlaintext
    \/ CgRotates \/ CgLogsOut \/ CgCommits \/ CgFails \/ CgUndoes \/ CgEdit

CgSpec == CgInit /\ [][CgNext]_cgVars

CgTypeOK ==
    /\ cgConf.policy \in {"unset", "deny", "open", "allowlist"} /\ cgConf.homes \subseteq 1..2
    /\ cgSecret.sessions \in BOOLEAN /\ cgKind \in 1..5 /\ cgEdits \in 0..CgMaxEdits

(* The policy that lets everybody fetch files is written only where the list
   was empty when it was written, and never without a warning, whatever the
   operator does between the dry plan and the live one (_apply_bundle).      *)
OpenIsWarned ==
    [][cgConf.policy = "unset" /\ cgConf'.policy = "open" => cgWarned /\ cgConf.list = "empty"]_cgVars

(* A transaction that ends well leaves no half-rotated credentials and, unless
   somebody edits, no legacy path or plaintext; one that fails changed nothing
   (_apply_dashboard_credential_migration, _apply_legacy_config_path_migration). *)
ConfigIsWhole ==
    /\ cgPc = "done" /\ "new" \in {cgSecret.hash, cgSecret.boot} =>
         cgSecret = [hash |-> "new", boot |-> "new", sessions |-> FALSE]
    /\ cgPc = "done" /\ cgEdits = 0 =>
         /\ cgConf.homes = {} /\ cgConf.mesh = "canonical" /\ cgConf.policy # "unset"
         /\ cgConf.pw = "plain" => FALSE
    /\ cgPc = "undone" => <<cgConf, cgSecret>> = cgFound

(* State is neither lost nor half migrated by a transaction (parts above). *)
StateKept ==
    /\ [](SmTypeOK /\ CanonicalIsKept /\ RtTypeOK /\ RestoredIsSnapshot /\ RestoreAllOrNothing
          /\ CgTypeOK /\ ConfigIsWhole)
    /\ RemovedIsMerged
    /\ OpenIsWarned

=============================================================================
