--------------------------- MODULE IdentityStore ---------------------------
(***************************************************************************)
(* What a node knows itself by and what it was told to remember, in two    *)
(* parts that share nothing:                                               *)
(*   - the identity file (identity_manager.py): processes that load or     *)
(*     create it, back it up and restore it, kills, power losses and       *)
(*     writers that know no lock (Ni...);                                  *)
(*   - the off-grid mode (config.py, app.py): calls that change it, its    *)
(*     runtime override, and restarts that read that (Cf...).              *)
(***************************************************************************)
EXTENDS Integers, FiniteSets

CONSTANTS
    NiProcs,         \* as many processes as use the identity file at once
    NiKeys,          \* bound on the identities there are
    NiRestoresMax,   \* bound on restores
    NiEditsMax,      \* bound on changes by writers that take no lock
    CfCalls,         \* threads that change the off-grid mode
    CfCallsMax,      \* bound on their calls
    CfHasPath        \* a runtime override file is configured

ASSUME IdentityStoreAssumption ==
    /\ {NiKeys, NiRestoresMax, NiEditsMax, CfCallsMax} \subseteq Nat /\ NiKeys >= 1
    /\ CfHasPath \in BOOLEAN /\ "nobody" \notin NiProcs

-----------------------------------------------------------------------------
(* The identity file *)

Absent == -1     \* no such file
Corrupt == 0     \* bytes that are no identity
NiContent == Absent..NiKeys
IsIdentity(c) == c \notin {Absent, Corrupt}

VARIABLES
    niDir,       \* the directory as processes see it: the identity file, each
                 \* restore's safety copy, and what corrupt files were moved away with
    niDurable,   \* the directories a power loss may leave
    niBackup,    \* the file of --backup-identity and --restore-identity
    niLock,      \* who holds the flock
    niProc,      \* processes: where they are, the bytes they read, and of a
                 \* restore its number, its candidate and its original
    niMade,      \* identities made so far; the first came from elsewhere
    niOwed,      \* identities nodes run with that nobody has given up
    niRestores, niEdits

niVars == <<niDir, niDurable, niBackup, niLock, niProc, niMade, niOwed, niRestores, niEdits>>

Nobody == "nobody"
NiRestoring == 1..NiRestoresMax
NiDone == [pc |-> "idle", op |-> "none", bytes |-> Absent, number |-> 0,
           candidate |-> Absent, original |-> Absent]

NiInit ==
    /\ niDir \in [file : {Absent, Corrupt, 1}, safety : {[r \in NiRestoring |-> Absent]},
                  corrupt : {{}}]
    /\ niDurable = {niDir}
    /\ niBackup \in {Absent, Corrupt, 1}
    /\ niLock = Nobody /\ niProc = [p \in NiProcs |-> NiDone]
    /\ niMade = 1 /\ niOwed = {} /\ niRestores = 0 /\ niEdits = 0

NiAt(p, label) == niProc[p].pc = label
NiGoto(p, label) == niProc' = [niProc EXCEPT ![p].pc = label]
NiUnchanged == UNCHANGED <<niBackup, niMade, niOwed, niRestores, niEdits>>

(* A change of a name is lost with the power, or kept, until the directory is
   synced; nothing orders it after another one.                            *)
NiChangesDir(Changed(_)) ==
    niDir' = Changed(niDir) /\ niDurable' = niDurable \cup {Changed(d) : d \in niDurable}

(* os.replace or os.unlink of the identity file, and of a restore's safety copy *)
NiPuts(c) == NiChangesDir(LAMBDA d : [d EXCEPT !.file = c])
NiPutsCopy(p, c) == NiChangesDir(LAMBDA d : [d EXCEPT !.safety[niProc[p].number] = c])
NiSyncs == niDurable' = {niDir} /\ UNCHANGED niDir
NiKeepsDir == UNCHANGED <<niDir, niDurable>>

(* The end of _identity_lock: the call returns or raises *)
NiEnds(p) == niProc' = [niProc EXCEPT ![p] = NiDone] /\ niLock' = Nobody

NiBegins(p) ==
    /\ NiAt(p, "idle")
    /\ \E op \in {"load", "backup", "restore"} :
           niProc' = [niProc EXCEPT ![p] = [NiDone EXCEPT !.pc = "lock", !.op = op]]
    /\ NiKeepsDir /\ NiUnchanged /\ UNCHANGED niLock

(* Mutant of NiTakesLock: the file is open, nothing is locked. *)
NiTakesAny(p) == niLock' = p

NiTakesLock(p) == niLock = Nobody /\ niLock' = p

NiLocks(p) ==
    /\ NiAt(p, "lock") /\ NiTakesLock(p)
    /\ \/ niProc[p].op # "restore" /\ NiGoto(p, "read") /\ UNCHANGED niRestores
       \/ /\ niProc[p].op = "restore" /\ niRestores < NiRestoresMax
          /\ niRestores' = niRestores + 1
          /\ niProc' = [niProc EXCEPT ![p].pc = "candidate", ![p].number = niRestores']
    /\ NiKeepsDir /\ UNCHANGED <<niBackup, niMade, niOwed, niEdits>>

(* load_or_create and backup_identity read the file they find ... *)
NiReads(p) ==
    /\ NiAt(p, "read")
    /\ IF niDir.file # Absent
       THEN niProc' = [niProc EXCEPT ![p].pc = "judge", ![p].bytes = niDir.file]
                /\ UNCHANGED niLock
       ELSE IF niProc[p].op = "load" THEN NiGoto(p, "create") /\ UNCHANGED niLock
       ELSE NiEnds(p)
    /\ NiKeepsDir /\ NiUnchanged

(* ... and have RNS judge a copy of its bytes, which returns None or raises for
   bytes that are no identity: only what raised is read once more.         *)
NiJudges(p) ==
    /\ NiAt(p, "judge")
    /\ IF IsIdentity(niProc[p].bytes) THEN NiGoto(p, "recheck") /\ UNCHANGED niLock
       ELSE IF niProc[p].op = "load"
            THEN (\E label \in {"preserve", "recheck"} : NiGoto(p, label)) /\ UNCHANGED niLock
       ELSE NiEnds(p)
    /\ NiKeepsDir /\ NiUnchanged

(* The digest of a second read is compared with that of the first. *)
NiRechecks(p) ==
    /\ NiAt(p, "recheck")
    /\ IF niDir.file # niProc[p].bytes THEN NiEnds(p)
       ELSE /\ NiGoto(p, CASE niProc[p].op = "backup" -> "back up"
                           [] IsIdentity(niProc[p].bytes) -> "return"
                           [] OTHER -> "preserve")
            /\ UNCHANGED niLock
    /\ NiKeepsDir /\ NiUnchanged

(* The node runs with an identity; what another writer has put in its place
   by now is nobody's to keep.                                             *)
NiRunsWith(k) == niOwed' = IF k = niDir.file THEN niOwed \cup {k} ELSE niOwed

(* _fsync_directory before the identity is returned *)
NiReturns(p) ==
    /\ NiAt(p, "return")
    /\ NiSyncs /\ NiRunsWith(niProc[p].bytes) /\ NiEnds(p)
    /\ UNCHANGED <<niBackup, niMade, niRestores, niEdits>>

(* _preserve_corrupt_identity moves away what is there now. *)
NiPreserves(p) ==
    /\ NiAt(p, "preserve") /\ niDir.file # Absent
    /\ NiChangesDir(LAMBDA d : [d EXCEPT !.file = Absent, !.corrupt = @ \cup {niDir.file}])
    /\ NiGoto(p, "preserve sync")
    /\ NiUnchanged /\ UNCHANGED niLock

NiSyncStep(p, from, to) ==
    /\ NiAt(p, from) /\ NiSyncs /\ NiGoto(p, to)
    /\ NiUnchanged /\ UNCHANGED niLock

(* _atomic_identity_write of a new identity *)
NiCreates(p) ==
    /\ NiAt(p, "create") /\ niMade < NiKeys
    /\ niMade' = niMade + 1
    /\ NiPuts(niMade')
    /\ NiGoto(p, "create sync")
    /\ UNCHANGED <<niBackup, niOwed, niRestores, niEdits, niLock>>

(* What is returned is read back and judged; a second read must agree. *)
NiReadsBack(p) ==
    /\ NiAt(p, "read back")
    /\ IF IsIdentity(niDir.file)
       THEN niProc' = [niProc EXCEPT ![p].pc = "confirm", ![p].bytes = niDir.file]
                /\ UNCHANGED niLock
       ELSE NiEnds(p)
    /\ NiKeepsDir /\ NiUnchanged

NiConfirms(p) ==
    /\ NiAt(p, "confirm")
    /\ IF niDir.file = niProc[p].bytes THEN NiRunsWith(niDir.file) ELSE UNCHANGED niOwed
    /\ NiEnds(p) /\ NiKeepsDir
    /\ UNCHANGED <<niBackup, niMade, niRestores, niEdits>>

(* _atomic_identity_bytes of the backup: a power loss before its directory is
   synced leaves what a kill before the rename leaves.                     *)
NiBacksUp(p) ==
    /\ NiAt(p, "back up")
    /\ niBackup' = niProc[p].bytes
    /\ NiEnds(p) /\ NiKeepsDir
    /\ UNCHANGED <<niMade, niOwed, niRestores, niEdits>>

(* restore_identity judges the backup ... *)
NiReadsCandidate(p) ==
    /\ NiAt(p, "candidate")
    /\ IF IsIdentity(niBackup)
       THEN niProc' = [niProc EXCEPT ![p].pc = "original", ![p].candidate = niBackup]
                /\ UNCHANGED niLock
       ELSE NiEnds(p)
    /\ NiKeepsDir /\ NiUnchanged

NiReadsOriginal(p) ==
    /\ NiAt(p, "original")
    /\ niProc' = [niProc EXCEPT ![p].original = niDir.file,
                                ![p].pc = IF niDir.file = Absent THEN "swap" ELSE "safety"]
    /\ NiKeepsDir /\ NiUnchanged /\ UNCHANGED niLock

(* ... keeps a copy of the original ... *)
NiCopiesOriginal(p) ==
    /\ NiAt(p, "safety")
    /\ NiPutsCopy(p, niProc[p].original)
    /\ NiGoto(p, "safety sync")
    /\ NiUnchanged /\ UNCHANGED niLock

(* ... puts the backup in its place, and reads that back. *)
NiSwaps(p) ==
    /\ NiAt(p, "swap")
    /\ NiPuts(niProc[p].candidate)
    /\ NiGoto(p, "swap sync")
    /\ NiUnchanged /\ UNCHANGED niLock

NiVerifies(p) ==
    /\ NiAt(p, "verify")
    /\ NiGoto(p, IF niDir.file = niProc[p].candidate THEN "drop" ELSE "roll back")
    /\ NiKeepsDir /\ NiUnchanged /\ UNCHANGED niLock

(* A restore that succeeded gives the original up. *)
NiDropsCopy(p) ==
    /\ NiAt(p, "drop")
    /\ NiPutsCopy(p, Absent)
    /\ niOwed' = niOwed \ {niProc[p].original}
    /\ NiGoto(p, "end sync")
    /\ UNCHANGED <<niBackup, niMade, niRestores, niEdits, niLock>>

NiEndSyncs(p) ==
    /\ NiAt(p, "end sync") /\ NiSyncs /\ NiEnds(p) /\ NiUnchanged

(* A restore that failed copies the safety copy back, or takes away the file
   there was none of before.                                               *)
NiRollsBack(p) ==
    /\ NiAt(p, "roll back")
    /\ IF niProc[p].original # Absent
       THEN /\ NiPuts(niDir.safety[niProc[p].number])
            /\ NiGoto(p, "roll back sync")
       ELSE NiPuts(Absent) /\ NiGoto(p, "end sync")
    /\ NiUnchanged /\ UNCHANGED niLock

(* Only then the copy goes. *)
NiRollBackDrops(p) ==
    /\ NiAt(p, "roll back drop")
    /\ NiPutsCopy(p, Absent)
    /\ NiGoto(p, "end sync")
    /\ NiUnchanged /\ UNCHANGED niLock

(* A write, a rename, a read or a sync fails: the call raises, a restore that has
   begun to swap rolls back first, and a rollback that fails leaves the copy. *)
NiFails(p) ==
    /\ niProc[p].pc \notin {"idle", "lock", "drop", "end sync"}
    /\ IF niProc[p].pc \in {"swap", "swap sync", "verify"}
       THEN NiGoto(p, "roll back") /\ UNCHANGED niLock
       ELSE NiEnds(p)
    /\ NiKeepsDir /\ NiUnchanged

(* So does a call whose safety copy cannot be removed, or that has no lock yet. *)
NiFailsLate(p) ==
    /\ niProc[p].pc \in {"lock", "drop", "end sync"}
    /\ IF niProc[p].pc = "lock" THEN niProc' = [niProc EXCEPT ![p] = NiDone] /\ UNCHANGED niLock
       ELSE NiEnds(p)
    /\ NiKeepsDir /\ NiUnchanged

(* A process is killed, and the kernel releases its lock ... *)
NiKilled(p) ==
    /\ ~ NiAt(p, "idle")
    /\ niProc' = [niProc EXCEPT ![p] = NiDone]
    /\ niLock' = IF niLock = p THEN Nobody ELSE niLock
    /\ NiKeepsDir /\ NiUnchanged

(* ... or all are, and with them every name that was not synced. *)
NiPowerLoss ==
    /\ niDir' \in niDurable /\ niDurable' = {niDir'}
    /\ niProc' = [p \in NiProcs |-> NiDone] /\ niLock' = Nobody
    /\ NiUnchanged

(* Someone replaces or removes the file without the lock. *)
NiEdited ==
    /\ niEdits < NiEditsMax /\ niEdits' = niEdits + 1
    /\ \E c \in Absent..niMade : niDir' = [niDir EXCEPT !.file = c]
    /\ niDurable' = {niDir'}
    /\ niOwed' = niOwed \ {niDir.file}
    /\ UNCHANGED <<niBackup, niLock, niProc, niMade, niRestores>>

NiSyncPoint(p) ==
    \/ NiSyncStep(p, "preserve sync", "create") \/ NiSyncStep(p, "create sync", "read back")
    \/ NiSyncStep(p, "safety sync", "swap") \/ NiSyncStep(p, "swap sync", "verify")
    \/ NiSyncStep(p, "roll back sync", "roll back drop")

NiLoadStep(p) ==
    \/ NiBegins(p) \/ NiLocks(p) \/ NiReads(p) \/ NiJudges(p) \/ NiRechecks(p) \/ NiReturns(p)
    \/ NiPreserves(p) \/ NiCreates(p) \/ NiReadsBack(p) \/ NiConfirms(p) \/ NiBacksUp(p)

NiRestoreStep(p) ==
    \/ NiReadsCandidate(p) \/ NiReadsOriginal(p) \/ NiCopiesOriginal(p) \/ NiSwaps(p)
    \/ NiVerifies(p) \/ NiDropsCopy(p) \/ NiRollsBack(p) \/ NiRollBackDrops(p) \/ NiEndSyncs(p)

NiNext ==
    \/ \E p \in NiProcs :
           NiLoadStep(p) \/ NiRestoreStep(p) \/ NiSyncPoint(p) \/ NiFails(p) \/ NiFailsLate(p)
               \/ NiKilled(p)
    \/ NiPowerLoss \/ NiEdited

NiSpec == NiInit /\ [][NiNext]_niVars

-----------------------------------------------------------------------------
(* The off-grid mode *)

Mode == {"on", "off"}

NoOverride == "no override"
Invalid == "invalid"

VARIABLES
    cfMemory,    \* config.offgrid_mode
    cfDisk,      \* internet.force_offline of the runtime override, if there is one
    cfConfigured, \* what config.yaml says
    cfProbe,     \* internet_probe.force_offline
    cfReason,    \* _last_persistence_reason
    cfCall,      \* threads in set_offgrid_mode
    cfUp,        \* "up", "down", or "refused": a start that raised ConfigError
    cfTold,      \* the last answer that said persisted, and nobody asked since
    cfAsked

cfVars == <<cfMemory, cfDisk, cfConfigured, cfProbe, cfReason, cfCall, cfUp, cfTold, cfAsked>>

CfIdle == [pc |-> "idle", value |-> "off", persisted |-> FALSE, alone |-> FALSE]
Nothing == "nothing"

CfInit ==
    /\ cfConfigured \in Mode
    /\ cfDisk \in Mode \cup {NoOverride, Invalid}
    /\ cfDisk # NoOverride => CfHasPath
    /\ cfMemory = cfConfigured /\ cfProbe = cfConfigured /\ cfReason = "not_attempted"
    /\ cfCall = [c \in CfCalls |-> CfIdle]
    /\ cfUp = "down" /\ cfTold = Nothing /\ cfAsked = 0

(* AppConfig.__init__ and the probe that is made from it *)
CfStarts ==
    /\ cfUp = "down"
    /\ IF CfHasPath /\ cfDisk = Invalid
       THEN cfUp' = "refused" /\ UNCHANGED <<cfMemory, cfProbe>>
       ELSE /\ cfUp' = "up"
            /\ cfMemory' = IF CfHasPath /\ cfDisk # NoOverride THEN cfDisk ELSE cfConfigured
            /\ cfProbe' = cfMemory'
    /\ cfReason' = "not_attempted"
    /\ UNCHANGED <<cfDisk, cfConfigured, cfCall, cfTold, cfAsked>>

CfAlone(c) == \A o \in CfCalls \ {c} : cfCall[o].pc = "idle"

(* set_offgrid_mode: nothing to do is answered at once. *)
CfAsks(c, v) ==
    /\ cfUp = "up" /\ cfCall[c].pc = "idle" /\ cfAsked < CfCallsMax
    /\ cfAsked' = cfAsked + 1
    /\ cfTold' = IF v = cfProbe THEN cfTold ELSE Nothing
    /\ cfCall' = IF v = cfProbe THEN cfCall
                 ELSE [o \in CfCalls |->
                          IF o = c
                          THEN [CfIdle EXCEPT !.pc = "config", !.value = v, !.alone = CfAlone(c)]
                          ELSE [cfCall[o] EXCEPT !.alone = FALSE]]
    /\ UNCHANGED <<cfMemory, cfDisk, cfConfigured, cfProbe, cfReason, cfUp>>

(* _atomic_write_yaml: durable when it returns; one that fails has replaced the
   file or has not.                                                        *)
CfWrites(v, ok) == cfDisk' = v \/ (~ ok /\ cfDisk' = cfDisk)

(* set_internet_force_offline, with the config's lock *)
CfSetsConfig(c) ==
    /\ cfCall[c].pc = "config"
    /\ cfMemory' = cfCall[c].value
    /\ \E ok \in BOOLEAN :
           /\ cfCall' = [cfCall EXCEPT ![c].pc = "probe", ![c].persisted = CfHasPath /\ ok]
           /\ IF CfHasPath
              THEN /\ CfWrites(cfCall[c].value, ok)
                   /\ cfReason' = IF ok THEN "persisted" ELSE "write_failed"
              ELSE UNCHANGED cfDisk /\ cfReason' = "no_override_path"
    /\ UNCHANGED <<cfConfigured, cfProbe, cfUp, cfTold, cfAsked>>

(* internet_probe.set_force_offline *)
CfSetsProbe(c) ==
    /\ cfCall[c].pc = "probe"
    /\ cfProbe' = cfCall[c].value
    /\ cfCall' = [cfCall EXCEPT ![c].pc = "answer"]
    /\ UNCHANGED <<cfMemory, cfDisk, cfConfigured, cfReason, cfUp, cfTold, cfAsked>>

CfAnswers(c) ==
    /\ cfCall[c].pc = "answer"
    /\ cfCall' = [cfCall EXCEPT ![c] = CfIdle]
    /\ cfTold' = IF cfCall[c].alone /\ cfCall[c].persisted THEN cfCall[c].value ELSE cfTold
    /\ UNCHANGED <<cfMemory, cfDisk, cfConfigured, cfProbe, cfReason, cfUp, cfAsked>>

(* A stop, a kill or a power loss; config.yaml may be edited before the next start. *)
CfEnds ==
    /\ cfUp # "down" /\ cfUp' = "down"
    /\ cfCall' = [c \in CfCalls |-> CfIdle]
    /\ cfConfigured' \in Mode
    /\ UNCHANGED <<cfMemory, cfDisk, cfProbe, cfReason, cfTold, cfAsked>>

CfNext ==
    \/ CfStarts \/ CfEnds
    \/ \E c \in CfCalls :
           (\E v \in Mode : CfAsks(c, v)) \/ CfSetsConfig(c) \/ CfSetsProbe(c) \/ CfAnswers(c)

CfSpec == CfInit /\ [][CfNext]_cfVars

-----------------------------------------------------------------------------
(* Properties *)

NiSteps == {"idle", "lock", "read", "judge", "recheck", "return", "preserve", "preserve sync",
            "create", "create sync", "read back", "confirm", "back up", "candidate", "original",
            "safety", "safety sync", "swap", "swap sync", "verify", "drop", "end sync",
            "roll back", "roll back sync", "roll back drop"}

NiDirs == [file : NiContent, safety : [NiRestoring -> NiContent], corrupt : SUBSET NiContent]

(* The variables have their values, and the process that may touch the file is
   the one that holds its lock.                                            *)
NiTypeOK ==
    /\ niDir \in niDurable /\ niDurable \subseteq NiDirs /\ niBackup \in NiContent
    /\ niLock \in NiProcs \cup {Nobody}
    /\ niProc \in [NiProcs -> [pc : NiSteps, op : {"none", "load", "backup", "restore"},
                               bytes : NiContent, number : 0..NiRestoresMax,
                               candidate : NiContent, original : NiContent]]
    /\ niMade \in 1..NiKeys /\ niOwed \subseteq 1..NiKeys
    /\ niRestores \in 0..NiRestoresMax /\ niEdits \in 0..NiEditsMax
    /\ \A p \in NiProcs : niProc[p].pc \notin {"idle", "lock"} => niLock = p

CfTypeOK ==
    /\ {cfMemory, cfProbe, cfConfigured} \subseteq Mode
    /\ cfDisk \in Mode \cup {NoOverride, Invalid}
    /\ cfReason \in {"not_attempted", "persisted", "no_override_path", "write_failed"}
    /\ cfCall \in [CfCalls -> [pc : {"idle", "config", "probe", "answer"}, value : Mode,
                               persisted : BOOLEAN, alone : BOOLEAN]]
    /\ cfUp \in {"up", "down", "refused"} /\ cfTold \in Mode \cup {Nothing}
    /\ cfAsked \in 0..CfCallsMax

(* Whatever is killed, fails or loses power, in whatever order processes load,
   back up and restore: an identity a node runs with is, until a restore has
   succeeded or another writer has replaced it, in the identity file or in the
   safety copy of a restore, and a power loss leaves it there.             *)
IdentityIsKept ==
    \A k \in niOwed : \A d \in niDurable :
        k = d.file \/ \E r \in NiRestoring : k = d.safety[r]

(* Nodes that start at once, or one after the other over crashes, run with one
   identity as long as nothing is restored or replaced by hand.            *)
OneIdentity ==
    niRestores = 0 /\ niEdits = 0 => \A k, l \in niOwed : k = l

(* A file that RNS takes for no identity has been put away for good before a
   new identity takes its place.                                           *)
CorruptIsPreserved ==
    niEdits = 0 =>
        \A p \in NiProcs : NiAt(p, "create") /\ niProc[p].bytes # Absent =>
            \A d \in niDurable : niProc[p].bytes \in d.corrupt

(* A mode that was answered as persisted, to a call that no other overlapped, is
   what the node has until it is asked for another one, also after a restart
   with another config.yaml.                                               *)
PersistedModeHolds ==
    cfTold # Nothing =>
        /\ cfDisk = cfTold
        /\ cfUp = "up" => cfMemory = cfTold /\ cfProbe = cfTold

(* What the run checks of the node's identity and of its mode *)
IdentityHeld ==
    /\ NiTypeOK /\ CfTypeOK
    /\ IdentityIsKept /\ OneIdentity /\ CorruptIsPreserved /\ PersistedModeHolds

=============================================================================
