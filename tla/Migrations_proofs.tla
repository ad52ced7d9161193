--------------------------- MODULE Migrations_proofs ---------------------------
(***************************************************************************)
(* Proofs about what is kept on disk, whatever is killed, fails or loses   *)
(* its power:                                                              *)
(*   - the migrations of a plugin's database: the file is as it was, and   *)
(*     the backup it came from is there;                                   *)
(*   - the identity file and the off-grid mode of IdentityStore.           *)
(***************************************************************************)
EXTENDS Migrations, IdentityStore, FiniteSetTheorems, WellFoundedInduction, TLAPS

-----------------------------------------------------------------------------
(* The numbers of the backups. *)

(* A set of naturals with a bound has a greatest member, which Max returns. *)
LEMMA MaxOfBounded ==
    ASSUME NEW S \in SUBSET Nat, S # {}, NEW n \in Nat, \A k \in S : k <= n
    PROVE  Max(S) \in S /\ \A k \in S : k <= Max(S)
<1> DEFINE U == {m \in Nat : \A k \in S : k <= m}
<1> DEFINE R == {ss \in Nat \X Nat : ss[1] < ss[2]}
<1>1. U \subseteq Nat /\ n \in U
  OBVIOUS
<1>2. IsWellFoundedOn(R, Nat)
  BY NatLessThanWellFounded DEF OpToRel
<1>3. PICK m \in U : \A u \in U : ~ (<<u, m>> \in R)
  <2> HIDE DEF R, U
  <2>1. QED
    BY <1>1, <1>2, WFMin
<1>4. m \in Nat /\ \A k \in S : k <= m
  BY <1>3
<1>5. m \in S
  <2>1. SUFFICES ASSUME m \notin S PROVE FALSE
    OBVIOUS
  <2>2. PICK s \in S : TRUE
    OBVIOUS
  <2>3. m - 1 \in Nat /\ \A k \in S : k <= m - 1
    BY <2>1, <2>2, <1>4
  <2>4. m - 1 \in U /\ <<m - 1, m>> \in R
    BY <2>3, <1>4
  <2>5. QED
    BY <2>4, <1>3
<1>6. \E x \in S : \A y \in S : x >= y
  BY <1>4, <1>5
<1>7. Max(S) \in S /\ \A y \in S : Max(S) >= y
  <2> HIDE DEF U, R
  <2>1. QED
    BY <1>6 DEF Max
<1>8. QED
  BY <1>7

-----------------------------------------------------------------------------
(* The invariant *)

MgFiles == {f \in [exists : BOOLEAN, version : 0..MgReleases, rows : SUBSET MgRows] :
               f.exists \/ f = NoFile}
MgSteps == {"idle", "lock", "dry run", "back up", "apply", "validate", "undo", "prune", "ok",
            "failed", "refused", "restore", "unrestored", "unpruned"}
MgDirs == MgProcs \cup {"safety"}

MgTypes ==
    /\ mgDb \in MgFiles
    /\ mgProc \in [MgProcs -> [pc : MgSteps, knows : 0..MgReleases, was : MgFiles, backup : Nat]]
    /\ mgLock \in MgProcs \cup {"nobody"} /\ mgService \in {"stopped", "starting", "running"}
    /\ mgWritten \subseteq MgRows /\ mgOverlap \in BOOLEAN /\ mgSetBack \in BOOLEAN

(* A backup is of a file there was, and its number is its own. *)
BackupsKnown ==
    /\ mgBackups \subseteq [id : Nat \ {0}, db : MgFiles, dir : MgDirs]
    /\ \A b \in mgBackups : b.db.exists
    /\ \A a, b \in mgBackups : a.id = b.id => a = b
    /\ \E n \in Nat : \A b \in mgBackups : b.id <= n

(* Service and administrator keep out of each other's way, but for an overlap. *)
OneAtWork ==
    /\ mgProc["service"].pc # "idle" <=> mgService = "starting"
    /\ mgProc["service"].pc # "restore"
    /\ ~ mgOverlap /\ mgService # "stopped" => mgProc["admin"].pc = "idle"

(* What a migration found at the lock is in the file until it applies; after
   that the file has all of the migration or nothing of it, and the same rows. *)
FileKept(p) ==
    ~ mgOverlap =>
       /\ mgProc[p].pc \in {"dry run", "back up", "apply", "failed"} => AsFound(p)
       /\ mgProc[p].pc \in {"apply", "validate", "undo", "unrestored", "prune", "unpruned"} =>
             /\ AsFound(p) \/ Migrated(p)
             /\ mgProc[p].backup = 0 => mgProc[p].was = NoFile

(* The backup of a migration is the newest of its directory; pruning leaves it
   unless the clock was set back.                                            *)
OwnBackup(p) ==
    /\ mgProc[p].pc \in {"idle", "lock", "dry run", "back up", "refused", "restore"} =>
          mgProc[p].backup = 0
    /\ /\ mgProc[p].backup # 0
       /\ \/ mgProc[p].pc \in {"apply", "validate", "undo", "unrestored", "prune"}
          \/ mgProc[p].pc \in {"ok", "unpruned"} /\ ~ mgSetBack
       =>
          /\ \E b \in mgBackups : /\ b.id = mgProc[p].backup /\ b.dir = p
                                  /\ mgOverlap \/ b.db = mgProc[p].was
          /\ \A c \in mgBackups : c.dir = p => c.id <= mgProc[p].backup

MgInv ==
    /\ MgTypes /\ BackupsKnown /\ OneAtWork
    /\ \A p \in MgProcs : FileKept(p) /\ OwnBackup(p)
    /\ CommittedRowsSurvive


LEMMA IdleTyped ==
    /\ MgIdle \in [pc : MgSteps, knows : 0..MgReleases, was : MgFiles, backup : Nat]
    /\ MgIdle.pc = "idle" /\ MgIdle.backup = 0
<1>1. NoFile \in MgFiles
  BY MgAssumption DEF NoFile, MgFiles
<1>2. QED
  BY <1>1, MgAssumption DEF MgIdle, MgSteps

LEMMA MgInitInv == MgInit => MgInv
<1> SUFFICES ASSUME MgInit PROVE MgInv
  OBVIOUS
<1>1. MgIdle \in [pc : MgSteps, knows : 0..MgReleases, was : MgFiles, backup : Nat] /\ NoFile \in MgFiles
  BY IdleTyped, MgAssumption DEF NoFile, MgFiles
<1>2. \A p \in MgProcs : mgProc[p] = MgIdle /\ mgProc[p].pc = "idle" /\ mgProc[p].backup = 0
  BY DEF MgInit, MgIdle
<1>3. MgTypes
  BY <1>1 DEF MgInit, MgTypes
<1>4. BackupsKnown
  <2>1. mgBackups = {} /\ 0 \in Nat
    BY DEF MgInit
  <2>2. QED
    BY <2>1 DEF BackupsKnown
<1>5. OneAtWork
  BY <1>2 DEF MgInit, OneAtWork, MgProcs
<1>6. \A p \in MgProcs : FileKept(p) /\ OwnBackup(p)
  BY <1>2 DEF FileKept, AsFound, Migrated, OwnBackup
<1>7. QED
  BY <1>3, <1>4, <1>5, <1>6 DEF MgInit, MgInv, CommittedRowsSurvive

(* The next number is larger than every number in use. *)
LEMMA NextBackupFresh ==
    ASSUME BackupsKnown
    PROVE  /\ NextBackup \in Nat \ {0}
           /\ \A b \in mgBackups : b.id < NextBackup
<1> DEFINE S == {0} \cup {b.id : b \in mgBackups}
<1>1. \A b \in mgBackups : b.id \in Nat
  BY DEF BackupsKnown
<1>2. PICK n \in Nat : \A b \in mgBackups : b.id <= n
  BY DEF BackupsKnown
<1>3. S \in SUBSET Nat /\ S # {} /\ \A k \in S : k <= n
  BY <1>1, <1>2
<1>4. Max(S) \in S /\ \A k \in S : k <= Max(S)
  <2> HIDE DEF S
  <2>1. QED
    BY <1>3, MaxOfBounded
<1>5. NextBackup = 1 + Max(S)
  BY DEF NextBackup
<1>6. Max(S) \in Nat /\ \A b \in mgBackups : b.id <= Max(S)
  BY <1>3, <1>4
<1> HIDE DEF S
<1>7. QED
  BY <1>1, <1>5, <1>6

LEMMA SavesKeep ==
    ASSUME BackupsKnown, mgDb \in MgFiles, mgDb.exists, NEW d \in MgDirs, Saves(d, NextBackup)
    PROVE  BackupsKnown'
<1> DEFINE n == NextBackup
<1> DEFINE new == [id |-> n, db |-> mgDb, dir |-> d]
<1>1. n \in Nat \ {0} /\ \A b \in mgBackups : b.id < n
  BY NextBackupFresh
<1>2. mgBackups' = mgBackups \cup {new}
  BY DEF Saves
<1> HIDE DEF n
<1>3. new \in [id : Nat \ {0}, db : MgFiles, dir : MgDirs] /\ new.id = n /\ new.db.exists
  BY <1>1
<1>4. \A b \in mgBackups : b.id \in Nat /\ b.id # n
  BY <1>1 DEF BackupsKnown
<1> HIDE DEF new
<1>5. \A a, b \in mgBackups' : a.id = b.id => a = b
  BY <1>2, <1>3, <1>4 DEF BackupsKnown
<1>6. \A b \in mgBackups' : b.id <= n
  BY <1>1, <1>2, <1>3, <1>4
<1>7. mgBackups' \subseteq [id : Nat \ {0}, db : MgFiles, dir : MgDirs] /\ \A b \in mgBackups' : b.db.exists
  BY <1>2, <1>3 DEF BackupsKnown
<1>8. QED
  BY <1>1, <1>5, <1>6, <1>7 DEF BackupsKnown

LEMMA FewerBackupsKeep ==
    ASSUME BackupsKnown, mgBackups' \subseteq mgBackups
    PROVE  BackupsKnown'
<1>1. PICK n \in Nat : \A b \in mgBackups : b.id <= n
  BY DEF BackupsKnown
<1>2. \A b \in mgBackups' : b.id <= n
  BY <1>1
<1>3. QED
  BY <1>2 DEF BackupsKnown

(* The backup of a number is the only one with it. *)
LEMMA BackupOfFacts ==
    ASSUME BackupsKnown, NEW b \in mgBackups
    PROVE  BackupOf(b.id) = b
BY DEF BackupsKnown, BackupOf

(* A process that is not at work, and whose step it is not, has nothing to keep. *)
LEMMA IdleKeeps ==
    ASSUME NEW p \in MgProcs, mgProc'[p].pc = "idle", mgProc'[p].backup = 0
    PROVE  (FileKept(p) /\ OwnBackup(p))'
BY DEF FileKept, AsFound, Migrated, OwnBackup

LEMMA NotIdle ==
    ASSUME MgTypes, OneAtWork, NEW p \in MgProcs, NEW q \in MgProcs \ {p},
           ~ mgOverlap, mgProc[p].pc # "idle"
    PROVE  mgProc[q].pc = "idle"
BY DEF OneAtWork, MgProcs

(* The other process keeps what it has when this one works alone, or changes
   neither the file nor the backups of the other's directory.                *)
LEMMA OtherKeeps ==
    ASSUME MgInv, NEW p \in MgProcs, NEW q \in MgProcs \ {p}, mgProc'[q] = mgProc[q],
           UNCHANGED <<mgOverlap, mgSetBack>>, mgProc[p].pc # "idle" \/ mgDb' = mgDb,
           \A b \in mgBackups : b.dir = q => b \in mgBackups',
           \A b \in mgBackups' : b.dir = q => b \in mgBackups
    PROVE  (FileKept(q) /\ OwnBackup(q))'
<1>1. FileKept(q) /\ OwnBackup(q) /\ MgTypes /\ OneAtWork
  BY DEF MgInv
<1>2. OwnBackup(q)'
  BY <1>1 DEF OwnBackup
<1>3. FileKept(q)'
  BY <1>1, NotIdle DEF FileKept, AsFound, Migrated
<1>4. QED
  BY <1>2, <1>3

-----------------------------------------------------------------------------
(* The steps of migrate_target *)

(* Going on to another step changes only the step. *)
LEMMA MovesOn ==
    ASSUME MgTypes, NEW p \in MgProcs, NEW s \in MgSteps, MgTo(p, s)
    PROVE  /\ mgProc' = [mgProc EXCEPT ![p] = [mgProc[p] EXCEPT !.pc = s]]
           /\ mgProc'[p].pc = s /\ mgProc'[p].knows = mgProc[p].knows
           /\ mgProc'[p].was = mgProc[p].was /\ mgProc'[p].backup = mgProc[p].backup
           /\ mgProc'[p] \in [pc : MgSteps, knows : 0..MgReleases, was : MgFiles, backup : Nat]
           /\ mgProc' \in [MgProcs -> [pc : MgSteps, knows : 0..MgReleases, was : MgFiles, backup : Nat]]
           /\ \A q \in MgProcs \ {p} : mgProc'[q] = mgProc[q]
<1>1. mgProc[p] \in [pc : MgSteps, knows : 0..MgReleases, was : MgFiles, backup : Nat]
  BY DEF MgTypes
<1>2. mgProc' = [mgProc EXCEPT ![p] = [mgProc[p] EXCEPT !.pc = s]]
  BY DEF MgTo
<1>3. QED
  BY <1>1, <1>2 DEF MgTypes

(* What keeps the two processes apart survives a step in the middle of work. *)
LEMMA AtWorkKeeps ==
    ASSUME OneAtWork, NEW p \in MgProcs, mgProc[p].pc # "idle", mgProc'[p].pc \notin {"idle", "restore"},
           \A q \in MgProcs \ {p} : mgProc'[q] = mgProc[q], UNCHANGED <<mgService, mgOverlap>>
    PROVE  OneAtWork'
<1>1. CASE p = "service"
  <2>1. mgProc'["admin"] = mgProc["admin"]
    BY <1>1 DEF MgProcs
  <2>2. QED
    BY <1>1, <2>1 DEF OneAtWork
<1>2. CASE p = "admin"
  <2>1. mgProc'["service"] = mgProc["service"]
    BY <1>2 DEF MgProcs
  <2>2. QED
    BY <1>2, <2>1 DEF OneAtWork
<1>3. QED
  BY <1>1, <1>2 DEF MgProcs

LEMMA TargetLockKeeps ==
    ASSUME MgInv, NEW p \in MgProcs, TargetLock(p)
    PROVE  MgInv'
<1>1. MgTypes /\ BackupsKnown /\ OneAtWork /\ OwnBackup(p) /\ mgProc[p].pc = "lock" /\ mgProc[p].backup = 0
  BY DEF MgInv, OwnBackup, TargetLock
<1>2. PICK s \in {"dry run", "refused"}, f \in MgFiles :
         /\ mgProc' = [mgProc EXCEPT ![p].pc = s, ![p].was = f]
         /\ s = "dry run" => f = mgDb
         /\ mgLock' \in {p, mgLock}
  <2>1. CASE mgLock = "nobody"
    BY <1>1, <2>1 DEF TargetLock, MgTypes
  <2>2. CASE mgLock # "nobody"
    <3>1. mgProc' = [mgProc EXCEPT ![p].pc = "refused"] /\ mgLock' = mgLock
      BY <2>2 DEF TargetLock, MgTo
    <3>2. mgProc[p].was \in MgFiles
      BY <1>1 DEF MgTypes
    <3>3. mgProc' = [mgProc EXCEPT ![p].pc = "refused", ![p].was = mgProc[p].was]
      BY <1>1, <3>1 DEF MgTypes
    <3>4. QED
      BY <3>1, <3>2, <3>3
  <2>3. QED
    BY <2>1, <2>2
<1>3. /\ mgProc'[p].pc = s /\ mgProc'[p].was = f /\ mgProc'[p].backup = 0
      /\ mgProc'[p].knows = mgProc[p].knows
      /\ \A q \in MgProcs \ {p} : mgProc'[q] = mgProc[q]
  BY <1>1, <1>2 DEF MgTypes
<1>4. UNCHANGED <<mgDb, mgBackups, mgService, mgWritten, mgOverlap, mgSetBack>>
  BY DEF TargetLock
<1>5. MgTypes'
  <2>1. s \in MgSteps
    BY <1>2 DEF MgSteps
  <2>2. mgProc' \in [MgProcs -> [pc : MgSteps, knows : 0..MgReleases, was : MgFiles, backup : Nat]]
    BY <1>1, <1>2, <2>1 DEF MgTypes
  <2>3. QED
    BY <1>1, <1>2, <1>4, <2>2 DEF MgTypes
<1>6. BackupsKnown'
  BY <1>1, <1>4 DEF BackupsKnown
<1>7. OneAtWork'
  BY <1>1, <1>2, <1>3, <1>4, AtWorkKeeps
<1>8. (FileKept(p) /\ OwnBackup(p))'
  BY <1>2, <1>3, <1>4 DEF FileKept, AsFound, Migrated, OwnBackup
<1>9. \A q \in MgProcs \ {p} : (FileKept(q) /\ OwnBackup(q))'
  BY <1>1, <1>3, <1>4, OtherKeeps
<1>10. QED
  BY <1>4, <1>5, <1>6, <1>7, <1>8, <1>9 DEF MgInv, CommittedRowsSurvive

LEMMA MgDryRunKeeps ==
    ASSUME MgInv, NEW p \in MgProcs, MgDryRun(p)
    PROVE  MgInv'
<1>1. MgTypes /\ BackupsKnown /\ OneAtWork /\ FileKept(p) /\ OwnBackup(p)
      /\ mgProc[p].pc = "dry run" /\ mgProc[p].backup = 0
  BY DEF MgInv, OwnBackup, MgDryRun
<1>2. PICK s \in {"failed", "back up", "ok"} : MgTo(p, s)
  BY DEF MgDryRun
<1>3. UNCHANGED <<mgDb, mgLock, mgBackups, mgService, mgWritten, mgOverlap, mgSetBack>>
  BY DEF MgDryRun
<1>4. s \in MgSteps
  BY <1>2 DEF MgSteps
<1>5. /\ mgProc'[p].pc = s /\ mgProc'[p].was = mgProc[p].was
      /\ mgProc'[p].knows = mgProc[p].knows /\ mgProc'[p].backup = 0
      /\ mgProc' \in [MgProcs -> [pc : MgSteps, knows : 0..MgReleases, was : MgFiles, backup : Nat]]
      /\ \A q \in MgProcs \ {p} : mgProc'[q] = mgProc[q]
  BY <1>1, <1>2, <1>4, MovesOn
<1>6. MgTypes' /\ BackupsKnown'
  BY <1>1, <1>3, <1>5 DEF MgTypes, BackupsKnown
<1>7. OneAtWork'
  BY <1>1, <1>2, <1>3, <1>5, AtWorkKeeps
<1>8. (FileKept(p) /\ OwnBackup(p))'
  BY <1>1, <1>2, <1>3, <1>5 DEF FileKept, AsFound, Migrated, OwnBackup
<1>9. \A q \in MgProcs \ {p} : (FileKept(q) /\ OwnBackup(q))'
  BY <1>1, <1>3, <1>5, OtherKeeps
<1>10. QED
  BY <1>3, <1>6, <1>7, <1>8, <1>9 DEF MgInv, CommittedRowsSurvive

LEMMA MgBacksUpKeeps ==
    ASSUME MgInv, NEW p \in MgProcs, MgBacksUp(p)
    PROVE  MgInv'
<1> DEFINE n == NextBackup
<1>1. MgTypes /\ BackupsKnown /\ OneAtWork /\ FileKept(p) /\ OwnBackup(p)
      /\ mgProc[p].pc = "back up" /\ mgProc[p].backup = 0
  BY DEF MgInv, OwnBackup, MgBacksUp
<1>2. UNCHANGED <<mgDb, mgLock, mgService, mgWritten, mgOverlap, mgSetBack>>
  BY DEF MgBacksUp
<1>3. n \in Nat \ {0} /\ \A b \in mgBackups : b.id < n
  BY <1>1, NextBackupFresh
<1>4. CASE mgDb.exists /\ Saves(p, n) /\ mgProc' = [mgProc EXCEPT ![p].pc = "apply", ![p].backup = n]
  <2> DEFINE new == [id |-> n, db |-> mgDb, dir |-> p]
  <2>1. BackupsKnown'
    BY <1>1, <1>4, SavesKeep DEF MgTypes, MgDirs
  <2>2. mgBackups' = mgBackups \cup {new}
    BY <1>4 DEF Saves
  <2> HIDE DEF n
  <2>3. /\ mgProc'[p].pc = "apply" /\ mgProc'[p].backup = n /\ mgProc'[p].was = mgProc[p].was
        /\ mgProc'[p].knows = mgProc[p].knows
        /\ \A q \in MgProcs \ {p} : mgProc'[q] = mgProc[q]
    BY <1>1, <1>4 DEF MgTypes
  <2>4. MgTypes'
    <3>1. "apply" \in MgSteps /\ n \in Nat
      BY <1>3 DEF MgSteps
    <3>2. mgProc' \in [MgProcs -> [pc : MgSteps, knows : 0..MgReleases, was : MgFiles, backup : Nat]]
      BY <1>1, <1>4, <3>1 DEF MgTypes
    <3>3. QED
      BY <1>1, <1>2, <3>2 DEF MgTypes
  <2>5. OneAtWork'
    BY <1>1, <1>2, <2>3, AtWorkKeeps
  <2>6. FileKept(p)'
    BY <1>1, <1>2, <1>3, <2>3 DEF FileKept, AsFound, Migrated
  <2>7. OwnBackup(p)'
    <3>1. new \in mgBackups' /\ new.id = n /\ new.dir = p /\ new.db = mgDb
      BY <2>2
    <3>2. ~ mgOverlap => mgDb = mgProc[p].was
      BY <1>1 DEF FileKept, AsFound, Migrated
    <3>3. \A c \in mgBackups' : c.id <= n
      <4>1. \A c \in mgBackups : c.id \in Nat
        BY <1>1 DEF BackupsKnown
      <4>2. QED
        BY <1>3, <2>2, <3>1, <4>1
    <3> HIDE DEF new
    <3>4. QED
      BY <1>2, <2>3, <3>1, <3>2, <3>3 DEF OwnBackup
  <2>8. \A q \in MgProcs \ {p} : (FileKept(q) /\ OwnBackup(q))'
    <3>1. new.dir = p
      OBVIOUS
    <3> HIDE DEF new
    <3>2. ASSUME NEW q \in MgProcs \ {p} PROVE \A b \in mgBackups' : b.dir = q => b \in mgBackups
      BY <2>2, <3>1
    <3>3. \A b \in mgBackups : b \in mgBackups'
      BY <2>2
    <3>4. QED
      BY <1>1, <1>2, <2>3, <3>2, <3>3, OtherKeeps
  <2>9. QED
    BY <1>2, <2>1, <2>4, <2>5, <2>6, <2>7, <2>8 DEF MgInv, CommittedRowsSurvive
<1>5. CASE MgTo(p, "failed") /\ UNCHANGED mgBackups
  <2>1. /\ mgProc'[p].pc = "failed" /\ mgProc'[p].was = mgProc[p].was
        /\ mgProc'[p].knows = mgProc[p].knows /\ mgProc'[p].backup = 0
        /\ mgProc' \in [MgProcs -> [pc : MgSteps, knows : 0..MgReleases, was : MgFiles, backup : Nat]]
        /\ \A q \in MgProcs \ {p} : mgProc'[q] = mgProc[q]
    BY <1>1, <1>5, MovesOn DEF MgSteps
  <2>2. MgTypes' /\ BackupsKnown'
    BY <1>1, <1>2, <1>5, <2>1 DEF MgTypes, BackupsKnown
  <2>3. OneAtWork'
    BY <1>1, <1>2, <2>1, AtWorkKeeps
  <2>4. (FileKept(p) /\ OwnBackup(p))'
    BY <1>1, <1>2, <1>5, <2>1 DEF FileKept, AsFound, Migrated, OwnBackup
  <2>5. \A q \in MgProcs \ {p} : (FileKept(q) /\ OwnBackup(q))'
    BY <1>1, <1>2, <1>5, <2>1, OtherKeeps
  <2>6. QED
    BY <1>2, <2>2, <2>3, <2>4, <2>5 DEF MgInv, CommittedRowsSurvive
<1>6. CASE ~ mgDb.exists /\ MgTo(p, "apply") /\ UNCHANGED mgBackups
  <2>1. /\ mgProc'[p].pc = "apply" /\ mgProc'[p].was = mgProc[p].was
        /\ mgProc'[p].knows = mgProc[p].knows /\ mgProc'[p].backup = 0
        /\ mgProc' \in [MgProcs -> [pc : MgSteps, knows : 0..MgReleases, was : MgFiles, backup : Nat]]
        /\ \A q \in MgProcs \ {p} : mgProc'[q] = mgProc[q]
    BY <1>1, <1>6, MovesOn DEF MgSteps
  <2>2. mgDb = NoFile
    BY <1>1, <1>6 DEF MgTypes, MgFiles
  <2>3. MgTypes' /\ BackupsKnown'
    BY <1>1, <1>2, <1>6, <2>1 DEF MgTypes, BackupsKnown
  <2>4. OneAtWork'
    BY <1>1, <1>2, <2>1, AtWorkKeeps
  <2>5. (FileKept(p) /\ OwnBackup(p))'
    BY <1>1, <1>2, <1>6, <2>1, <2>2 DEF FileKept, AsFound, Migrated, OwnBackup
  <2>6. \A q \in MgProcs \ {p} : (FileKept(q) /\ OwnBackup(q))'
    BY <1>1, <1>2, <1>6, <2>1, OtherKeeps
  <2>7. QED
    BY <1>2, <2>3, <2>4, <2>5, <2>6 DEF MgInv, CommittedRowsSurvive
<1>7. QED
  BY <1>4, <1>5, <1>6 DEF MgBacksUp

LEMMA AppliesKeeps ==
    ASSUME MgInv, NEW p \in MgProcs, Applies(p)
    PROVE  MgInv'
<1>1. MgTypes /\ BackupsKnown /\ OneAtWork /\ FileKept(p) /\ OwnBackup(p) /\ mgProc[p].pc = "apply"
  BY DEF MgInv, Applies
<1>2. UNCHANGED <<mgLock, mgBackups, mgService, mgWritten, mgOverlap, mgSetBack>>
  BY DEF Applies
<1>3. PICK s \in {"undo", "validate"} : MgTo(p, s)
  BY DEF Applies
<1>4. mgDb' \in MgFiles /\ mgDb'.rows = mgDb.rows
  <2>1. CASE UNCHANGED mgDb
    BY <1>1, <2>1 DEF MgTypes
  <2>2. CASE mgDb' = [mgDb EXCEPT !.exists = TRUE, !.version = mgProc[p].knows]
    BY <1>1, <2>2 DEF MgTypes, MgFiles
  <2>3. QED
    BY <2>1, <2>2 DEF Applies
<1>5. s \in MgSteps
  BY <1>3 DEF MgSteps
<1>6. /\ mgProc'[p].pc = s /\ mgProc'[p].was = mgProc[p].was
      /\ mgProc'[p].knows = mgProc[p].knows /\ mgProc'[p].backup = mgProc[p].backup
      /\ mgProc' \in [MgProcs -> [pc : MgSteps, knows : 0..MgReleases, was : MgFiles, backup : Nat]]
      /\ \A q \in MgProcs \ {p} : mgProc'[q] = mgProc[q]
  BY <1>1, <1>3, <1>5, MovesOn
<1>7. MgTypes' /\ BackupsKnown'
  BY <1>1, <1>2, <1>4, <1>6 DEF MgTypes, BackupsKnown
<1>8. OneAtWork'
  BY <1>1, <1>2, <1>3, <1>6, AtWorkKeeps
<1>9. (FileKept(p) /\ OwnBackup(p))'
  <2>1. OwnBackup(p)'
    BY <1>1, <1>2, <1>3, <1>6 DEF OwnBackup
  <2>2. ~ mgOverlap => mgDb = mgProc[p].was /\ (mgProc[p].backup = 0 => mgProc[p].was = NoFile)
    BY <1>1 DEF FileKept, AsFound
  <2>3. mgDb' = mgDb \/ mgDb' = [mgDb EXCEPT !.exists = TRUE, !.version = mgProc[p].knows]
    BY DEF Applies
  <2>4. ~ mgOverlap => (AsFound(p) \/ Migrated(p))'
    BY <1>6, <2>2, <2>3 DEF AsFound, Migrated
  <2>5. QED
    BY <1>2, <1>3, <1>6, <2>1, <2>2, <2>4 DEF FileKept, AsFound
<1>10. \A q \in MgProcs \ {p} : (FileKept(q) /\ OwnBackup(q))'
  BY <1>1, <1>2, <1>6, OtherKeeps
<1>11. QED
  BY <1>2, <1>4, <1>7, <1>8, <1>9, <1>10 DEF MgInv, CommittedRowsSurvive

LEMMA MgValidatesKeeps ==
    ASSUME MgInv, NEW p \in MgProcs, MgValidates(p)
    PROVE  MgInv'
<1>1. MgTypes /\ BackupsKnown /\ OneAtWork /\ FileKept(p) /\ OwnBackup(p) /\ mgProc[p].pc = "validate"
  BY DEF MgInv, MgValidates
<1>2. UNCHANGED <<mgDb, mgLock, mgBackups, mgService, mgWritten, mgOverlap, mgSetBack>>
  BY DEF MgValidates
<1>3. PICK s \in {"undo", "prune"} : MgTo(p, s)
  BY DEF MgValidates
<1>4. s \in MgSteps
  BY <1>3 DEF MgSteps
<1>5. /\ mgProc'[p].pc = s /\ mgProc'[p].was = mgProc[p].was
      /\ mgProc'[p].knows = mgProc[p].knows /\ mgProc'[p].backup = mgProc[p].backup
      /\ mgProc' \in [MgProcs -> [pc : MgSteps, knows : 0..MgReleases, was : MgFiles, backup : Nat]]
      /\ \A q \in MgProcs \ {p} : mgProc'[q] = mgProc[q]
  BY <1>1, <1>3, <1>4, MovesOn
<1>6. MgTypes' /\ BackupsKnown'
  BY <1>1, <1>2, <1>5 DEF MgTypes, BackupsKnown
<1>7. OneAtWork'
  BY <1>1, <1>2, <1>3, <1>5, AtWorkKeeps
<1>8. (FileKept(p) /\ OwnBackup(p))'
  BY <1>1, <1>2, <1>3, <1>5 DEF FileKept, AsFound, Migrated, OwnBackup
<1>9. \A q \in MgProcs \ {p} : (FileKept(q) /\ OwnBackup(q))'
  BY <1>1, <1>2, <1>5, OtherKeeps
<1>10. QED
  BY <1>2, <1>6, <1>7, <1>8, <1>9 DEF MgInv, CommittedRowsSurvive

(* Undone or not, the file holds the rows it held. *)
LEMMA MgUndoesKeeps ==
    ASSUME MgInv, NEW p \in MgProcs, MgUndoes(p)
    PROVE  MgInv'
<1>1. MgTypes /\ BackupsKnown /\ OneAtWork /\ FileKept(p) /\ OwnBackup(p) /\ mgProc[p].pc = "undo"
  BY DEF MgInv, MgUndoes
<1>2. UNCHANGED <<mgLock, mgBackups, mgService, mgWritten, mgOverlap, mgSetBack>>
  BY DEF MgUndoes
<1>3. PICK s \in {"failed", "unrestored"} :
         /\ MgTo(p, s)
         /\ s = "failed" => mgDb' = IF mgProc[p].backup # 0 THEN BackupOf(mgProc[p].backup).db
                                                           ELSE NoFile
         /\ s = "unrestored" => mgDb' = mgDb
  BY DEF MgUndoes
<1>4. s = "failed" => mgDb' \in MgFiles /\ (~ mgOverlap => mgDb' = mgProc[p].was)
  <2>1. CASE mgProc[p].backup = 0
    <3>1. NoFile \in MgFiles
      BY MgAssumption DEF NoFile, MgFiles
    <3>2. QED
      BY <1>1, <1>3, <2>1, <3>1 DEF FileKept
  <2>2. CASE mgProc[p].backup # 0
    <3>1. PICK b \in mgBackups : b.id = mgProc[p].backup /\ (mgOverlap \/ b.db = mgProc[p].was)
      BY <1>1, <2>2 DEF OwnBackup
    <3>2. BackupOf(mgProc[p].backup) = b
      BY <1>1, <3>1, BackupOfFacts
    <3>3. b.db \in MgFiles
      BY <1>1 DEF BackupsKnown
    <3>4. QED
      BY <1>3, <2>2, <3>1, <3>2, <3>3
  <2>3. QED
    BY <2>1, <2>2
<1>5. s \in MgSteps
  BY <1>3 DEF MgSteps
<1>6. /\ mgProc'[p].pc = s /\ mgProc'[p].was = mgProc[p].was
      /\ mgProc'[p].knows = mgProc[p].knows /\ mgProc'[p].backup = mgProc[p].backup
      /\ mgProc' \in [MgProcs -> [pc : MgSteps, knows : 0..MgReleases, was : MgFiles, backup : Nat]]
      /\ \A q \in MgProcs \ {p} : mgProc'[q] = mgProc[q]
  BY <1>1, <1>3, <1>5, MovesOn
<1>7. MgTypes' /\ BackupsKnown'
  <2>1. mgDb' \in MgFiles
    BY <1>1, <1>3, <1>4 DEF MgTypes
  <2>2. QED
    BY <1>1, <1>2, <1>6, <2>1 DEF MgTypes, BackupsKnown
<1>8. OneAtWork'
  BY <1>1, <1>2, <1>3, <1>6, AtWorkKeeps
<1>9. OwnBackup(p)'
  BY <1>1, <1>2, <1>3, <1>6 DEF OwnBackup
<1>10. FileKept(p)'
  <2>1. CASE s = "failed"
    BY <1>2, <1>4, <1>6, <2>1 DEF FileKept, AsFound
  <2>2. CASE s = "unrestored"
    BY <1>1, <1>2, <1>3, <1>6, <2>2 DEF FileKept, AsFound, Migrated
  <2>3. QED
    BY <1>3, <2>1, <2>2
<1>11. \A q \in MgProcs \ {p} : (FileKept(q) /\ OwnBackup(q))'
  BY <1>1, <1>2, <1>6, OtherKeeps
<1>12. CommittedRowsSurvive'
  <2>1. SUFFICES ASSUME ~ mgOverlap PROVE mgWritten' \subseteq mgDb'.rows
    BY <1>2 DEF CommittedRowsSurvive
  <2>2. mgWritten \subseteq mgDb.rows
    BY <2>1 DEF MgInv, CommittedRowsSurvive
  <2>3. mgDb = mgProc[p].was
        \/ mgDb = [mgProc[p].was EXCEPT !.exists = TRUE, !.version = mgProc[p].knows]
    BY <1>1, <2>1 DEF FileKept, AsFound, Migrated
  <2>4. mgProc[p].was \in [exists : BOOLEAN, version : 0..MgReleases, rows : SUBSET MgRows]
    BY <1>1 DEF MgTypes, MgFiles
  <2>5. mgDb.rows = mgProc[p].was.rows
    BY <2>3, <2>4
  <2>6. mgDb'.rows = mgDb.rows
    BY <1>3, <1>4, <2>1, <2>5
  <2>7. QED
    BY <1>2, <2>2, <2>6
<1>13. QED
  BY <1>7, <1>8, <1>9, <1>10, <1>11, <1>12 DEF MgInv

(* With room for one backup at least, the newest of a directory stays. *)
LEMMA NewestIsKept ==
    ASSUME MgRetain > 0, ~ mgSetBack, NEW p \in MgProcs, BackupsKnown, NEW kept, Stays(p, kept),
           NEW b \in mgBackups, b.dir = p, \A c \in mgBackups : c.dir = p => c.id <= b.id
    PROVE  b \in kept
<1> DEFINE own == {x \in mgBackups : x.dir = p}
<1> DEFINE newer(x) == {c \in own : c.id > x.id}
<1>1. kept = {x \in own : Cardinality(newer(x)) < MgRetain}
  BY DEF Stays
<1>2. newer(b) = {}
  <2>1. \A c \in own : c.id \in Nat /\ b.id \in Nat /\ c.id <= b.id
    BY DEF BackupsKnown
  <2>2. QED
    BY <2>1
<1>3. Cardinality(newer(b)) = 0
  BY <1>2, FS_EmptySet
<1>4. b \in own
  OBVIOUS
<1> HIDE DEF own, newer
<1>5. Cardinality(newer(b)) < MgRetain
  BY <1>3, MgAssumption
<1>6. QED
  BY <1>1, <1>4, <1>5

LEMMA PrunesKeeps ==
    ASSUME MgRetain > 0, MgInv, NEW p \in MgProcs, Prunes(p)
    PROVE  MgInv'
<1> DEFINE others == {b \in mgBackups : b.dir # p}
<1>1. MgTypes /\ BackupsKnown /\ OneAtWork /\ FileKept(p) /\ OwnBackup(p) /\ mgProc[p].pc = "prune"
  BY DEF MgInv, Prunes
<1>2. UNCHANGED <<mgDb, mgLock, mgService, mgWritten, mgOverlap, mgSetBack>>
  BY DEF Prunes
<1>3. PICK s \in {"ok", "unpruned"}, stays \in SUBSET mgBackups :
         /\ MgTo(p, s) /\ mgBackups' = others \cup stays
         /\ mgProc[p].backup # 0 => \E kept \in SUBSET stays : Stays(p, kept)
  <2>1. CASE mgProc[p].backup = 0 /\ MgTo(p, "ok") /\ UNCHANGED mgBackups
    <3>1. mgBackups' = others \cup mgBackups
      BY <2>1
    <3>2. QED
      BY <2>1, <3>1
  <2>2. CASE mgProc[p].backup # 0
    <3>1. PICK kept \in SUBSET (mgBackups \ others) :
             /\ Stays(p, kept)
             /\ \/ MgTo(p, "ok") /\ mgBackups' = others \cup kept
                \/ /\ MgTo(p, "unpruned")
                   /\ \E left \in SUBSET (mgBackups \ others) :
                         mgBackups' = others \cup kept \cup left
      BY <2>2 DEF Prunes
    <3>2. CASE MgTo(p, "ok") /\ mgBackups' = others \cup kept
      BY <3>1, <3>2
    <3>3. ASSUME MgTo(p, "unpruned"), NEW left \in SUBSET (mgBackups \ others),
                 mgBackups' = others \cup kept \cup left
          PROVE  /\ MgTo(p, "unpruned") /\ mgBackups' = others \cup (kept \cup left)
                 /\ kept \cup left \in SUBSET mgBackups
                 /\ kept \in SUBSET (kept \cup left)
      BY <3>3
    <3>4. QED
      BY <3>1, <3>2, <3>3
  <2>3. QED
    BY <2>1, <2>2 DEF Prunes
<1>4. mgBackups' \subseteq mgBackups /\ \A b \in mgBackups : b.dir # p => b \in mgBackups'
  BY <1>3
<1>5. s \in MgSteps
  BY <1>3 DEF MgSteps
<1>6. /\ mgProc'[p].pc = s /\ mgProc'[p].was = mgProc[p].was
      /\ mgProc'[p].knows = mgProc[p].knows /\ mgProc'[p].backup = mgProc[p].backup
      /\ mgProc' \in [MgProcs -> [pc : MgSteps, knows : 0..MgReleases, was : MgFiles, backup : Nat]]
      /\ \A q \in MgProcs \ {p} : mgProc'[q] = mgProc[q]
  BY <1>1, <1>3, <1>5, MovesOn
<1>7. MgTypes' /\ BackupsKnown'
  <2>1. MgTypes'
    BY <1>1, <1>2, <1>6 DEF MgTypes
  <2>2. QED
    BY <1>1, <1>4, <2>1, FewerBackupsKeep
<1>8. OneAtWork'
  BY <1>1, <1>2, <1>3, <1>6, AtWorkKeeps
<1>9. FileKept(p)'
  BY <1>1, <1>2, <1>3, <1>6 DEF FileKept, AsFound, Migrated
<1>10. OwnBackup(p)'
  <2>1. SUFFICES ASSUME mgProc[p].backup # 0, ~ mgSetBack
                 PROVE  /\ \E b \in mgBackups' : /\ b.id = mgProc[p].backup /\ b.dir = p
                                                 /\ mgOverlap \/ b.db = mgProc[p].was
                        /\ \A c \in mgBackups' : c.dir = p => c.id <= mgProc[p].backup
    BY <1>2, <1>3, <1>6 DEF OwnBackup
  <2>2. \A c \in mgBackups : c.dir = p => c.id <= mgProc[p].backup
    BY <1>1, <2>1 DEF OwnBackup
  <2>3. PICK b \in mgBackups : b.id = mgProc[p].backup /\ b.dir = p /\ (mgOverlap \/ b.db = mgProc[p].was)
    BY <1>1, <2>1 DEF OwnBackup
  <2>4. PICK kept \in SUBSET stays : Stays(p, kept)
    BY <1>3, <2>1
  <2>5. b \in kept
    BY <1>1, <2>1, <2>2, <2>3, <2>4, NewestIsKept
  <2>6. QED
    BY <1>3, <1>4, <2>2, <2>3, <2>4, <2>5
<1>11. \A q \in MgProcs \ {p} : (FileKept(q) /\ OwnBackup(q))'
  <2>1. ASSUME NEW q \in MgProcs \ {p} PROVE \A b \in mgBackups : b.dir = q => b \in mgBackups'
    BY <1>4
  <2>2. QED
    BY <1>1, <1>2, <1>4, <1>6, <2>1, OtherKeeps
<1>12. QED
  BY <1>2, <1>7, <1>8, <1>9, <1>10, <1>11 DEF MgInv, CommittedRowsSurvive

-----------------------------------------------------------------------------
(* The steps before and after: starts, restores, ends and kills *)

(* A process that ends, or that is killed, leaves nothing to keep. *)
LEMMA EndsKeeps ==
    ASSUME MgInv, NEW p \in MgProcs, MgEnds(p) \/ MgKilled(p)
    PROVE  MgInv'
<1>1. MgTypes /\ BackupsKnown /\ OneAtWork
  BY DEF MgInv
<1>2. UNCHANGED <<mgDb, mgBackups, mgWritten, mgOverlap, mgSetBack>> /\ mgLock' \in {"nobody", mgLock}
  BY DEF MgEnds, MgKilled
<1>3. PICK k \in 0..MgReleases : mgProc' = [mgProc EXCEPT ![p] = [MgIdle EXCEPT !.knows = k]]
  <2>1. CASE MgEnds(p)
    <3>1. mgProc[p].knows \in 0..MgReleases
      BY <1>1 DEF MgTypes
    <3>2. QED
      BY <2>1, <3>1 DEF MgEnds
  <2>2. CASE MgKilled(p)
    <3>1. MgIdle = [MgIdle EXCEPT !.knows = MgReleases] /\ MgReleases \in 0..MgReleases
      BY MgAssumption DEF MgIdle
    <3>2. QED
      BY <2>2, <3>1 DEF MgKilled
  <2>3. QED
    BY <2>1, <2>2
<1> DEFINE x == [MgIdle EXCEPT !.knows = k]
<1>4. x.pc = "idle" /\ x.backup = 0 /\ x \in [pc : MgSteps, knows : 0..MgReleases, was : MgFiles, backup : Nat]
  BY IdleTyped
<1> HIDE DEF x
<1>5. mgProc'[p] = x /\ \A q \in MgProcs \ {p} : mgProc'[q] = mgProc[q]
  BY <1>1, <1>3 DEF MgTypes, x
<1>6. p = "service" => mgService' \in {"running", "stopped"}
  BY DEF MgEnds, MgKilled
<1>7. p = "admin" => mgService' = mgService
  BY DEF MgEnds, MgKilled
<1>8. p = "service" /\ mgService' = "running" => mgService = "starting"
  BY <1>1 DEF MgEnds, MgKilled, OneAtWork
<1>9. MgTypes' /\ BackupsKnown'
  <2>1. mgProc' \in [MgProcs -> [pc : MgSteps, knows : 0..MgReleases, was : MgFiles, backup : Nat]]
    BY <1>1, <1>3, <1>4 DEF MgTypes, x
  <2>2. mgService' \in {"stopped", "starting", "running"}
    BY <1>1, <1>6, <1>7 DEF MgTypes, MgProcs
  <2>3. QED
    BY <1>1, <1>2, <2>1, <2>2 DEF MgTypes, BackupsKnown
<1>10. OneAtWork'
  <2>1. CASE p = "service"
    <3>1. mgProc'["admin"] = mgProc["admin"]
      BY <1>5, <2>1 DEF MgProcs
    <3>2. QED
      BY <1>1, <1>2, <1>4, <1>5, <1>6, <1>8, <2>1, <3>1 DEF OneAtWork
  <2>2. CASE p = "admin"
    <3>1. mgProc'["service"] = mgProc["service"]
      BY <1>5, <2>2 DEF MgProcs
    <3>2. QED
      BY <1>1, <1>2, <1>4, <1>5, <1>7, <2>2, <3>1 DEF OneAtWork
  <2>3. QED
    BY <2>1, <2>2 DEF MgProcs
<1>11. (FileKept(p) /\ OwnBackup(p))'
  BY <1>4, <1>5, IdleKeeps
<1>12. \A q \in MgProcs \ {p} : (FileKept(q) /\ OwnBackup(q))'
  BY <1>1, <1>2, <1>5, OtherKeeps
<1>13. QED
  BY <1>2, <1>9, <1>10, <1>11, <1>12 DEF MgInv, CommittedRowsSurvive

LEMMA ServiceStartsKeeps ==
    ASSUME MgInv, NEW release \in 1..MgReleases, ServiceStarts(release)
    PROVE  MgInv'
<1>1. MgTypes /\ BackupsKnown /\ OneAtWork
  BY DEF MgInv
<1>2. UNCHANGED <<mgDb, mgLock, mgBackups, mgWritten, mgSetBack>>
  BY DEF ServiceStarts
<1> DEFINE x == [MgIdle EXCEPT !.pc = "lock", !.knows = release]
<1>3. mgProc' = [mgProc EXCEPT !["service"] = x] /\ mgService' = "starting"
  BY DEF ServiceStarts
<1>4. x.pc = "lock" /\ x.backup = 0 /\ x \in [pc : MgSteps, knows : 0..MgReleases, was : MgFiles, backup : Nat]
  <2>1. "lock" \in MgSteps /\ release \in 0..MgReleases
    BY MgAssumption DEF MgSteps
  <2>2. QED
    BY <2>1, IdleTyped
<1> HIDE DEF x
<1>5. mgProc'["service"] = x /\ mgProc'["admin"] = mgProc["admin"]
  BY <1>1, <1>3 DEF MgTypes, MgProcs
<1> DEFINE busy == mgProc["admin"].pc # "idle"
<1>6. mgOverlap' = (mgOverlap \/ busy)
  BY DEF ServiceStarts
<1>7. busy \in BOOLEAN
  OBVIOUS
<1>8. ~ mgOverlap' => ~ mgOverlap /\ mgProc["admin"].pc = "idle"
  BY <1>6
<1>9. mgOverlap' \in BOOLEAN /\ (mgOverlap => mgOverlap')
  <2> HIDE DEF busy
  <2>1. QED
    BY <1>1, <1>6, <1>7 DEF MgTypes
<1>10. MgTypes' /\ BackupsKnown'
  <2>1. mgProc' \in [MgProcs -> [pc : MgSteps, knows : 0..MgReleases, was : MgFiles, backup : Nat]]
    BY <1>1, <1>3, <1>4 DEF MgTypes
  <2>2. QED
    BY <1>1, <1>2, <1>3, <1>9, <2>1 DEF MgTypes, BackupsKnown
<1>11. OneAtWork'
  BY <1>3, <1>4, <1>5, <1>8 DEF OneAtWork
<1>12. (FileKept("service") /\ OwnBackup("service"))'
  BY <1>4, <1>5 DEF FileKept, AsFound, Migrated, OwnBackup
<1>13. (FileKept("admin") /\ OwnBackup("admin"))'
  <2>1. FileKept("admin") /\ OwnBackup("admin")
    BY DEF MgInv, MgProcs
  <2>2. FileKept("admin")'
    BY <1>5, <1>8 DEF FileKept, AsFound, Migrated
  <2>3. OwnBackup("admin")'
    BY <1>2, <1>5, <1>9, <2>1 DEF OwnBackup
  <2>4. QED
    BY <2>2, <2>3
<1>14. QED
  BY <1>2, <1>9, <1>10, <1>11, <1>12, <1>13 DEF MgInv, MgProcs, CommittedRowsSurvive

(* The administrator comes while the service is stopped: nobody is at work. *)
LEMMA AdminComesKeeps ==
    ASSUME MgInv, AdminMigrates \/ AdminRestores
    PROVE  MgInv'
<1>1. MgTypes /\ BackupsKnown /\ OneAtWork /\ OwnBackup("admin") /\ mgProc["admin"].pc = "idle"
      /\ mgProc["admin"].backup = 0 /\ mgService = "stopped"
  BY DEF MgInv, AdminMigrates, AdminRestores, MgProcs, OwnBackup
<1>2. UNCHANGED <<mgDb, mgLock, mgService, mgWritten, mgOverlap, mgSetBack>>
  BY DEF AdminMigrates, AdminRestores
<1>3. /\ BackupsKnown'
      /\ \A b \in mgBackups : b \in mgBackups'
      /\ \A b \in mgBackups' : b.dir # "safety" => b \in mgBackups
  <2>1. CASE AdminMigrates
    BY <1>1, <2>1 DEF AdminMigrates, BackupsKnown
  <2>2. CASE AdminRestores
    <3> DEFINE new == [id |-> NextBackup, db |-> mgDb, dir |-> "safety"]
    <3>1. BackupsKnown'
      BY <1>1, <2>2, SavesKeep DEF AdminRestores, MgTypes, MgDirs
    <3>2. mgBackups' = mgBackups \cup {new}
      BY <2>2 DEF AdminRestores, Saves
    <3>3. new.dir = "safety"
      OBVIOUS
    <3> HIDE DEF new
    <3>4. QED
      BY <3>1, <3>2, <3>3
  <2>3. QED
    BY <2>1, <2>2
<1>4. PICK s \in {"lock", "restore"}, f \in MgFiles : mgProc' = [mgProc EXCEPT !["admin"].pc = s, !["admin"].was = f]
  <2>1. CASE AdminMigrates
    <3>1. mgProc["admin"].was \in MgFiles /\ mgProc["admin"] \in [pc : MgSteps, knows : 0..MgReleases, was : MgFiles, backup : Nat]
      BY <1>1 DEF MgTypes, MgProcs
    <3>2. mgProc' = [mgProc EXCEPT !["admin"].pc = "lock"]
      BY <2>1 DEF AdminMigrates, MgTo
    <3>3. mgProc' = [mgProc EXCEPT !["admin"].pc = "lock", !["admin"].was = mgProc["admin"].was]
      BY <1>1, <3>1, <3>2 DEF MgTypes
    <3>4. QED
      BY <3>1, <3>3
  <2>2. CASE AdminRestores
    <3>1. PICK b \in mgBackups : mgProc' = [mgProc EXCEPT !["admin"] = [@ EXCEPT !.pc = "restore", !.was = b.db]]
      BY <2>2 DEF AdminRestores
    <3>2. b.db \in MgFiles
      BY <1>1 DEF BackupsKnown
    <3>3. mgProc' = [mgProc EXCEPT !["admin"].pc = "restore", !["admin"].was = b.db]
      BY <3>1
    <3>4. QED
      BY <3>2, <3>3
  <2>3. QED
    BY <2>1, <2>2
<1>5. /\ mgProc'["admin"].pc = s /\ mgProc'["admin"].backup = 0
      /\ mgProc'["service"] = mgProc["service"]
  BY <1>1, <1>4 DEF MgTypes, MgProcs
<1>6. MgTypes'
  <2>1. mgProc' \in [MgProcs -> [pc : MgSteps, knows : 0..MgReleases, was : MgFiles, backup : Nat]]
    <3>1. s \in MgSteps
      BY <1>4 DEF MgSteps
    <3>2. QED
      BY <1>1, <1>4, <3>1 DEF MgTypes
  <2>2. QED
    BY <1>1, <1>2, <2>1 DEF MgTypes
<1>7. OneAtWork'
  BY <1>1, <1>2, <1>5 DEF OneAtWork
<1>8. (FileKept("admin") /\ OwnBackup("admin"))'
  BY <1>4, <1>5 DEF FileKept, AsFound, Migrated, OwnBackup
<1>9. (FileKept("service") /\ OwnBackup("service"))'
  <2>1. "admin" \in MgProcs /\ "service" \in MgProcs \ {"admin"} /\ "service" # "safety"
    BY DEF MgProcs
  <2>2. QED
    BY <1>2, <1>3, <1>5, <2>1, OtherKeeps
<1>10. QED
  BY <1>2, <1>3, <1>6, <1>7, <1>8, <1>9 DEF MgInv, MgProcs, CommittedRowsSurvive

LEMMA RestoreReplacesKeeps ==
    ASSUME MgInv, RestoreReplaces
    PROVE  MgInv'
<1>1. MgTypes /\ BackupsKnown /\ OneAtWork /\ mgProc["admin"].pc = "restore"
  BY DEF MgInv, RestoreReplaces
<1>2. UNCHANGED <<mgLock, mgBackups, mgService, mgOverlap, mgSetBack>>
  BY DEF RestoreReplaces
<1>3. mgDb' \in MgFiles /\ mgWritten' = mgDb'.rows /\ mgWritten' \subseteq MgRows
  <2>1. mgProc["admin"].was \in MgFiles
    BY <1>1 DEF MgTypes, MgProcs
  <2>2. QED
    BY <2>1 DEF RestoreReplaces, MgFiles
<1>4. mgProc' = [mgProc EXCEPT !["admin"] = MgIdle]
  BY DEF RestoreReplaces
<1>5. MgIdle.pc = "idle" /\ MgIdle.backup = 0
      /\ MgIdle \in [pc : MgSteps, knows : 0..MgReleases, was : MgFiles, backup : Nat]
  BY IdleTyped
<1>6. mgProc'["admin"] = MgIdle /\ mgProc'["service"] = mgProc["service"]
  BY <1>1, <1>4 DEF MgTypes, MgProcs
<1>7. MgTypes' /\ BackupsKnown'
  BY <1>1, <1>2, <1>3, <1>4, <1>5 DEF MgTypes, BackupsKnown
<1>8. OneAtWork'
  BY <1>1, <1>2, <1>5, <1>6 DEF OneAtWork
<1>9. (FileKept("admin") /\ OwnBackup("admin"))'
  BY <1>5, <1>6, IdleKeeps DEF MgProcs
<1>10. (FileKept("service") /\ OwnBackup("service"))'
  <2>1. "admin" \in MgProcs /\ "service" \in MgProcs \ {"admin"}
    BY DEF MgProcs
  <2>2. QED
    BY <1>1, <1>2, <1>6, <2>1, OtherKeeps
<1>11. CommittedRowsSurvive'
  BY <1>3 DEF CommittedRowsSurvive
<1>12. QED
  BY <1>7, <1>8, <1>9, <1>10, <1>11 DEF MgInv, MgProcs

(* A plugin that runs writes where nobody migrates. *)
LEMMA PluginWritesKeeps ==
    ASSUME MgInv, NEW r \in MgRows, PluginWrites(r)
    PROVE  MgInv'
<1>1. MgTypes /\ BackupsKnown /\ OneAtWork /\ mgService = "running"
  BY DEF MgInv, PluginWrites
<1>2. UNCHANGED <<mgLock, mgBackups, mgProc, mgService, mgOverlap, mgSetBack>>
  BY DEF PluginWrites
<1>3. /\ mgDb' \in MgFiles /\ mgDb'.rows = mgDb.rows \cup {r}
      /\ mgWritten' = mgWritten \cup {r}
  BY <1>1 DEF PluginWrites, MgTypes, MgFiles
<1>4. MgTypes' /\ BackupsKnown' /\ OneAtWork'
  BY <1>1, <1>2, <1>3 DEF MgTypes, BackupsKnown, OneAtWork
<1>5. ~ mgOverlap => \A p \in MgProcs : mgProc[p].pc = "idle"
  BY <1>1 DEF OneAtWork, MgProcs
<1>6. ASSUME NEW p \in MgProcs PROVE (FileKept(p) /\ OwnBackup(p))'
  <2>1. FileKept(p)'
    BY <1>2, <1>5 DEF FileKept, AsFound, Migrated
  <2>2. OwnBackup(p)'
    BY <1>2 DEF MgInv, OwnBackup
  <2>3. QED
    BY <2>1, <2>2
<1>7. CommittedRowsSurvive'
  BY <1>2, <1>3 DEF MgInv, CommittedRowsSurvive
<1>8. QED
  BY <1>4, <1>6, <1>7 DEF MgInv

(* With the clock set back nothing is promised that was not. *)
LEMMA ClockSetBackKeeps ==
    ASSUME MgInv, ClockSetBack
    PROVE  MgInv'
<1>1. MgTypes /\ BackupsKnown /\ OneAtWork /\ mgSetBack' = TRUE
  BY DEF MgInv, ClockSetBack
<1>2. UNCHANGED <<mgDb, mgLock, mgBackups, mgProc, mgService, mgWritten, mgOverlap>>
  BY DEF ClockSetBack
<1>3. MgTypes' /\ BackupsKnown' /\ OneAtWork'
  BY <1>1, <1>2 DEF MgTypes, BackupsKnown, OneAtWork
<1>4. ASSUME NEW p \in MgProcs PROVE (FileKept(p) /\ OwnBackup(p))'
  <2>1. FileKept(p) /\ OwnBackup(p)
    BY DEF MgInv
  <2>2. FileKept(p)'
    BY <1>2, <2>1 DEF FileKept, AsFound, Migrated
  <2>3. OwnBackup(p)'
    BY <1>1, <1>2, <2>1 DEF OwnBackup
  <2>4. QED
    BY <2>2, <2>3
<1>5. QED
  BY <1>2, <1>3, <1>4 DEF MgInv, CommittedRowsSurvive

-----------------------------------------------------------------------------
LEMMA MgInvStutter ==
    ASSUME MgInv, UNCHANGED mgVars
    PROVE  MgInv'
<1>1. MgTypes' /\ BackupsKnown' /\ OneAtWork'
  BY DEF MgInv, mgVars, MgTypes, BackupsKnown, OneAtWork
<1>2. \A p \in MgProcs : (FileKept(p) /\ OwnBackup(p))'
  BY DEF MgInv, mgVars, FileKept, AsFound, Migrated, OwnBackup
<1>3. QED
  BY <1>1, <1>2 DEF MgInv, mgVars, CommittedRowsSurvive

LEMMA MgInvKept ==
    ASSUME MgRetain > 0, MgInv, [MgNext]_mgVars
    PROVE  MgInv'
<1>1. ASSUME NEW p \in MgProcs, MgStep(p) PROVE MgInv'
  BY <1>1, TargetLockKeeps, MgDryRunKeeps, MgBacksUpKeeps, AppliesKeeps, MgValidatesKeeps,
     MgUndoesKeeps, PrunesKeeps, EndsKeeps DEF MgStep
<1>2. ASSUME NEW p \in MgProcs, MgKilled(p) PROVE MgInv'
  BY <1>2, EndsKeeps
<1>3. CASE MgNext
  BY <1>1, <1>2, <1>3, ServiceStartsKeeps, AdminComesKeeps, RestoreReplacesKeeps, PluginWritesKeeps,
     ClockSetBackKeeps
  DEF MgNext
<1>4. QED
  BY <1>3, MgInvStutter

LEMMA MgInvImplies ==
    ASSUME MgInv
    PROVE  MigrationsUndone
<1>1. MgTypeOK
  BY DEF MgInv, MgTypes, BackupsKnown, MgFiles, MgDirs, MgTypeOK
<1>2. FailureKeepsFile
  BY DEF MgInv, FileKept, FailureKeepsFile
<1>3. BackupOfMigration
  <2>1. SUFFICES ASSUME NEW p \in MgProcs, mgProc[p].backup # 0,
                        \/ mgProc[p].pc \in {"apply", "validate", "undo", "unrestored", "prune"}
                        \/ mgProc[p].pc \in {"ok", "unpruned"} /\ ~ mgSetBack
                 PROVE  \E b \in mgBackups : b.id = mgProc[p].backup /\ (mgOverlap \/ b.db = mgProc[p].was)
    BY DEF BackupOfMigration
  <2>2. OwnBackup(p)
    BY DEF MgInv
  <2>3. QED
    BY <2>1, <2>2 DEF OwnBackup
<1>4. QED
  BY <1>1, <1>2, <1>3 DEF MgInv, MigrationsUndone

(* The invariant the others rest on.  A directory that keeps no backup at all
   would lose the one its migration just made; every caller of migrate_target
   keeps some.                                                               *)
THEOREM MigrationInvariant ==
    ASSUME MgRetain > 0
    PROVE  MgSpec => []MgInv
<1>1. MgInit => MgInv
  BY MgInitInv
<1>2. MgInv /\ [MgNext]_mgVars => MgInv'
  BY MgInvKept
<1>3. QED
  BY <1>1, <1>2, PTL DEF MgSpec

(* migrate_target of migrations.py: a migration that reports a failure has left
   the file as it found it, or, where the undoing or the pruning failed, with the
   whole migration or nothing of it; no committed row is lost to a failure or a
   kill; and the backup a migration made is there until it is known to have been
   applied or undone, and afterwards unless the clock was set back.          *)
THEOREM MigrationsAreUndone ==
    ASSUME MgRetain > 0
    PROVE  MgSpec => []MigrationsUndone
<1>1. MgInv => MigrationsUndone
  BY MgInvImplies
<1>2. QED
  BY <1>1, MigrationInvariant, PTL

-----------------------------------------------------------------------------
(* The identity file.  What nobody has given up is in the identity file, or in
   the copy of one restore, of every directory a power loss may leave.     *)

NiFiled(k) == \A d \in niDurable : d.file = k
NiCopied(r, k) == \A d \in niDurable : d.safety[r] = k
NiAllKept == \A k \in niOwed : NiFiled(k) \/ \E r \in NiRestoring : NiCopied(r, k)

(* Only x may be without a copy. *)
NiSpared(x) == \A k \in niOwed : k = x \/ \E r \in NiRestoring : NiCopied(r, k)

(* Where a load knows that nothing it takes away is anyone's *)
NiLoading(q) ==
    /\ q.pc \in {"lock", "read"} => q.bytes = Absent
    /\ q.pc \in {"judge", "recheck", "preserve", "preserve sync", "create"} => NiSpared(q.bytes)
    /\ q.pc \in {"preserve", "preserve sync", "create"} => ~ IsIdentity(q.bytes)
    /\ q.pc \in {"read back", "confirm"} => niDurable = {niDir}
    /\ q.pc \in {"return", "confirm"} => IsIdentity(q.bytes)

(* Where the bytes that were taken for no identity are *)
NiPreserving(q) ==
    niEdits = 0 =>
        /\ q.pc \in {"judge", "recheck", "preserve"} => niDir.file = q.bytes
        /\ q.pc = "preserve sync" => q.bytes \in niDir.corrupt
        /\ q.pc = "create" /\ q.bytes # Absent => \A d \in niDurable : q.bytes \in d.corrupt

NiCopySteps == {"swap", "swap sync", "verify", "drop", "roll back", "roll back sync",
                "roll back drop"}

(* Where a restore has its copy, and what it has rolled back *)
NiRestoresWell(q) ==
    /\ q.pc \in NiCopySteps \cup {"candidate", "original", "safety", "safety sync"} =>
           q.number \in 1..niRestores
    /\ q.pc \in {"candidate", "original", "safety"} => NiCopied(q.number, Absent)
    /\ q.pc \in NiCopySteps \cup {"safety", "safety sync"} => NiSpared(q.original)
    /\ q.pc = "safety sync" => niDir.safety[q.number] = q.original
    /\ q.pc \in NiCopySteps => NiCopied(q.number, q.original)
    /\ q.pc \in {"roll back sync", "roll back drop"} /\ q.original \in niOwed =>
           niDir.file = q.original
    /\ q.pc = "roll back drop" => niDurable = {niDir}

NiWhere(q) == NiLoading(q) /\ NiPreserving(q) /\ NiRestoresWell(q)

NiInv ==
    /\ NiTypeOK /\ NiAllKept
    /\ \A r \in NiRestoring : r > niRestores => NiCopied(r, Absent)
    /\ \A p \in NiProcs : NiWhere(niProc[p])

(* An identity that is kept is in one of the two places in every directory, and
   without restores that is the file.                                      *)
LEMMA NiInvImplies ==
    ASSUME NiInv PROVE NiTypeOK /\ IdentityIsKept /\ OneIdentity /\ CorruptIsPreserved
<1>1. NiTypeOK
  BY DEF NiInv
<1>2. IdentityIsKept
  BY DEF NiInv, NiAllKept, NiFiled, NiCopied, IdentityIsKept
<1>3. OneIdentity
  <2>1. SUFFICES ASSUME niRestores = 0, NEW k \in niOwed PROVE k = niDir.file
    BY DEF OneIdentity
  <2>2. niDir \in niDurable /\ k \in 1..NiKeys
    BY DEF NiInv, NiTypeOK
  <2>3. ~ \E r \in NiRestoring : NiCopied(r, k)
    BY <2>1, <2>2 DEF NiInv, NiCopied, NiRestoring, Absent
  <2>4. QED
    BY <2>2, <2>3 DEF NiInv, NiAllKept, NiFiled
<1>4. CorruptIsPreserved
  BY DEF NiInv, NiWhere, NiPreserving, CorruptIsPreserved, NiAt
<1>5. QED
  BY <1>1, <1>2, <1>3, <1>4

(* Nothing is owed at the start, and no process has begun. *)
LEMMA NiInitInv == NiInit => NiInv
<1>1. SUFFICES ASSUME NiInit PROVE NiInv
  OBVIOUS
<1>2. Absent \in NiContent /\ Corrupt \in NiContent /\ 1 \in NiContent
  BY IdentityStoreAssumption DEF Absent, Corrupt, NiContent
<1>3. niDir \in NiDirs
  BY <1>1, <1>2 DEF NiInit, NiDirs
<1>4. \A p \in NiProcs : niProc[p] = NiDone /\ niProc[p].pc = "idle"
  BY <1>1 DEF NiInit, NiDone
<1>5. NiTypeOK
  BY <1>1, <1>2, <1>3, <1>4, IdentityStoreAssumption DEF NiInit, NiTypeOK, NiDone, NiSteps
<1>6. NiAllKept
  BY <1>1 DEF NiInit, NiAllKept
<1>7. \A r \in NiRestoring : NiCopied(r, Absent)
  BY <1>1 DEF NiInit, NiCopied
<1>8. \A p \in NiProcs : NiWhere(niProc[p])
  BY <1>4 DEF NiWhere, NiLoading, NiPreserving, NiRestoresWell, NiCopySteps
<1>9. QED
  BY <1>5, <1>6, <1>7, <1>8 DEF NiInv

-----------------------------------------------------------------------------
(* What the changes of the directory keep *)

(* A new identity file leaves every copy where it is. *)
LEMMA NiPutsKeeps ==
    ASSUME NiTypeOK, NEW c \in NiContent, NiPuts(c)
    PROVE  /\ niDir' \in niDurable' /\ niDurable' \subseteq NiDirs
           /\ niDir'.file = c /\ niDir'.safety = niDir.safety /\ niDir'.corrupt = niDir.corrupt
           /\ \A d \in niDurable' : \E e \in niDurable : d.safety = e.safety /\ d.corrupt = e.corrupt
<1> DEFINE Put(d) == [d EXCEPT !.file = c]
<1>1. niDir \in niDurable /\ niDurable \subseteq NiDirs
  BY DEF NiTypeOK
<1>2. niDir' = Put(niDir) /\ niDurable' = niDurable \cup {Put(d) : d \in niDurable}
  BY DEF NiPuts, NiChangesDir
<1>3. \A d \in NiDirs : /\ Put(d) \in NiDirs /\ Put(d).file = c
                        /\ Put(d).safety = d.safety /\ Put(d).corrupt = d.corrupt
  BY DEF NiDirs
<1> HIDE DEF Put
<1>4. QED
  BY <1>1, <1>2, <1>3

(* A new copy leaves the file and the other copies. *)
LEMMA NiPutsCopyKeeps ==
    ASSUME NiTypeOK, NEW p \in NiProcs, NEW c \in NiContent, niProc[p].number \in NiRestoring,
           NiPutsCopy(p, c)
    PROVE  /\ niDir' \in niDurable' /\ niDurable' \subseteq NiDirs
           /\ niDir'.file = niDir.file /\ niDir'.corrupt = niDir.corrupt
           /\ niDir'.safety[niProc[p].number] = c
           /\ \A d \in niDurable' : \E e \in niDurable :
                  /\ d.file = e.file /\ d.corrupt = e.corrupt
                  /\ \A r \in NiRestoring : r # niProc[p].number => d.safety[r] = e.safety[r]
                  /\ d.safety[niProc[p].number] \in {c, e.safety[niProc[p].number]}
<1> DEFINE Put(d) == [d EXCEPT !.safety[niProc[p].number] = c]
<1>1. niDir \in niDurable /\ niDurable \subseteq NiDirs
  BY DEF NiTypeOK
<1>2. niDir' = Put(niDir) /\ niDurable' = niDurable \cup {Put(d) : d \in niDurable}
  BY DEF NiPutsCopy, NiChangesDir
<1>3. \A d \in NiDirs : /\ Put(d) \in NiDirs /\ Put(d).file = d.file /\ Put(d).corrupt = d.corrupt
                        /\ Put(d).safety[niProc[p].number] = c
                        /\ \A r \in NiRestoring : r # niProc[p].number =>
                               Put(d).safety[r] = d.safety[r]
  BY DEF NiDirs
<1> HIDE DEF Put
<1>4. QED
  BY <1>1, <1>2, <1>3

-----------------------------------------------------------------------------
(* One process at a time *)

NiRecords == [pc : NiSteps, op : {"none", "load", "backup", "restore"}, bytes : NiContent,
              number : 0..NiRestoresMax, candidate : NiContent, original : NiContent]

(* Whoever is past its lock holds it. *)
LEMMA NiHolds ==
    ASSUME NiInv, NEW p \in NiProcs, niProc[p].pc \notin {"idle", "lock"}
    PROVE  /\ niLock = p /\ p # Nobody /\ niProc[p] \in NiRecords
           /\ NiWhere(niProc[p])
           /\ \A q \in NiProcs \ {p} : niProc[q].pc \in {"idle", "lock"}
  BY IdentityStoreAssumption DEF NiInv, NiTypeOK, NiRecords, Nobody

NiCounts == niBackup \in NiContent /\ niMade \in 1..NiKeys /\ niOwed \subseteq 1..NiKeys
            /\ niRestores \in 0..NiRestoresMax /\ niEdits \in 0..NiEditsMax
NiFresh == \A r \in NiRestoring : r > niRestores => NiCopied(r, Absent)

(* What a step of the process with the lock has to keep: the others wait. *)
LEMMA NiStepOf ==
    ASSUME NiInv, NEW p \in NiProcs, niProc[p].pc \notin {"idle", "lock"},
           niProc' \in [NiProcs -> NiRecords],
           \A q \in NiProcs \ {p} : niProc'[q] = niProc[q],
           \/ niLock' = niLock
           \/ niLock' = Nobody /\ niProc'[p].pc = "idle",
           niDir' \in niDurable' /\ niDurable' \subseteq NiDirs, NiCounts',
           NiAllKept', NiFresh', NiWhere(niProc[p])'
    PROVE  NiInv'
<1>1. niLock = p /\ \A q \in NiProcs \ {p} : niProc[q].pc \in {"idle", "lock"}
  BY NiHolds
<1>2. NiTypeOK'
  BY <1>1 DEF NiInv, NiTypeOK, NiRecords, NiCounts
<1>3. ASSUME NEW q \in NiProcs PROVE NiWhere(niProc[q])'
  <2>1. CASE q = p
    BY <2>1
  <2>2. CASE q # p
    <3>1. niProc'[q] = niProc[q] /\ niProc[q].pc \in {"idle", "lock"}
      BY <1>1, <2>2
    <3>2. niProc[q].pc = "lock" => niProc[q].bytes = Absent
      BY <3>1 DEF NiInv, NiWhere, NiLoading
    <3>3. QED
      BY <3>1, <3>2 DEF NiWhere, NiLoading, NiPreserving, NiRestoresWell, NiCopySteps
  <2>3. QED
    BY <2>1, <2>2
<1>4. QED
  BY <1>2, <1>3 DEF NiInv, NiFresh

(* Steps that only read: what was kept is kept. *)
LEMMA NiReadingKeeps ==
    ASSUME NiInv, NiKeepsDir, niOwed' = niOwed, niRestores' = niRestores
    PROVE  NiAllKept' /\ NiFresh' /\ niDir' \in niDurable' /\ niDurable' \subseteq NiDirs
  BY DEF NiInv, NiTypeOK, NiKeepsDir, NiAllKept, NiFresh, NiFiled, NiCopied

(* The end of a call *)
LEMMA NiEndKeeps ==
    ASSUME NiInv, NEW p \in NiProcs, niProc[p].pc \notin {"idle", "lock"},
           niProc' = [niProc EXCEPT ![p] = NiDone], niLock' = Nobody,
           niDir' \in niDurable' /\ niDurable' \subseteq NiDirs, NiCounts',
           NiAllKept', NiFresh'
    PROVE  NiInv'
<1>1. NiDone \in NiRecords
  BY IdentityStoreAssumption DEF NiDone, NiRecords, NiSteps, NiContent, Absent
<1>2. niProc \in [NiProcs -> NiRecords]
  BY DEF NiInv, NiTypeOK, NiRecords
<1>3. niProc'[p] = NiDone /\ niProc'[p].pc = "idle"
  BY <1>2 DEF NiDone
<1>4. NiWhere(niProc[p])'
  BY <1>3 DEF NiWhere, NiLoading, NiPreserving, NiRestoresWell, NiCopySteps
<1>5. QED
  BY <1>1, <1>2, <1>3, <1>4, NiStepOf

(* A call that goes on *)
LEMMA NiGotoType ==
    ASSUME NiInv, NEW p \in NiProcs, NEW label \in NiSteps, NiGoto(p, label)
    PROVE  /\ niProc' \in [NiProcs -> NiRecords]
           /\ \A q \in NiProcs \ {p} : niProc'[q] = niProc[q]
           /\ niProc'[p] = [niProc[p] EXCEPT !.pc = label]
           /\ niProc'[p].pc = label /\ niProc'[p].bytes = niProc[p].bytes
           /\ niProc'[p].number = niProc[p].number
           /\ niProc'[p].original = niProc[p].original
           /\ niProc'[p].candidate = niProc[p].candidate
  BY DEF NiInv, NiTypeOK, NiRecords, NiGoto

(* What a call knows where it goes on without a change *)
LEMMA NiWhereOf ==
    ASSUME NEW q, NEW s, s.bytes = q.bytes, s.number = q.number, s.original = q.original,
           NiWhere(q),
           \/ s.pc = "back up"
           \/ s.pc = "return" /\ IsIdentity(q.bytes)
           \/ /\ q.pc \in {"judge", "recheck"} /\ s.pc \in {"recheck", "preserve"}
              /\ s.pc = "preserve" => ~ IsIdentity(q.bytes)
           \/ q.pc \in {"swap", "swap sync", "verify"} /\ s.pc \in {"drop", "roll back"}
    PROVE  NiWhere(s)
<1>1. NiLoading(s)
  BY DEF NiWhere, NiLoading
<1>2. NiPreserving(s)
  BY DEF NiWhere, NiPreserving
<1>3. NiRestoresWell(s)
  BY DEF NiWhere, NiRestoresWell, NiCopySteps
<1>4. QED
  BY <1>1, <1>2, <1>3 DEF NiWhere

-----------------------------------------------------------------------------
(* The steps that change no directory *)

(* A step that only reads leaves what is kept, and learns only what holds. *)
LEMMA NiReadSteps ==
    ASSUME NiInv, NEW p \in NiProcs,
           \/ NiReads(p) \/ NiJudges(p) \/ NiRechecks(p) \/ NiReadsBack(p) \/ NiVerifies(p)
           \/ NiReadsCandidate(p) \/ NiReadsOriginal(p) \/ NiFails(p)
    PROVE  NiInv'
<1> DEFINE r == niProc[p]
<1> USE DEF NiAt, NiUnchanged
<1>1. r.pc \notin {"idle", "lock"} /\ NiKeepsDir /\ NiUnchanged
  BY DEF NiReads, NiJudges, NiRechecks, NiReadsBack, NiVerifies, NiReadsCandidate,
         NiReadsOriginal, NiFails
<1>2. NiAllKept' /\ NiFresh' /\ niDir' \in niDurable' /\ niDurable' \subseteq NiDirs
  BY <1>1, NiReadingKeeps
<1>3. NiCounts' /\ UNCHANGED <<niDir, niDurable, niOwed, niEdits, niRestores>>
  BY <1>1 DEF NiCounts, NiInv, NiTypeOK, NiKeepsDir
<1>4. NiEnds(p) => NiInv'
  BY <1>1, <1>2, <1>3, NiEndKeeps DEF NiEnds
<1>5. r \in NiRecords /\ NiWhere(r) /\ niDir \in niDurable /\ niDir.file \in NiContent
      /\ niBackup \in NiContent
  BY <1>1, NiHolds DEF NiInv, NiTypeOK, NiDirs
<1>6. ASSUME UNCHANGED niLock, niProc' \in [NiProcs -> NiRecords],
             \A q \in NiProcs \ {p} : niProc'[q] = niProc[q], NiWhere(niProc[p])'
      PROVE  NiInv'
  BY <1>1, <1>2, <1>3, <1>6, NiStepOf
<1>7. ASSUME NEW k \in niOwed, ~ \E c \in NiRestoring : NiCopied(c, k) PROVE k = niDir.file
  BY <1>5, <1>7 DEF NiInv, NiAllKept, NiFiled
<1>8. Absent \notin niOwed /\ Corrupt \notin niOwed
  BY DEF NiInv, NiTypeOK, Absent, Corrupt
<1>9. CASE NiReads(p)
  <2>1. CASE niDir.file # Absent
    <3>1. /\ niProc' = [niProc EXCEPT ![p].pc = "judge", ![p].bytes = niDir.file]
          /\ UNCHANGED niLock
      BY <1>9, <2>1 DEF NiReads
    <3>2. /\ niProc' \in [NiProcs -> NiRecords] /\ \A q \in NiProcs \ {p} : niProc'[q] = niProc[q]
          /\ niProc'[p].pc = "judge" /\ niProc'[p].bytes = niDir.file
      BY <3>1, <1>5 DEF NiInv, NiTypeOK, NiRecords, NiSteps
    <3>3. NiWhere(niProc[p])'
      BY <3>2, <1>3, <1>7 DEF NiWhere, NiLoading, NiPreserving, NiRestoresWell, NiCopySteps,
                              NiSpared, NiCopied
    <3>4. QED
      BY <3>1, <3>2, <3>3, <1>6
  <2>2. CASE niDir.file = Absent /\ r.op = "load"
    <3>1. NiGoto(p, "create") /\ UNCHANGED niLock
      BY <1>9, <2>2 DEF NiReads
    <3>2. /\ niProc' \in [NiProcs -> NiRecords] /\ \A q \in NiProcs \ {p} : niProc'[q] = niProc[q]
          /\ niProc'[p].pc = "create" /\ niProc'[p].bytes = r.bytes
      BY <3>1, NiGotoType DEF NiSteps
    <3>3. r.bytes = Absent
      BY <1>5, <1>9 DEF NiReads, NiWhere, NiLoading
    <3>4. NiWhere(niProc[p])'
      BY <3>2, <3>3, <2>2, <1>3, <1>7 DEF NiWhere, NiLoading, NiPreserving, NiRestoresWell,
                                     NiCopySteps, NiSpared, NiCopied, IsIdentity
    <3>5. QED
      BY <3>1, <3>2, <3>4, <1>6
  <2>3. CASE niDir.file = Absent /\ r.op # "load"
    BY <1>4, <1>9, <2>3 DEF NiReads
  <2>4. QED
    BY <2>1, <2>2, <2>3
<1>10. ASSUME NEW label \in NiSteps, NiGoto(p, label), UNCHANGED niLock,
              \/ label = "back up"
              \/ label = "return" /\ IsIdentity(r.bytes)
              \/ /\ r.pc \in {"judge", "recheck"} /\ label \in {"recheck", "preserve"}
                 /\ label = "preserve" => ~ IsIdentity(r.bytes)
              \/ r.pc \in {"swap", "swap sync", "verify"} /\ label \in {"drop", "roll back"}
       PROVE  NiInv'
  <2> DEFINE s == [r EXCEPT !.pc = label]
  <2>1. /\ niProc' \in [NiProcs -> NiRecords] /\ \A q \in NiProcs \ {p} : niProc'[q] = niProc[q]
        /\ niProc'[p] = s
    BY <1>10, NiGotoType
  <2>2. s.pc = label /\ s.bytes = r.bytes /\ s.number = r.number /\ s.original = r.original
    BY <1>5 DEF NiRecords
  <2>3. NiWhere(niProc[p])'
    <3> HIDE DEF s, r
    <3>1. NiWhere(s)
      BY <2>2, <1>5, <1>10, NiWhereOf
    <3>2. NiLoading(niProc[p])' /\ NiPreserving(niProc[p])'
      BY <3>1, <2>1, <1>3 DEF NiWhere, NiLoading, NiPreserving, NiSpared, NiCopied
    <3>3. NiRestoresWell(niProc[p])'
      BY <3>1, <2>1, <1>3 DEF NiWhere, NiRestoresWell, NiCopySteps, NiSpared, NiCopied
    <3>4. QED
      BY <3>2, <3>3 DEF NiWhere
  <2>4. QED
    BY <2>1, <2>3, <1>6, <1>10
<1>12. CASE NiJudges(p)
  <2>1. CASE IsIdentity(r.bytes) \/ r.op = "load"
    <3>1. PICK label \in {"preserve", "recheck"} :
              /\ NiGoto(p, label) /\ UNCHANGED niLock
              /\ label = "preserve" => ~ IsIdentity(r.bytes)
      BY <1>12, <2>1 DEF NiJudges
    <3>2. QED
      BY <3>1, <1>10, <1>12 DEF NiJudges, NiSteps
  <2>2. CASE ~ IsIdentity(r.bytes) /\ r.op # "load"
    BY <1>4, <1>12, <2>2 DEF NiJudges
  <2>3. QED
    BY <2>1, <2>2
<1>13. CASE NiRechecks(p)
  <2>1. CASE niDir.file # r.bytes
    BY <1>4, <1>13, <2>1 DEF NiRechecks
  <2>2. CASE niDir.file = r.bytes
    <3>1. PICK label \in {"back up", "return", "preserve"} :
              /\ NiGoto(p, label) /\ UNCHANGED niLock
              /\ label = "preserve" => ~ IsIdentity(r.bytes)
              /\ label = "return" => IsIdentity(r.bytes)
      BY <1>13, <2>2 DEF NiRechecks
    <3>2. QED
      BY <3>1, <1>10, <1>13 DEF NiRechecks, NiSteps
  <2>3. QED
    BY <2>1, <2>2
<1>14. CASE NiReadsBack(p)
  <2>1. CASE IsIdentity(niDir.file)
    <3>1. /\ niProc' = [niProc EXCEPT ![p].pc = "confirm", ![p].bytes = niDir.file]
          /\ UNCHANGED niLock
      BY <1>14, <2>1 DEF NiReadsBack
    <3>2. /\ niProc' \in [NiProcs -> NiRecords] /\ \A q \in NiProcs \ {p} : niProc'[q] = niProc[q]
          /\ niProc'[p].pc = "confirm" /\ niProc'[p].bytes = niDir.file
      BY <3>1, <1>5 DEF NiInv, NiTypeOK, NiRecords, NiSteps
    <3>3. NiWhere(niProc[p])'
      BY <3>2, <2>1, <1>3, <1>5, <1>14 DEF NiReadsBack, NiWhere, NiLoading, NiPreserving, NiRestoresWell,
                                NiCopySteps
    <3>4. QED
      BY <3>1, <3>2, <3>3, <1>6
  <2>2. CASE ~ IsIdentity(niDir.file)
    BY <1>4, <1>14, <2>2 DEF NiReadsBack
  <2>3. QED
    BY <2>1, <2>2
<1>15. CASE NiVerifies(p)
  <2>1. PICK label \in {"drop", "roll back"} : NiGoto(p, label) /\ UNCHANGED niLock
    BY <1>15 DEF NiVerifies
  <2>2. QED
    BY <2>1, <1>10, <1>15 DEF NiVerifies, NiSteps
<1>16. CASE NiReadsCandidate(p)
  <2>1. CASE IsIdentity(niBackup)
    <3>1. /\ niProc' = [niProc EXCEPT ![p].pc = "original", ![p].candidate = niBackup]
          /\ UNCHANGED niLock
      BY <1>16, <2>1 DEF NiReadsCandidate
    <3>2. /\ niProc' \in [NiProcs -> NiRecords] /\ \A q \in NiProcs \ {p} : niProc'[q] = niProc[q]
          /\ niProc'[p].pc = "original" /\ niProc'[p].number = r.number
      BY <3>1, <1>5 DEF NiInv, NiTypeOK, NiRecords, NiSteps
    <3>3. NiWhere(niProc[p])'
      BY <3>2, <1>3, <1>5, <1>16 DEF NiReadsCandidate, NiWhere, NiLoading, NiPreserving,
                                NiRestoresWell, NiCopySteps, NiCopied
    <3>4. QED
      BY <3>1, <3>2, <3>3, <1>6
  <2>2. CASE ~ IsIdentity(niBackup)
    BY <1>4, <1>16, <2>2 DEF NiReadsCandidate
  <2>3. QED
    BY <2>1, <2>2
<1>17. CASE NiReadsOriginal(p)
  <2>1. PICK label \in {"swap", "safety"} :
            /\ niProc' = [niProc EXCEPT ![p].original = niDir.file, ![p].pc = label]
            /\ UNCHANGED niLock
            /\ label = "swap" => niDir.file = Absent
    BY <1>17 DEF NiReadsOriginal
  <2>2. /\ niProc' \in [NiProcs -> NiRecords] /\ \A q \in NiProcs \ {p} : niProc'[q] = niProc[q]
        /\ niProc'[p].pc = label /\ niProc'[p].number = r.number
        /\ niProc'[p].original = niDir.file
    BY <2>1, <1>5 DEF NiInv, NiTypeOK, NiRecords, NiSteps
  <2>3. r.number \in 1..niRestores /\ NiCopied(r.number, Absent)
    BY <1>5, <1>17 DEF NiReadsOriginal, NiWhere, NiRestoresWell
  <2>4. NiSpared(niDir.file)
    BY <1>7 DEF NiSpared
  <2>5. NiWhere(niProc[p])'
    <3>1. NiCopied(r.number, Absent)' /\ NiSpared(niDir.file)'
      BY <2>3, <2>4, <1>3, <2>2 DEF NiCopied, NiSpared
    <3>2. NiLoading(niProc[p])' /\ NiPreserving(niProc[p])'
      BY <2>2 DEF NiLoading, NiPreserving
    <3>3. NiRestoresWell(niProc[p])'
      BY <3>1, <2>1, <2>2, <2>3, <1>3 DEF NiRestoresWell, NiCopySteps, NiCopied, NiSpared
    <3>4. QED
      BY <3>2, <3>3 DEF NiWhere
  <2>6. QED
    BY <2>1, <2>2, <2>5, <1>6
<1>18. CASE NiFails(p)
  <2>1. CASE r.pc \in {"swap", "swap sync", "verify"}
    <3>1. NiGoto(p, "roll back") /\ UNCHANGED niLock
      BY <1>18, <2>1 DEF NiFails
    <3>2. QED
      BY <3>1, <2>1, <1>10 DEF NiSteps
  <2>2. CASE r.pc \notin {"swap", "swap sync", "verify"}
    BY <1>4, <1>18, <2>2 DEF NiFails
  <2>3. QED
    BY <2>1, <2>2
<1>19. QED
  BY <1>9, <1>12, <1>13, <1>14, <1>15, <1>16, <1>17, <1>18

(* Steps of a process that waits, or that has nothing to do *)
LEMMA NiWaiterStep ==
    ASSUME NiInv, NEW p \in NiProcs, niProc[p].pc \in {"idle", "lock"},
           niProc' \in [NiProcs -> NiRecords],
           \A q \in NiProcs \ {p} : niProc'[q] = niProc[q],
           niProc'[p].pc \in {"idle", "lock"}, niProc'[p].pc = "lock" => niProc'[p].bytes = Absent,
           \/ niLock' = niLock
           \/ niLock = p /\ niLock' = Nobody,
           NiKeepsDir, NiUnchanged
    PROVE  NiInv'
<1>1. UNCHANGED <<niDir, niDurable, niBackup, niMade, niOwed, niRestores, niEdits>>
  BY DEF NiKeepsDir, NiUnchanged
<1>2. NiAllKept' /\ NiFresh'
  BY <1>1, NiReadingKeeps
<1>3. NiTypeOK'
  BY <1>1 DEF NiInv, NiTypeOK, NiRecords
<1>4. ASSUME NEW q \in NiProcs PROVE NiWhere(niProc[q])'
  <2>1. CASE q = p
    BY <2>1 DEF NiWhere, NiLoading, NiPreserving, NiRestoresWell, NiCopySteps
  <2>2. CASE q # p
    <3>1. niProc'[q] = niProc[q] /\ NiWhere(niProc[q])
      BY <2>2 DEF NiInv
    <3>2. NiLoading(niProc[q])' /\ NiPreserving(niProc[q])'
      BY <1>1, <3>1 DEF NiWhere, NiLoading, NiPreserving, NiSpared, NiCopied
    <3>3. NiRestoresWell(niProc[q])'
      BY <1>1, <3>1 DEF NiWhere, NiRestoresWell, NiCopySteps, NiSpared, NiCopied
    <3>4. QED
      BY <3>2, <3>3 DEF NiWhere
  <2>3. QED
    BY <2>1, <2>2
<1>5. QED
  BY <1>2, <1>3, <1>4 DEF NiInv, NiFresh

LEMMA NiDoneRecord == NiDone \in NiRecords /\ NiDone.pc = "idle" /\ NiDone.bytes = Absent
  BY IdentityStoreAssumption DEF NiDone, NiRecords, NiSteps, NiContent, Absent

(* A call begins, ends, fails late, or is killed; the lock is taken. *)
LEMMA NiCallSteps ==
    ASSUME NiInv, NEW p \in NiProcs,
           NiBegins(p) \/ NiLocks(p) \/ NiBacksUp(p) \/ NiFailsLate(p) \/ NiKilled(p)
    PROVE  NiInv'
<1> USE DEF NiAt
<1>1. niProc \in [NiProcs -> NiRecords] /\ niLock \in NiProcs \cup {Nobody}
  BY DEF NiInv, NiTypeOK, NiRecords
<1>2. NiDone \in NiRecords /\ NiDone.pc = "idle" /\ NiDone.bytes = Absent
  BY NiDoneRecord
<1>3. ASSUME niProc[p].pc \notin {"idle", "lock"}, niProc' = [niProc EXCEPT ![p] = NiDone],
             niLock' = Nobody, NiKeepsDir, UNCHANGED <<niMade, niOwed, niRestores, niEdits>>,
             niBackup' \in NiContent
      PROVE  NiInv'
  <2>1. NiAllKept' /\ NiFresh' /\ niDir' \in niDurable' /\ niDurable' \subseteq NiDirs
    BY <1>3, NiReadingKeeps
  <2>2. NiCounts'
    BY <1>3 DEF NiCounts, NiInv, NiTypeOK
  <2>3. QED
    BY <1>3, <2>1, <2>2, NiEndKeeps
<1>4. CASE NiBegins(p)
  <2>1. PICK op \in {"load", "backup", "restore"} :
            niProc' = [niProc EXCEPT ![p] = [NiDone EXCEPT !.pc = "lock", !.op = op]]
    BY <1>4 DEF NiBegins
  <2>2. [NiDone EXCEPT !.pc = "lock", !.op = op] \in NiRecords
    BY <1>2 DEF NiRecords, NiSteps
  <2>3. [NiDone EXCEPT !.pc = "lock", !.op = op].pc = "lock"
        /\ [NiDone EXCEPT !.pc = "lock", !.op = op].bytes = Absent
    BY <1>2 DEF NiRecords
  <2>4. QED
    BY <2>1, <2>2, <2>3, <1>1, <1>4, NiWaiterStep DEF NiBegins
<1>5. CASE NiBacksUp(p)
  <2>1. niProc[p].bytes \in NiContent
    BY <1>1 DEF NiRecords
  <2>2. QED
    BY <1>3, <1>5, <2>1 DEF NiBacksUp, NiEnds
<1>6. ASSUME niProc[p].pc \in {"idle", "lock"}, niProc' = [niProc EXCEPT ![p] = NiDone],
             \/ niLock' = niLock
             \/ niLock = p /\ niLock' = Nobody,
             NiKeepsDir, NiUnchanged
      PROVE  NiInv'
  BY <1>1, <1>2, <1>6, NiWaiterStep
<1>7. NiUnchanged => niBackup' \in NiContent /\ UNCHANGED <<niMade, niOwed, niRestores, niEdits>>
  BY DEF NiInv, NiTypeOK, NiUnchanged
<1>8. CASE NiFailsLate(p)
  BY <1>3, <1>6, <1>7, <1>8 DEF NiFailsLate, NiEnds
<1>9. CASE NiKilled(p)
  <2>1. CASE niProc[p].pc = "lock"
    BY <1>6, <1>9, <2>1 DEF NiKilled
  <2>2. CASE niProc[p].pc # "lock"
    <3>1. niProc[p].pc \notin {"idle", "lock"} /\ niLock = p
      BY <1>9, <2>2, NiHolds DEF NiKilled
    <3>2. QED
      BY <3>1, <1>3, <1>7, <1>9 DEF NiKilled
  <2>3. QED
    BY <2>1, <2>2
<1>10. CASE NiLocks(p)
  <2>1. niLock = Nobody /\ niLock' = p /\ niProc[p].pc = "lock" /\ niProc[p].bytes = Absent
    BY <1>10 DEF NiLocks, NiTakesLock, NiInv, NiWhere, NiLoading
  <2>2. \A q \in NiProcs : niProc[q].pc \in {"idle", "lock"}
    BY <2>1, NiHolds
  <2>3. UNCHANGED <<niDir, niDurable, niBackup, niMade, niOwed, niEdits>>
    BY <1>10 DEF NiLocks, NiKeepsDir
  <2>4. /\ niProc' \in [NiProcs -> NiRecords]
        /\ \A q \in NiProcs \ {p} : niProc'[q] = niProc[q]
        /\ niProc'[p].bytes = Absent /\ niRestores' \in 0..NiRestoresMax
        /\ \/ niProc'[p].pc = "read" /\ niRestores' = niRestores
           \/ /\ niProc'[p].pc = "candidate" /\ niRestores' = niRestores + 1
              /\ niProc'[p].number = niRestores' /\ niRestores < NiRestoresMax
    <3>1. CASE NiGoto(p, "read") /\ UNCHANGED niRestores
      BY <3>1, <2>1, NiGotoType DEF NiSteps, NiInv, NiTypeOK
    <3>2. CASE /\ niRestores < NiRestoresMax /\ niRestores' = niRestores + 1
               /\ niProc' = [niProc EXCEPT ![p].pc = "candidate", ![p].number = niRestores']
      <4>1. niRestores' \in 0..NiRestoresMax
        BY <3>2, IdentityStoreAssumption DEF NiInv, NiTypeOK
      <4>2. niProc[p] \in NiRecords
        BY <1>1
      <4>3. niProc' = [niProc EXCEPT ![p] = [@ EXCEPT !.pc = "candidate", !.number = niRestores']]
        BY <3>2
      <4>4. [niProc[p] EXCEPT !.pc = "candidate", !.number = niRestores'] \in NiRecords
        BY <4>1, <4>2 DEF NiRecords, NiSteps
      <4>5. /\ niProc' \in [NiProcs -> NiRecords] /\ \A q \in NiProcs \ {p} : niProc'[q] = niProc[q]
            /\ niProc'[p] = [niProc[p] EXCEPT !.pc = "candidate", !.number = niRestores']
        BY <4>3, <4>4, <1>1
      <4>6. niProc'[p].pc = "candidate" /\ niProc'[p].number = niRestores'
            /\ niProc'[p].bytes = Absent
        BY <4>5, <4>2, <2>1 DEF NiRecords
      <4>7. QED
        BY <4>1, <4>5, <4>6, <3>2
    <3>3. QED
      BY <3>1, <3>2, <1>10 DEF NiLocks
  <2>5. niRestores \in Nat
    BY DEF NiInv, NiTypeOK
  <2>6. NiAllKept'
    BY <2>3 DEF NiInv, NiAllKept, NiFiled, NiCopied
  <2>7. NiFresh'
    BY <2>3, <2>4, <2>5 DEF NiInv, NiFresh, NiCopied, NiRestoring
  <2>8. NiTypeOK'
    BY <2>1, <2>2, <2>3, <2>4, <1>1 DEF NiInv, NiTypeOK, NiRecords
  <2>9. ASSUME NEW q \in NiProcs PROVE NiWhere(niProc[q])'
    <3>1. CASE q # p
      <4>1. niProc'[q] = niProc[q] /\ NiWhere(niProc[q]) /\ niProc[q].pc \in {"idle", "lock"}
        BY <3>1, <2>2, <2>4 DEF NiInv
      <4>2. QED
        BY <4>1 DEF NiWhere, NiLoading, NiPreserving, NiRestoresWell, NiCopySteps
    <3>2. CASE niProc'[p].pc = "read" /\ q = p
      BY <3>2, <2>4 DEF NiWhere, NiLoading, NiPreserving, NiRestoresWell, NiCopySteps
    <3>3. CASE niProc'[p].pc = "candidate" /\ q = p
      <4>1. \A d \in niDurable' : d.safety[niProc'[p].number] = Absent
        <5>1. niRestores + 1 \in NiRestoring /\ niRestores + 1 > niRestores
          BY <3>3, <2>4, <2>5, IdentityStoreAssumption DEF NiRestoring
        <5>2. \A d \in niDurable : d.safety[niRestores + 1] = Absent
          BY <5>1 DEF NiInv, NiCopied
        <5>3. QED
          BY <3>3, <5>2, <2>3, <2>4
      <4>2. niRestores' \in 1..niRestores' /\ niProc'[p].number = niRestores'
        BY <3>3, <2>4, <2>5
      <4>3. NiRestoresWell(niProc[p])'
        BY <3>3, <4>1, <4>2 DEF NiRestoresWell, NiCopySteps, NiCopied
      <4>4. QED
        BY <3>3, <4>3 DEF NiWhere, NiLoading, NiPreserving
    <3>4. QED
      BY <3>1, <3>2, <3>3, <2>4
  <2>10. QED
    BY <2>6, <2>7, <2>8, <2>9 DEF NiInv, NiFresh
<1>11. QED
  BY <1>4, <1>5, <1>8, <1>9, <1>10

-----------------------------------------------------------------------------
(* The steps that sync the directory *)

(* What every directory had, the one that is left has. *)
LEMMA NiSyncKeeps ==
    ASSUME NiInv, NiSyncs, niOwed' = niOwed, niRestores' = niRestores
    PROVE  /\ NiAllKept' /\ NiFresh' /\ niDir' \in niDurable' /\ niDurable' \subseteq NiDirs
           /\ niDir' = niDir /\ niDurable' = {niDir}
<1>1. niDir \in niDurable /\ niDurable \subseteq NiDirs /\ niDir' = niDir /\ niDurable' = {niDir}
  BY DEF NiInv, NiTypeOK, NiSyncs
<1>2. NiAllKept' /\ NiFresh'
  BY <1>1 DEF NiInv, NiAllKept, NiFresh, NiFiled, NiCopied
<1>3. QED
  BY <1>1, <1>2

LEMMA NiSyncSteps ==
    ASSUME NiInv, NEW p \in NiProcs,
           NiSyncPoint(p) \/ NiEndSyncs(p) \/ NiReturns(p) \/ NiConfirms(p)
    PROVE  NiInv'
<1> DEFINE r == niProc[p]
<1> USE DEF NiAt
<1>1. niProc[p].pc \notin {"idle", "lock"} /\ UNCHANGED <<niBackup, niMade, niRestores, niEdits>>
  BY DEF NiSyncPoint, NiSyncStep, NiEndSyncs, NiReturns, NiConfirms, NiUnchanged
<1>2. /\ niDir \in niDurable /\ niDurable \subseteq NiDirs /\ niOwed \subseteq 1..NiKeys
      /\ niDir \in NiDirs /\ niDir.file \in NiContent
  BY DEF NiInv, NiTypeOK, NiDirs
<1>3. niOwed' \subseteq 1..NiKeys => NiCounts'
  BY <1>1 DEF NiCounts, NiInv, NiTypeOK
<1>4. niProc[p] \in NiRecords /\ NiWhere(niProc[p])
  BY <1>1, NiHolds
<1>5. CASE NiEndSyncs(p)
  BY <1>1, <1>2, <1>3, <1>5, NiSyncKeeps, NiEndKeeps DEF NiEndSyncs, NiEnds, NiUnchanged
<1>6. \A k \in NiContent : IsIdentity(k) => k \in 1..NiKeys
  BY IdentityStoreAssumption DEF NiContent, IsIdentity, Absent, Corrupt
<1>7. ASSUME niDurable' = {niDir}, niDir' = niDir, niOwed' \subseteq niOwed \cup {niDir.file}
      PROVE  NiAllKept' /\ NiFresh'
  BY <1>1, <1>2, <1>7 DEF NiInv, NiAllKept, NiFresh, NiFiled, NiCopied
<1>8. ASSUME niDurable' = {niDir}, niDir' = niDir, niOwed' = niOwed \/ IsIdentity(niDir.file),
             niOwed' \subseteq niOwed \cup {niDir.file},
             niProc' = [niProc EXCEPT ![p] = NiDone], niLock' = Nobody
      PROVE  NiInv'
  <2>1. niOwed' \subseteq 1..NiKeys
    BY <1>2, <1>6, <1>8
  <2>2. QED
    BY <2>1, <1>1, <1>2, <1>3, <1>7, <1>8, NiEndKeeps
<1>9. CASE NiReturns(p)
  <2>1. IsIdentity(r.bytes)
    BY <1>4, <1>9 DEF NiReturns, NiWhere, NiLoading
  <2>2. niOwed' = niOwed \/ (niOwed' = niOwed \cup {niDir.file} /\ IsIdentity(niDir.file))
    BY <2>1, <1>9 DEF NiReturns, NiRunsWith
  <2>3. QED
    BY <2>2, <1>8, <1>9 DEF NiReturns, NiSyncs, NiEnds
<1>10. CASE NiConfirms(p)
  <2>1. IsIdentity(r.bytes) /\ niDurable = {niDir}
    BY <1>4, <1>10 DEF NiConfirms, NiWhere, NiLoading
  <2>2. niOwed' = niOwed \/ (niOwed' = niOwed \cup {niDir.file} /\ IsIdentity(niDir.file))
    BY <2>1, <1>10 DEF NiConfirms, NiRunsWith
  <2>3. QED
    BY <2>1, <2>2, <1>8, <1>10 DEF NiConfirms, NiKeepsDir, NiEnds
<1>11. CASE NiSyncPoint(p)
  <2>1. PICK from \in NiSteps, to \in NiSteps :
            /\ <<from, to>> \in {<<"preserve sync", "create">>, <<"create sync", "read back">>,
                                 <<"safety sync", "swap">>, <<"swap sync", "verify">>,
                                 <<"roll back sync", "roll back drop">>}
            /\ NiSyncStep(p, from, to)
    BY <1>11 DEF NiSyncPoint, NiSteps
  <2>2. /\ r.pc = from /\ NiGoto(p, to) /\ NiSyncs /\ UNCHANGED <<niLock, niOwed>>
    BY <2>1 DEF NiSyncStep, NiUnchanged
  <2>3. /\ NiAllKept' /\ NiFresh' /\ niDir' \in niDurable' /\ niDurable' \subseteq NiDirs
        /\ niDir' = niDir /\ niDurable' = {niDir}
    BY <2>2, <1>1, NiSyncKeeps
  <2>4. /\ niProc' \in [NiProcs -> NiRecords] /\ \A q \in NiProcs \ {p} : niProc'[q] = niProc[q]
        /\ niProc'[p].pc = to /\ niProc'[p].bytes = r.bytes /\ niProc'[p].number = r.number
        /\ niProc'[p].original = r.original
    BY <2>2, NiGotoType
  <2>5. ASSUME NEW x PROVE NiSpared(x) => \A k \in niOwed' : k = x \/ \E c \in NiRestoring :
                                              \A d \in niDurable' : d.safety[c] = k
    BY <2>2, <2>3, <1>2 DEF NiSpared, NiCopied
  <2>6. NiLoading(niProc[p])'
    <3>1. CASE to = "create"
      <4>1. NiSpared(r.bytes) /\ ~ IsIdentity(r.bytes)
        BY <1>4, <2>1, <2>2, <3>1 DEF NiWhere, NiLoading
      <4>2. QED
        BY <4>1, <2>3, <2>4, <2>5, <3>1 DEF NiLoading, NiSpared, NiCopied
    <3>2. CASE to # "create"
      BY <2>1, <2>3, <2>4, <3>2 DEF NiLoading
    <3>3. QED
      BY <3>1, <3>2
  <2>7. NiPreserving(niProc[p])'
    BY <1>1, <1>4, <2>1, <2>2, <2>3, <2>4 DEF NiWhere, NiPreserving
  <2>8. NiRestoresWell(niProc[p])'
    <3>1. CASE to \notin {"swap", "verify", "roll back drop"}
      BY <2>1, <2>4, <3>1 DEF NiRestoresWell, NiCopySteps
    <3>2. CASE to \in {"swap", "verify", "roll back drop"}
      <4>1. /\ r.number \in 1..niRestores /\ NiSpared(r.original)
            /\ niDir.safety[r.number] = r.original
            /\ to = "roll back drop" /\ r.original \in niOwed => niDir.file = r.original
        BY <1>2, <1>4, <2>1, <2>2, <3>2 DEF NiWhere, NiRestoresWell, NiCopySteps, NiCopied
      <4>2. NiSpared(r.original)' /\ NiCopied(r.number, r.original)'
        BY <4>1, <2>3, <2>4, <2>5 DEF NiSpared, NiCopied
      <4>3. QED
        BY <4>1, <4>2, <1>1, <2>1, <2>2, <2>3, <2>4, <3>2
           DEF NiRestoresWell, NiCopySteps, NiSpared, NiCopied
    <3>3. QED
      BY <3>1, <3>2
  <2>9. NiWhere(niProc[p])'
    BY <2>6, <2>7, <2>8 DEF NiWhere
  <2>10. NiCounts'
    BY <1>2, <1>3, <2>2
  <2>11. QED
    BY <1>1, <2>2, <2>3, <2>4, <2>9, <2>10, NiStepOf
<1>12. QED
  BY <1>5, <1>9, <1>10, <1>11

-----------------------------------------------------------------------------
(* The steps that change a name *)

(* A new identity file takes away nothing that has a copy. *)
LEMMA NiPutFile ==
    ASSUME NiInv, NEW c \in NiContent, NiPuts(c), UNCHANGED niRestores, niOwed' = niOwed,
           \A k \in niOwed : \E r \in NiRestoring : NiCopied(r, k)
    PROVE  /\ NiAllKept' /\ NiFresh' /\ niDir' \in niDurable' /\ niDurable' \subseteq NiDirs
           /\ \A k \in niOwed' : \E r \in NiRestoring : \A d \in niDurable' : d.safety[r] = k
           /\ \A r, k : NiCopied(r, k) => \A d \in niDurable' : d.safety[r] = k
           /\ niDir'.file = c /\ niDir'.safety = niDir.safety /\ niDir'.corrupt = niDir.corrupt
           /\ \A d \in niDurable' : \E e \in niDurable : d.corrupt = e.corrupt
<1>1. NiTypeOK
  BY DEF NiInv
<1>2. /\ niDir' \in niDurable' /\ niDurable' \subseteq NiDirs
      /\ niDir'.file = c /\ niDir'.safety = niDir.safety /\ niDir'.corrupt = niDir.corrupt
      /\ \A d \in niDurable' : \E e \in niDurable : d.safety = e.safety /\ d.corrupt = e.corrupt
  BY <1>1, NiPutsKeeps
<1>3. \A r, k : NiCopied(r, k) => \A d \in niDurable' : d.safety[r] = k
  BY <1>2 DEF NiCopied
<1>4. \A k \in niOwed' : \E r \in NiRestoring : \A d \in niDurable' : d.safety[r] = k
  BY <1>3
<1>5. NiAllKept'
  BY <1>4 DEF NiAllKept, NiCopied
<1>6. NiFresh'
  BY <1>3 DEF NiInv, NiFresh, NiCopied
<1>7. QED
  BY <1>2, <1>3, <1>4, <1>5, <1>6

(* Only what has a copy, or is no identity, is replaced in the identity file. *)
LEMMA NiFileSteps ==
    ASSUME NiInv, NEW p \in NiProcs, NiPreserves(p) \/ NiCreates(p) \/ NiSwaps(p) \/ NiRollsBack(p)
    PROVE  NiInv'
<1> DEFINE r == niProc[p]
<1> USE DEF NiAt
<1>1. niProc[p].pc \notin {"idle", "lock"}
      /\ UNCHANGED <<niBackup, niRestores, niEdits, niOwed, niLock>>
  BY DEF NiPreserves, NiCreates, NiSwaps, NiRollsBack, NiUnchanged
<1>2. niProc[p] \in NiRecords /\ NiWhere(niProc[p]) /\ niOwed \subseteq 1..NiKeys
  BY <1>1, NiHolds DEF NiInv, NiTypeOK
<1>3. /\ niDir \in niDurable /\ niDurable \subseteq NiDirs /\ niDir \in NiDirs
      /\ Absent \in NiContent /\ \A k \in 1..NiKeys : IsIdentity(k) /\ k \in NiContent
  BY IdentityStoreAssumption
     DEF NiInv, NiTypeOK, NiContent, Absent, Corrupt, IsIdentity
<1>4. niMade' \in 1..NiKeys => NiCounts'
  BY <1>1 DEF NiCounts, NiInv, NiTypeOK
<1>5. niMade \in 1..NiKeys
  BY DEF NiInv, NiTypeOK
<1>6. ASSUME NEW label \in NiSteps, NiGoto(p, label)
      PROVE  /\ niProc' \in [NiProcs -> NiRecords] /\ \A q \in NiProcs \ {p} : niProc'[q] = niProc[q]
             /\ niProc'[p].pc = label /\ niProc'[p].bytes = r.bytes
             /\ niProc'[p].number = r.number /\ niProc'[p].original = r.original
  BY <1>6, NiGotoType
<1>7. ASSUME NiSpared(r.original), NiCopied(r.number, r.original), r.number \in 1..niRestores
      PROVE  \A k \in niOwed : \E c \in NiRestoring : NiCopied(c, k)
  <2>1. r.number \in NiRestoring
    BY <1>7 DEF NiInv, NiTypeOK, NiRestoring
  <2>2. QED
    BY <2>1, <1>7 DEF NiSpared
<1>8. ASSUME ~ IsIdentity(r.bytes), NiSpared(r.bytes)
      PROVE  \A k \in niOwed : \E c \in NiRestoring : NiCopied(c, k)
  BY <1>2, <1>3, <1>8 DEF NiSpared
<1>9. CASE NiPreserves(p)
  <2>1. ~ IsIdentity(r.bytes) /\ NiSpared(r.bytes)
    BY <1>2, <1>9 DEF NiPreserves, NiWhere, NiLoading
  <2> DEFINE Put(d) == [d EXCEPT !.file = Absent, !.corrupt = @ \cup {niDir.file}]
  <2>2. niDir' = Put(niDir) /\ niDurable' = niDurable \cup {Put(d) : d \in niDurable}
    BY <1>9 DEF NiPreserves, NiChangesDir
  <2>3. niDir.file \in NiContent
    BY <1>3 DEF NiDirs
  <2>4. \A d \in NiDirs : /\ Put(d) \in NiDirs /\ Put(d).safety = d.safety
                          /\ Put(d).corrupt = d.corrupt \cup {niDir.file}
    BY <1>3, <2>3 DEF NiDirs
  <2>5. /\ niDir' \in niDurable' /\ niDurable' \subseteq NiDirs
        /\ \A d \in niDurable' : \E e \in niDurable : d.safety = e.safety
        /\ niDir.file \in niDir'.corrupt
    <3> HIDE DEF Put
    <3>1. QED
      BY <2>2, <2>4, <1>3
  <2>6. \A c, k : NiCopied(c, k) => \A d \in niDurable' : d.safety[c] = k
    BY <2>5 DEF NiCopied
  <2>7. \A k \in niOwed' : \E c \in NiRestoring : \A d \in niDurable' : d.safety[c] = k
    BY <2>1, <2>6, <1>1, <1>8
  <2>8. NiAllKept' /\ NiFresh'
    BY <2>6, <2>7, <1>1 DEF NiInv, NiAllKept, NiFresh, NiCopied
  <2>9. /\ niProc' \in [NiProcs -> NiRecords] /\ \A q \in NiProcs \ {p} : niProc'[q] = niProc[q]
        /\ niProc'[p].pc = "preserve sync" /\ niProc'[p].bytes = r.bytes
    BY <1>6, <1>9 DEF NiPreserves, NiSteps
  <2>10. NiSpared(niProc[p].bytes)'
    BY <2>7 DEF NiSpared, NiCopied
  <2>11. NiWhere(niProc[p])'
    <3>1. NiLoading(niProc[p])'
      BY <2>1, <2>9, <2>10 DEF NiLoading
    <3>2. NiPreserving(niProc[p])'
      BY <1>1, <1>2, <1>9, <2>5, <2>9 DEF NiPreserves, NiWhere, NiPreserving
    <3>3. NiRestoresWell(niProc[p])'
      BY <2>9 DEF NiRestoresWell, NiCopySteps
    <3>4. QED
      BY <3>1, <3>2, <3>3 DEF NiWhere
  <2>12. NiCounts'
    BY <1>4, <1>5, <1>9 DEF NiPreserves, NiUnchanged
  <2>13. QED
    BY <1>1, <2>5, <2>8, <2>9, <2>11, <2>12, NiStepOf
<1>10. CASE NiCreates(p)
  <2>1. ~ IsIdentity(r.bytes) /\ NiSpared(r.bytes)
    BY <1>2, <1>10 DEF NiCreates, NiWhere, NiLoading
  <2>2. niMade' \in 1..NiKeys /\ niMade' \in NiContent
    <3>1. NiKeys \in Nat /\ niMade < NiKeys /\ niMade' = niMade + 1
      BY <1>10, IdentityStoreAssumption DEF NiCreates
    <3>2. niMade' \in 1..NiKeys
      BY <3>1, <1>5
    <3>3. QED
      BY <3>2, <1>3
  <2>3. PICK c \in NiContent : NiPuts(c)
    BY <2>2, <1>10 DEF NiCreates, NiPuts, NiChangesDir
  <2>4. NiAllKept' /\ NiFresh' /\ niDir' \in niDurable' /\ niDurable' \subseteq NiDirs
    BY <2>1, <2>3, <1>1, <1>8, NiPutFile
  <2>5. /\ niProc' \in [NiProcs -> NiRecords] /\ \A q \in NiProcs \ {p} : niProc'[q] = niProc[q]
        /\ niProc'[p].pc = "create sync"
    BY <1>6, <1>10 DEF NiCreates, NiSteps
  <2>6. NiWhere(niProc[p])'
    BY <2>5 DEF NiWhere, NiLoading, NiPreserving, NiRestoresWell, NiCopySteps
  <2>7. QED
    BY <1>1, <1>4, <2>2, <2>4, <2>5, <2>6, NiStepOf
<1>11. ASSUME r.pc \in {"swap", "roll back"}, NEW c \in NiContent, NiPuts(c),
              NEW label \in {"swap sync", "roll back sync", "end sync"}, NiGoto(p, label),
              label = "roll back sync" => c = r.original, UNCHANGED niMade
       PROVE  NiInv'
  <2>1. /\ r.number \in 1..niRestores /\ NiSpared(r.original) /\ NiCopied(r.number, r.original)
    BY <1>2, <1>11 DEF NiWhere, NiRestoresWell, NiCopySteps
  <2>2. /\ NiAllKept' /\ NiFresh' /\ niDir' \in niDurable' /\ niDurable' \subseteq NiDirs
        /\ \A k \in niOwed' : \E n \in NiRestoring : \A d \in niDurable' : d.safety[n] = k
        /\ \A n, k : NiCopied(n, k) => \A d \in niDurable' : d.safety[n] = k
        /\ niDir'.file = c
    BY <2>1, <1>1, <1>7, <1>11, NiPutFile
  <2>3. /\ niProc' \in [NiProcs -> NiRecords] /\ \A q \in NiProcs \ {p} : niProc'[q] = niProc[q]
        /\ niProc'[p].pc = label /\ niProc'[p].number = r.number
        /\ niProc'[p].original = r.original
    BY <1>6, <1>11 DEF NiSteps
  <2>4. NiSpared(niProc[p].original)'
    BY <2>2 DEF NiSpared, NiCopied
  <2>5. NiCopied(niProc[p].number, niProc[p].original)'
    <3>1. \A d \in niDurable' : d.safety[r.number] = r.original
      BY <2>1, <2>2
    <3>2. QED
      BY <3>1, <2>3 DEF NiCopied
  <2>6. NiRestoresWell(niProc[p])'
    BY <2>1, <2>2, <2>3, <2>4, <2>5, <1>1, <1>11 DEF NiRestoresWell, NiCopySteps
  <2>7. NiWhere(niProc[p])'
    BY <2>3, <2>6, <1>11 DEF NiWhere, NiLoading, NiPreserving
  <2>8. NiCounts'
    BY <1>4, <1>5, <1>11
  <2>9. QED
    BY <1>1, <2>2, <2>3, <2>7, <2>8, NiStepOf
<1>12. CASE NiSwaps(p)
  <2>1. r.candidate \in NiContent
    BY <1>2 DEF NiRecords
  <2>2. QED
    BY <2>1, <1>11, <1>12 DEF NiSwaps, NiUnchanged
<1>13. CASE NiRollsBack(p)
  <2>1. NiCopied(r.number, r.original) /\ r.original \in NiContent
    BY <1>2, <1>13 DEF NiRollsBack, NiWhere, NiRestoresWell, NiCopySteps, NiRecords
  <2>2. niDir.safety[r.number] = r.original
    BY <2>1, <1>3 DEF NiCopied
  <2>3. QED
    BY <2>1, <2>2, <1>3, <1>11, <1>13 DEF NiRollsBack, NiUnchanged
<1>14. QED
  BY <1>9, <1>10, <1>12, <1>13

(* A copy is made where there was none, and taken away when its identity is in
   the file for good or given up.                                          *)
LEMMA NiCopiesKeep ==
    ASSUME NiInv, NEW p \in NiProcs, NiCopiesOriginal(p) \/ NiDropsCopy(p) \/ NiRollBackDrops(p)
    PROVE  NiInv'
<1> DEFINE r == niProc[p]
<1> DEFINE n == niProc[p].number
<1> USE DEF NiAt
<1>1. niProc[p].pc \notin {"idle", "lock"}
      /\ UNCHANGED <<niBackup, niRestores, niEdits, niMade, niLock>>
  BY DEF NiCopiesOriginal, NiDropsCopy, NiRollBackDrops, NiUnchanged
<1>2. niProc[p] \in NiRecords /\ NiWhere(niProc[p]) /\ niOwed \subseteq 1..NiKeys /\ NiTypeOK
  BY <1>1, NiHolds DEF NiInv, NiTypeOK
<1>3. /\ n \in 1..niRestores /\ n \in NiRestoring /\ r.original \in NiContent
      /\ Absent \in NiContent /\ Absent \notin niOwed /\ niRestores \in Nat
  <2>1. n \in 1..niRestores
    BY <1>2 DEF NiCopiesOriginal, NiDropsCopy, NiRollBackDrops, NiWhere, NiRestoresWell, NiCopySteps
  <2>2. niRestores \in 0..NiRestoresMax
    BY <1>2 DEF NiTypeOK
  <2>3. QED
    BY <2>1, <2>2, <1>2, IdentityStoreAssumption
       DEF NiRestoring, NiRecords, NiContent, Absent
<1>4. niOwed' \subseteq niOwed => NiCounts'
  BY <1>1, <1>2 DEF NiCounts, NiTypeOK
<1>5. ASSUME NEW c \in NiContent, NiPutsCopy(p, c)
      PROVE  /\ niDir' \in niDurable' /\ niDurable' \subseteq NiDirs
             /\ niDir'.file = niDir.file /\ niDir'.safety[n] = c
             /\ \A k : NiFiled(k) => \A d \in niDurable' : d.file = k
             /\ \A k : \A s \in NiRestoring : s # n /\ NiCopied(s, k) =>
                    \A d \in niDurable' : d.safety[s] = k
             /\ NiFresh'
  <2>1. /\ niDir' \in niDurable' /\ niDurable' \subseteq NiDirs
        /\ niDir'.file = niDir.file /\ niDir'.safety[n] = c
        /\ \A d \in niDurable' : \E e \in niDurable :
               /\ d.file = e.file
               /\ \A s \in NiRestoring : s # n => d.safety[s] = e.safety[s]
    <3> HIDE DEF n
    <3>1. QED
      BY <1>2, <1>3, <1>5, NiPutsCopyKeeps DEF n
  <2>2. \A k : \A s \in NiRestoring : s # n /\ NiCopied(s, k) => \A d \in niDurable' : d.safety[s] = k
    <3> HIDE DEF n
    <3>1. QED
      BY <2>1 DEF NiCopied
  <2>3. \A k : NiFiled(k) => \A d \in niDurable' : d.file = k
    BY <2>1 DEF NiFiled
  <2>4. NiFresh'
    <3>1. SUFFICES ASSUME NEW s \in NiRestoring, s > niRestores
                   PROVE  \A d \in niDurable' : d.safety[s] = Absent
      BY <1>1 DEF NiFresh, NiCopied
    <3>2. s # n /\ NiCopied(s, Absent)
      BY <3>1, <1>3 DEF NiInv, NiRestoring
    <3>3. QED
      BY <3>2, <2>2
  <2>5. QED
    BY <2>1, <2>2, <2>3, <2>4
<1>6. ASSUME NEW label \in NiSteps, NiGoto(p, label)
      PROVE  /\ niProc' \in [NiProcs -> NiRecords] /\ \A q \in NiProcs \ {p} : niProc'[q] = niProc[q]
             /\ niProc'[p].pc = label /\ niProc'[p].bytes = r.bytes
             /\ niProc'[p].number = n /\ niProc'[p].original = r.original
  BY <1>6, NiGotoType
<1>7. ASSUME NEW s \in NiRestoring, NEW k \in niOwed, NiCopied(n, Absent), NiCopied(s, k)
      PROVE  s # n
  BY <1>2, <1>3, <1>7 DEF NiTypeOK, NiCopied
<1>8. CASE NiCopiesOriginal(p)
  <2>1. NiCopied(n, Absent) /\ NiSpared(r.original) /\ niOwed' = niOwed
    BY <1>2, <1>8 DEF NiCopiesOriginal, NiWhere, NiRestoresWell, NiUnchanged
  <2>2. NiPutsCopy(p, r.original) /\ NiGoto(p, "safety sync")
    BY <1>8 DEF NiCopiesOriginal
  <2>3. /\ niDir' \in niDurable' /\ niDurable' \subseteq NiDirs
        /\ niDir'.safety[n] = r.original /\ NiFresh'
        /\ \A k : NiFiled(k) => \A d \in niDurable' : d.file = k
        /\ \A k : \A s \in NiRestoring : s # n /\ NiCopied(s, k) =>
                    \A d \in niDurable' : d.safety[s] = k
    BY <2>2, <1>3, <1>5
  <2>4. \A s \in NiRestoring, k \in niOwed : NiCopied(s, k) => \A d \in niDurable' : d.safety[s] = k
    BY <2>1, <2>3, <1>7
  <2>5. NiAllKept'
    BY <2>1, <2>3, <2>4 DEF NiInv, NiAllKept, NiFiled, NiCopied
  <2>6. /\ niProc' \in [NiProcs -> NiRecords] /\ \A q \in NiProcs \ {p} : niProc'[q] = niProc[q]
        /\ niProc'[p].pc = "safety sync" /\ niProc'[p].number = n
        /\ niProc'[p].original = r.original
    BY <2>2, <1>6 DEF NiSteps
  <2>7. NiSpared(niProc[p].original)'
    BY <2>1, <2>4, <2>6 DEF NiSpared, NiCopied
  <2>8. NiWhere(niProc[p])'
    <3>1. NiRestoresWell(niProc[p])'
      BY <1>1, <1>3, <2>3, <2>6, <2>7 DEF NiRestoresWell, NiCopySteps
    <3>2. QED
      BY <3>1, <2>6 DEF NiWhere, NiLoading, NiPreserving
  <2>9. QED
    BY <1>1, <1>4, <2>1, <2>3, <2>5, <2>6, <2>8, NiStepOf
<1>9. ASSUME r.pc \in NiCopySteps, NiPutsCopy(p, Absent), NiGoto(p, "end sync"),
             niOwed' \subseteq niOwed,
             \A k \in niOwed' : NiFiled(k) \/ \E s \in NiRestoring \ {n} : NiCopied(s, k)
      PROVE  NiInv'
  <2>1. /\ niDir' \in niDurable' /\ niDurable' \subseteq NiDirs /\ NiFresh'
        /\ \A k : NiFiled(k) => \A d \in niDurable' : d.file = k
        /\ \A k : \A s \in NiRestoring : s # n /\ NiCopied(s, k) =>
                    \A d \in niDurable' : d.safety[s] = k
    BY <1>9, <1>3, <1>5
  <2>2. ASSUME NEW k \in niOwed'
        PROVE  \/ \A d \in niDurable' : d.file = k
               \/ \E s \in NiRestoring : \A d \in niDurable' : d.safety[s] = k
    BY <1>9, <2>1, <2>2
  <2>3. NiAllKept'
    BY <2>2 DEF NiAllKept, NiFiled, NiCopied
  <2>4. /\ niProc' \in [NiProcs -> NiRecords] /\ \A q \in NiProcs \ {p} : niProc'[q] = niProc[q]
        /\ niProc'[p].pc = "end sync"
    BY <1>6, <1>9 DEF NiSteps
  <2>5. NiWhere(niProc[p])'
    BY <2>4 DEF NiWhere, NiLoading, NiPreserving, NiRestoresWell, NiCopySteps
  <2>6. QED
    BY <1>1, <1>4, <1>9, <2>1, <2>3, <2>4, <2>5, NiStepOf
<1>10. ASSUME NEW s \in NiRestoring, NEW k, k # r.original, NiCopied(n, r.original), NiCopied(s, k)
       PROVE  s # n
  BY <1>2, <1>10 DEF NiTypeOK, NiCopied
<1>11. CASE NiDropsCopy(p)
  <2>1. NiSpared(r.original) /\ NiCopied(n, r.original) /\ r.pc \in NiCopySteps
    BY <1>2, <1>11 DEF NiDropsCopy, NiWhere, NiRestoresWell, NiCopySteps
  <2>2. niOwed' = niOwed \ {r.original} /\ NiPutsCopy(p, Absent) /\ NiGoto(p, "end sync")
    BY <1>11 DEF NiDropsCopy
  <2>3. \A k \in niOwed' : \E s \in NiRestoring \ {n} : NiCopied(s, k)
    BY <2>1, <2>2, <1>10 DEF NiSpared
  <2>4. QED
    BY <2>1, <2>2, <2>3, <1>9
<1>12. CASE NiRollBackDrops(p)
  <2>1. /\ NiSpared(r.original) /\ NiCopied(n, r.original) /\ r.pc \in NiCopySteps
        /\ r.original \in niOwed => niDir.file = r.original
        /\ niDurable = {niDir}
    BY <1>2, <1>12 DEF NiRollBackDrops, NiWhere, NiRestoresWell, NiCopySteps
  <2>2. niOwed' = niOwed /\ NiPutsCopy(p, Absent) /\ NiGoto(p, "end sync")
    BY <1>12 DEF NiRollBackDrops, NiUnchanged
  <2>3. \A k \in niOwed' : NiFiled(k) \/ \E s \in NiRestoring \ {n} : NiCopied(s, k)
    <3>1. SUFFICES ASSUME NEW k \in niOwed PROVE NiFiled(k) \/ \E s \in NiRestoring \ {n} : NiCopied(s, k)
      BY <2>2
    <3>2. CASE k = r.original
      BY <2>1, <3>2 DEF NiFiled
    <3>3. CASE k # r.original
      BY <2>1, <3>3, <1>10 DEF NiSpared
    <3>4. QED
      BY <3>2, <3>3
  <2>4. QED
    BY <2>1, <2>2, <2>3, <1>9
<1>13. QED
  BY <1>8, <1>11, <1>12

-----------------------------------------------------------------------------
(* The power fails: one directory is left, in which everything kept still is,
   and every process is gone.                                              *)
LEMMA NiPowerLossKeeps == ASSUME NiInv, NiPowerLoss PROVE NiInv'
<1>1. /\ niDir' \in niDurable /\ niDurable' = {niDir'} /\ niLock' = Nobody
      /\ niProc' = [p \in NiProcs |-> NiDone]
      /\ UNCHANGED <<niBackup, niMade, niOwed, niRestores, niEdits>>
  BY DEF NiPowerLoss, NiUnchanged
<1>2. NiDone \in NiRecords /\ NiDone.pc = "idle"
  BY NiDoneRecord DEF NiDone
<1>3. NiTypeOK'
  BY <1>1, <1>2 DEF NiInv, NiTypeOK, NiRecords
<1>4. NiAllKept'
  BY <1>1 DEF NiInv, NiAllKept, NiFiled, NiCopied
<1>5. \A r \in NiRestoring : r > niRestores' => NiCopied(r, Absent)'
  BY <1>1 DEF NiInv, NiCopied
<1>6. ASSUME NEW p \in NiProcs PROVE NiWhere(niProc[p])'
  <2>1. niProc'[p] = NiDone /\ niProc'[p].pc = "idle"
    BY <1>1, <1>2
  <2>2. QED
    BY <2>1 DEF NiWhere, NiLoading, NiPreserving, NiRestoresWell, NiCopySteps
<1>7. QED
  BY <1>3, <1>4, <1>5, <1>6 DEF NiInv

(* Another writer takes the file, and gives up what was in it; the copies of
   other identities are where they were.                                   *)
LEMMA NiEditedKeeps == ASSUME NiInv, NiEdited PROVE NiInv'
<1>1. PICK c \in Absent..niMade : niDir' = [niDir EXCEPT !.file = c]
  BY DEF NiEdited
<1>2. /\ niDurable' = {niDir'} /\ niOwed' = niOwed \ {niDir.file}
      /\ niEdits < NiEditsMax /\ niEdits' = niEdits + 1
      /\ UNCHANGED <<niBackup, niLock, niProc, niMade, niRestores>>
  BY DEF NiEdited
<1>3. niDir \in niDurable /\ niDir \in NiDirs /\ niMade \in 1..NiKeys /\ niEdits \in 0..NiEditsMax
  BY DEF NiInv, NiTypeOK
<1>4. c \in NiContent
  BY <1>3, IdentityStoreAssumption DEF NiContent, Absent
<1>5. niDir' \in NiDirs /\ niDir'.safety = niDir.safety
  BY <1>1, <1>3, <1>4 DEF NiDirs
<1>6. niEdits' \in 0..NiEditsMax /\ niEdits' # 0
  BY <1>2, <1>3, IdentityStoreAssumption
<1>7. NiTypeOK'
  BY <1>2, <1>5, <1>6 DEF NiInv, NiTypeOK
<1>8. \A r, k : NiCopied(r, k) => NiCopied(r, k)'
  BY <1>2, <1>3, <1>5 DEF NiCopied
<1>9. \A x : NiSpared(x) => NiSpared(x)'
  BY <1>2, <1>8 DEF NiSpared
<1>10. NiAllKept'
  <2>1. ASSUME NEW k \in niOwed' PROVE \E r \in NiRestoring : NiCopied(r, k)
    BY <1>2, <1>3, <2>1 DEF NiInv, NiAllKept, NiFiled
  <2>2. QED
    BY <2>1, <1>8 DEF NiAllKept
<1>11. \A r \in NiRestoring : r > niRestores' => NiCopied(r, Absent)'
  BY <1>2, <1>8 DEF NiInv
<1>12. ASSUME NEW p \in NiProcs PROVE NiWhere(niProc[p])'
  <2>1. NiWhere(niProc[p]) /\ niProc'[p] = niProc[p]
    BY <1>2 DEF NiInv
  <2>2. NiLoading(niProc[p])'
    BY <2>1, <1>2, <1>9 DEF NiWhere, NiLoading
  <2>3. NiPreserving(niProc[p])'
    BY <1>6 DEF NiPreserving
  <2>4. NiRestoresWell(niProc[p])'
    BY <2>1, <1>2, <1>3, <1>5, <1>8, <1>9 DEF NiWhere, NiRestoresWell
  <2>5. QED
    BY <2>2, <2>3, <2>4 DEF NiWhere
<1>13. QED
  BY <1>7, <1>10, <1>11, <1>12 DEF NiInv

(* No step disturbs the invariant. *)
LEMMA NiStepKeeps == NiInv /\ [NiNext]_niVars => NiInv'
<1>1. SUFFICES ASSUME NiInv, [NiNext]_niVars PROVE NiInv'
  OBVIOUS
<1>2. ASSUME NEW p \in NiProcs, NiLoadStep(p) PROVE NiInv'
  BY <1>1, <1>2, NiReadSteps, NiCallSteps, NiFileSteps, NiSyncSteps DEF NiLoadStep
<1>3. ASSUME NEW p \in NiProcs, NiRestoreStep(p) PROVE NiInv'
  BY <1>1, <1>3, NiReadSteps, NiFileSteps, NiCopiesKeep, NiSyncSteps DEF NiRestoreStep
<1>4. ASSUME NEW p \in NiProcs, NiSyncPoint(p) \/ NiFails(p) \/ NiFailsLate(p) \/ NiKilled(p)
      PROVE  NiInv'
  BY <1>1, <1>4, NiReadSteps, NiCallSteps, NiSyncSteps
<1>5. ASSUME NiPowerLoss \/ NiEdited PROVE NiInv'
  BY <1>1, <1>5, NiPowerLossKeeps, NiEditedKeeps
<1>6. CASE UNCHANGED niVars
  <2>1. UNCHANGED <<niDir, niDurable, niBackup, niLock, niProc, niMade, niOwed, niRestores, niEdits>>
    BY <1>6 DEF niVars
  <2>2. NiTypeOK'
    BY <1>1, <2>1 DEF NiInv, NiTypeOK
  <2>3. NiAllKept' /\ \A r \in NiRestoring : r > niRestores' => NiCopied(r, Absent)'
    BY <1>1, <2>1 DEF NiInv, NiAllKept, NiFiled, NiCopied
  <2>4. ASSUME NEW p \in NiProcs PROVE NiWhere(niProc[p])'
    <3>1. NiLoading(niProc[p])' /\ NiPreserving(niProc[p])'
      BY <1>1, <2>1 DEF NiInv, NiWhere, NiLoading, NiPreserving, NiSpared, NiCopied
    <3>2. NiRestoresWell(niProc[p])'
      BY <1>1, <2>1 DEF NiInv, NiWhere, NiRestoresWell, NiSpared, NiCopied
    <3>3. QED
      BY <3>1, <3>2 DEF NiWhere
  <2>5. QED
    BY <2>2, <2>3, <2>4 DEF NiInv
<1>7. QED
  BY <1>1, <1>2, <1>3, <1>4, <1>5, <1>6 DEF NiNext

-----------------------------------------------------------------------------
(* The off-grid mode.  What was answered is everywhere and nobody changes it;
   a call that no other overlaps finds what it wrote.                      *)

CfRecords == [pc : {"idle", "config", "probe", "answer"}, value : Mode,
              persisted : BOOLEAN, alone : BOOLEAN]

CfHeld ==
    cfTold # Nothing =>
        /\ CfHasPath /\ cfDisk = cfTold
        /\ \A c \in CfCalls : cfCall[c].pc = "idle"
        /\ cfUp = "up" => cfMemory = cfTold /\ cfProbe = cfTold

CfOne(c) ==
    /\ cfCall[c].pc # "idle" => cfUp = "up"
    /\ cfCall[c].pc = "config" => ~ cfCall[c].persisted
    /\ cfCall[c].pc # "idle" /\ cfCall[c].alone =>
           \A o \in CfCalls \ {c} : cfCall[o].pc = "idle"
    /\ cfCall[c].pc \in {"probe", "answer"} /\ cfCall[c].alone /\ cfCall[c].persisted =>
           CfHasPath /\ cfDisk = cfCall[c].value /\ cfMemory = cfCall[c].value
    /\ cfCall[c].pc = "answer" /\ cfCall[c].alone => cfProbe = cfCall[c].value

CfInv == CfTypeOK /\ CfHeld /\ \A c \in CfCalls : CfOne(c)

(* No call is under way at the start, and nothing was answered. *)
LEMMA CfInitInv == CfInit => CfInv
<1>1. SUFFICES ASSUME CfInit PROVE CfInv
  OBVIOUS
<1>2. CfIdle \in CfRecords /\ CfIdle.pc = "idle"
  BY DEF CfIdle, CfRecords, Mode
<1>3. cfCall \in [CfCalls -> CfRecords] /\ \A c \in CfCalls : cfCall[c].pc = "idle"
  BY <1>1, <1>2 DEF CfInit
<1>4. cfAsked \in 0..CfCallsMax
  BY <1>1, IdentityStoreAssumption DEF CfInit
<1>5. CfTypeOK
  BY <1>1, <1>3, <1>4 DEF CfInit, CfTypeOK, CfRecords
<1>6. CfHeld /\ \A c \in CfCalls : CfOne(c)
  BY <1>1, <1>3 DEF CfInit, CfHeld, CfOne
<1>7. QED
  BY <1>5, <1>6 DEF CfInv

(* A start reads what was answered from the runtime override. *)
LEMMA CfStartsKeeps == ASSUME CfInv, CfStarts PROVE CfInv'
<1>1. /\ cfUp = "down" /\ UNCHANGED <<cfDisk, cfConfigured, cfCall, cfTold, cfAsked>>
      /\ cfReason' = "not_attempted"
  BY DEF CfStarts
<1>2. \A c \in CfCalls : cfCall[c].pc = "idle"
  BY <1>1 DEF CfInv, CfOne
<1>3. CfTypeOK'
  BY <1>1 DEF CfInv, CfTypeOK, CfStarts
<1>4. CfHeld'
  BY <1>1, <1>2 DEF CfInv, CfTypeOK, CfHeld, CfStarts, Mode, NoOverride, Invalid, Nothing
<1>5. \A c \in CfCalls : CfOne(c)'
  BY <1>1, <1>2 DEF CfOne
<1>6. QED
  BY <1>3, <1>4, <1>5 DEF CfInv

(* An end leaves the file, and no call. *)
LEMMA CfEndsKeeps == ASSUME CfInv, CfEnds PROVE CfInv'
<1>1. /\ cfUp' = "down" /\ cfCall' = [c \in CfCalls |-> CfIdle] /\ cfConfigured' \in Mode
      /\ UNCHANGED <<cfMemory, cfDisk, cfProbe, cfReason, cfTold, cfAsked>>
  BY DEF CfEnds
<1>2. CfIdle \in CfRecords /\ CfIdle.pc = "idle"
  BY DEF CfIdle, CfRecords, Mode
<1>3. CfTypeOK'
  BY <1>1, <1>2 DEF CfInv, CfTypeOK, CfRecords
<1>4. CfHeld'
  BY <1>1, <1>2 DEF CfInv, CfHeld
<1>5. \A c \in CfCalls : CfOne(c)'
  BY <1>1, <1>2 DEF CfOne
<1>6. QED
  BY <1>3, <1>4, <1>5 DEF CfInv

(* Asking ends the claim of every call under way to be alone. *)
LEMMA CfAsksKeeps ==
    ASSUME CfInv, NEW c \in CfCalls, NEW v \in Mode, CfAsks(c, v) PROVE CfInv'
<1>1. /\ cfUp = "up" /\ cfCall[c].pc = "idle" /\ cfAsked < CfCallsMax /\ cfAsked' = cfAsked + 1
      /\ UNCHANGED <<cfMemory, cfDisk, cfConfigured, cfProbe, cfReason, cfUp>>
  BY DEF CfAsks
<1>2. cfAsked' \in 0..CfCallsMax /\ cfCall \in [CfCalls -> CfRecords]
  BY <1>1, IdentityStoreAssumption DEF CfInv, CfTypeOK, CfRecords
<1>3. CASE v = cfProbe
  <2>1. UNCHANGED <<cfCall, cfTold>>
    BY <1>3 DEF CfAsks
  <2>2. QED
    BY <1>1, <1>2, <2>1 DEF CfInv, CfTypeOK, CfHeld, CfOne
<1>4. CASE v # cfProbe
  <2> DEFINE new == [CfIdle EXCEPT !.pc = "config", !.value = v, !.alone = CfAlone(c)]
  <2> DEFINE other(o) == [cfCall[o] EXCEPT !.alone = FALSE]
  <2>1. cfTold' = Nothing /\ cfCall' = [o \in CfCalls |-> IF o = c THEN new ELSE other(o)]
    BY <1>4 DEF CfAsks
  <2>2. /\ new \in CfRecords /\ new.pc = "config" /\ new.persisted = FALSE
        /\ new.alone = CfAlone(c)
    BY DEF CfIdle, CfRecords, CfAlone
  <2>3. \A o \in CfCalls : other(o) \in CfRecords /\ other(o).pc = cfCall[o].pc
                           /\ other(o).alone = FALSE /\ other(o).persisted = cfCall[o].persisted
    BY <1>2 DEF CfRecords
  <2> HIDE DEF new, other
  <2>4. cfCall' \in [CfCalls -> CfRecords] /\ cfCall'[c] = new
        /\ \A o \in CfCalls \ {c} : cfCall'[o] = other(o)
    BY <2>1, <2>2, <2>3
  <2>5. CfTypeOK'
    BY <1>1, <1>2, <2>1, <2>4 DEF CfInv, CfTypeOK, CfRecords
  <2>6. CfHeld'
    BY <2>1 DEF CfHeld
  <2>7. CfOne(c)'
    BY <1>1, <2>2, <2>3, <2>4 DEF CfOne, CfAlone
  <2>8. ASSUME NEW o \in CfCalls \ {c} PROVE CfOne(o)'
    <3>1. /\ cfCall'[o].pc = cfCall[o].pc /\ cfCall'[o].alone = FALSE
          /\ cfCall'[o].persisted = cfCall[o].persisted
      BY <2>3, <2>4
    <3>2. CfOne(o)
      BY DEF CfInv
    <3>3. QED
      BY <1>1, <3>1, <3>2 DEF CfOne
  <2>9. QED
    BY <2>5, <2>6, <2>7, <2>8 DEF CfInv
<1>5. QED
  BY <1>3, <1>4

(* The three steps of a call; the others do not move. *)
LEMMA CfCallKeeps ==
    ASSUME CfInv, NEW c \in CfCalls, CfSetsConfig(c) \/ CfSetsProbe(c) \/ CfAnswers(c)
    PROVE  CfInv'
<1>1. /\ cfCall[c].pc # "idle" /\ cfCall \in [CfCalls -> CfRecords] /\ cfUp = "up"
      /\ UNCHANGED <<cfConfigured, cfUp, cfAsked>>
  BY DEF CfInv, CfTypeOK, CfRecords, CfOne, CfSetsConfig, CfSetsProbe, CfAnswers
<1>2. cfTold = Nothing
  BY <1>1 DEF CfInv, CfHeld
<1>3. \A o \in CfCalls \ {c} : CfOne(o) /\ (cfCall[o].pc # "idle" => ~ cfCall[o].alone)
  BY <1>1 DEF CfInv, CfOne
<1>4. cfCall[c] \in CfRecords /\ CfOne(c)
  BY <1>1 DEF CfInv
<1>5. ASSUME cfCall' \in [CfCalls -> CfRecords], \A o \in CfCalls \ {c} : cfCall'[o] = cfCall[o],
             NEW o \in CfCalls \ {c}
      PROVE  CfOne(o)'
  BY <1>1, <1>3, <1>5 DEF CfOne
<1>6. CASE CfSetsConfig(c)
  <2>1. PICK ok \in BOOLEAN :
            /\ cfCall' = [cfCall EXCEPT ![c].pc = "probe", ![c].persisted = CfHasPath /\ ok]
            /\ IF CfHasPath
               THEN /\ CfWrites(cfCall[c].value, ok)
                    /\ cfReason' = IF ok THEN "persisted" ELSE "write_failed"
               ELSE UNCHANGED cfDisk /\ cfReason' = "no_override_path"
    BY <1>6 DEF CfSetsConfig
  <2>2. cfMemory' = cfCall[c].value /\ UNCHANGED <<cfProbe, cfTold>> /\ cfCall[c].value \in Mode
    BY <1>4, <1>6 DEF CfSetsConfig, CfRecords
  <2>3. /\ cfCall' \in [CfCalls -> CfRecords] /\ \A o \in CfCalls \ {c} : cfCall'[o] = cfCall[o]
        /\ cfCall'[c].pc = "probe" /\ cfCall'[c].persisted = (CfHasPath /\ ok)
        /\ cfCall'[c].value = cfCall[c].value /\ cfCall'[c].alone = cfCall[c].alone
    BY <1>1, <2>1, IdentityStoreAssumption DEF CfRecords
  <2>4. CfTypeOK'
    BY <1>1, <2>1, <2>2, <2>3 DEF CfInv, CfTypeOK, CfRecords, CfWrites
  <2>5. CfHeld'
    BY <1>2, <2>2 DEF CfHeld
  <2>6. CfOne(c)'
    BY <1>1, <1>4, <2>1, <2>2, <2>3 DEF CfOne, CfWrites
  <2>7. QED
    BY <1>5, <2>3, <2>4, <2>5, <2>6 DEF CfInv
<1>7. CASE CfSetsProbe(c)
  <2>1. /\ cfProbe' = cfCall[c].value /\ cfCall' = [cfCall EXCEPT ![c].pc = "answer"]
        /\ cfCall[c].pc = "probe" /\ UNCHANGED <<cfMemory, cfDisk, cfReason, cfTold>>
    BY <1>7 DEF CfSetsProbe
  <2>2. /\ cfCall' \in [CfCalls -> CfRecords] /\ \A o \in CfCalls \ {c} : cfCall'[o] = cfCall[o]
        /\ cfCall'[c].pc = "answer" /\ cfCall'[c].persisted = cfCall[c].persisted
        /\ cfCall'[c].value = cfCall[c].value /\ cfCall'[c].alone = cfCall[c].alone
    BY <1>1, <2>1 DEF CfRecords
  <2>3. CfTypeOK'
    BY <1>1, <1>4, <2>1, <2>2 DEF CfInv, CfTypeOK, CfRecords
  <2>4. CfHeld'
    BY <1>2, <2>1 DEF CfHeld
  <2>5. CfOne(c)'
    BY <1>1, <1>4, <2>1, <2>2 DEF CfOne
  <2>6. QED
    BY <1>5, <2>2, <2>3, <2>4, <2>5 DEF CfInv
<1>8. CASE CfAnswers(c)
  <2>1. /\ cfCall' = [cfCall EXCEPT ![c] = CfIdle] /\ cfCall[c].pc = "answer"
        /\ cfTold' = IF cfCall[c].alone /\ cfCall[c].persisted THEN cfCall[c].value ELSE cfTold
        /\ UNCHANGED <<cfMemory, cfDisk, cfProbe, cfReason>>
    BY <1>8 DEF CfAnswers
  <2>2. CfIdle \in CfRecords /\ CfIdle.pc = "idle" /\ cfCall[c].value \in Mode
    BY <1>4 DEF CfIdle, CfRecords, Mode
  <2>3. /\ cfCall' \in [CfCalls -> CfRecords] /\ \A o \in CfCalls \ {c} : cfCall'[o] = cfCall[o]
        /\ cfCall'[c].pc = "idle"
    BY <1>1, <2>1, <2>2
  <2>4. CfTypeOK'
    BY <1>1, <2>1, <2>2, <2>3 DEF CfInv, CfTypeOK, CfRecords
  <2>5. CfHeld'
    BY <1>1, <1>2, <1>4, <2>1, <2>3 DEF CfHeld, CfOne
  <2>6. CfOne(c)'
    BY <2>3 DEF CfOne
  <2>7. QED
    BY <1>5, <2>3, <2>4, <2>5, <2>6 DEF CfInv
<1>9. QED
  BY <1>6, <1>7, <1>8

(* No step disturbs the invariant of the off-grid mode. *)
LEMMA CfStepKeeps == CfInv /\ [CfNext]_cfVars => CfInv'
<1>1. SUFFICES ASSUME CfInv, [CfNext]_cfVars PROVE CfInv'
  OBVIOUS
<1>2. CASE UNCHANGED cfVars
  BY <1>1, <1>2 DEF cfVars, CfInv, CfTypeOK, CfHeld, CfOne
<1>3. QED
  BY <1>1, <1>2, CfStartsKeeps, CfEndsKeeps, CfAsksKeeps, CfCallKeeps DEF CfNext

(* Whatever is killed, cut off or failing, every identity a node runs with is
   kept where it is found again, nodes share one, corrupt files are put away
   first, and the off-grid mode that was answered holds.                   *)
THEOREM IdentityIsHeld == NiSpec /\ CfSpec => []IdentityHeld
<1>1. NiSpec => []NiInv
  BY NiInitInv, NiStepKeeps, PTL DEF NiSpec
<1>2. CfSpec => []CfInv
  BY CfInitInv, CfStepKeeps, PTL DEF CfSpec
<1>3. NiInv => NiTypeOK /\ IdentityIsKept /\ OneIdentity /\ CorruptIsPreserved
  BY NiInvImplies
<1>4. CfInv => CfTypeOK /\ PersistedModeHolds
  BY DEF CfInv, CfHeld, PersistedModeHolds
<1>5. NiInv /\ CfInv => IdentityHeld
  BY <1>3, <1>4 DEF IdentityHeld
<1>6. QED
  BY <1>1, <1>2, <1>5, PTL

=============================================================================
