----------------------------- MODULE ResetLimiter ----------------------------
(***************************************************************************)
(* PersistentResetLimiter (radio_recovery.py): how often a radio may be    *)
(* reset within a window, over crashes, restarts, reboots, a state file    *)
(* that is corrupted or cannot be written, and a wall clock that is wrong  *)
(* after a reboot (the board has no clock of its own).                     *)
(*                                                                         *)
(* rlNow is real time.  The monotonic clock of a boot starts at zero; the  *)
(* wall clock is real time plus a skew.  A transaction holds the file      *)
(* lock, so it is one step; what it decides is in rlFile and in the memory *)
(* of the process.                                                         *)
(***************************************************************************)
EXTENDS Integers, FiniteSets, FiniteSetsExt, TLC

CONSTANTS
    RlProcs,      \* processes with a limiter on the same file
    RlMax,        \* max_attempts
    RlWindow,     \* window_seconds
    RlTolerance,  \* _CLOCK_SKEW_TOLERANCE
    RlBehind,     \* how far a boot may set the wall clock back
    RlEnd, RlBoots   \* bounds: time and reboots

ASSUME ResetLimiterAssumption ==
    /\ {RlMax, RlWindow} \subseteq Nat \ {0}
    /\ {RlTolerance, RlBehind, RlEnd, RlBoots} \subseteq Nat

VARIABLES
    rlNow, rlSkew, rlBoot, rlBootAt,
    rlFile,     \* [ok, recs, quar]; ok is FALSE for a file that does not parse
    rlMem,      \* of each process: [up, quar, discard]
    rlFired,    \* history: how many resets were granted at a time
    rlStepped   \* history: the wall clock was set forward

rlVars == <<rlNow, rlSkew, rlBoot, rlBootAt, rlFile, rlMem, rlFired, rlStepped>>
rlClock == <<rlNow, rlSkew, rlBoot, rlBootAt, rlStepped>>

NoQuar == [reason |-> "none", wall |-> 0, mono |-> 0, boot |-> 0]
Down == [up |-> FALSE, quar |-> NoQuar, discard |-> FALSE]

RlInit ==
    /\ rlNow = 0 /\ rlSkew = 0 /\ rlBoot = 1 /\ rlBootAt = 0 /\ rlStepped = FALSE
    /\ rlFile = [ok |-> TRUE, recs |-> {}, quar |-> NoQuar]
    /\ rlMem = [p \in RlProcs |-> Down]
    /\ rlFired = [t \in 0..RlEnd |-> 0]

Wall == rlNow + rlSkew
Mono == rlNow - rlBootAt

Stamp == [wall |-> Wall, mono |-> Mono, boot |-> rlBoot]

(* The age of a record or quarantine: by the monotonic clock within a boot,
   by the wall clock across boots                                          *)
Age(r) == IF r.boot = rlBoot THEN Mono - r.mono ELSE Wall - r.wall

(* _quarantine_remaining_locked *)
Remaining(q) ==
    CASE q.reason = "none" -> 0
      [] Age(q) < -RlTolerance -> RlWindow
      [] OTHER -> Max({0, RlWindow - Max({0, Age(q)})})

(* _recent_locked *)
RecentThisBoot(recs) == {r \in recs : r.boot = rlBoot /\ Age(r) < RlWindow}

Recent(recs) == {r \in recs : -RlTolerance <= Age(r) /\ Age(r) < RlWindow}

Uncertain(recs, discard) == ~discard /\ \E r \in recs : Age(r) < -RlTolerance

(* _fail_closed_locked *)
FailClosed(why) == [reason |-> why] @@ Stamp

(* _reload_for_transaction_locked: the state on disk, with the stricter of
   its quarantine and the local one, and a check of the clock              *)
Loaded(p) ==
    LET local == rlMem[p].quar
        lapsed(q) == q.reason = "clock_uncertain" /\ Remaining(q) = 0
        kept == CASE Remaining(local) > Remaining(rlFile.quar) -> local
                  [] Remaining(rlFile.quar) > 0 -> rlFile.quar
                  [] OTHER -> NoQuar
        discard == rlMem[p].discard \/ lapsed(rlFile.quar) IN
    IF ~rlFile.ok
    THEN [recs |-> {}, quar |-> FailClosed("invalid_state"), discard |-> FALSE]
    ELSE [recs |-> rlFile.recs,
          quar |-> IF kept = NoQuar /\ Uncertain(rlFile.recs, discard)
                   THEN FailClosed("clock_uncertain") ELSE kept,
          discard |-> discard]

(* _save_locked replaces the file; an error may come before or after that. *)
Save(p, recs, quar, discard, granted) ==
    \/ /\ rlFile' = [ok |-> TRUE, recs |-> recs, quar |-> quar]
       /\ rlMem' = [rlMem EXCEPT ![p] = [up |-> TRUE, quar |-> quar, discard |-> discard]]
       /\ rlFired' = IF granted THEN [rlFired EXCEPT ![rlNow] = @ + 1] ELSE rlFired
    \/ /\ rlFile' \in {rlFile, [ok |-> TRUE, recs |-> recs, quar |-> quar]}
       /\ rlMem' = [rlMem EXCEPT ![p] = [up |-> TRUE, quar |-> FailClosed("persistence_error"),
                                         discard |-> discard]]
       /\ UNCHANGED rlFired

(* _load of a new limiter; a quarantine it raises is persisted at once *)
RlStarts(p) ==
    /\ ~rlMem[p].up
    /\ LET s == Loaded(p) IN
       IF s.quar # rlFile.quar /\ s.quar # NoQuar
       THEN Save(p, s.recs, s.quar, s.discard, FALSE)
       ELSE /\ rlMem' = [rlMem EXCEPT ![p] = [up |-> TRUE, quar |-> s.quar, discard |-> s.discard]]
            /\ UNCHANGED <<rlFile, rlFired>>
    /\ UNCHANGED rlClock

(* reserve: refused in quarantine and at the limit, recorded before the reset *)
RlReserve(p) ==
    /\ rlMem[p].up
    /\ LET s == Loaded(p) IN
       CASE s.quar # NoQuar -> Save(p, s.recs, s.quar, s.discard, FALSE)
         [] s.quar = NoQuar /\ Cardinality(Recent(s.recs)) >= RlMax ->
              /\ rlMem' = [rlMem EXCEPT ![p] = [up |-> TRUE, quar |-> NoQuar, discard |-> s.discard]]
              /\ UNCHANGED <<rlFile, rlFired>>
         [] OTHER -> Save(p, Recent(s.recs) \cup {[id |-> 1 + Max({0} \cup {r.id : r \in s.recs})] @@ Stamp}, NoQuar,
                          s.discard, TRUE)
    /\ UNCHANGED rlClock

(* set_metadata rewrites the file as well. *)
RlMetadata(p) ==
    /\ rlMem[p].up
    /\ LET s == Loaded(p) IN Save(p, s.recs, s.quar, s.discard, FALSE)
    /\ UNCHANGED rlClock

(* The process ends and starts again; its memory is lost. *)
RlCrash(p) ==
    /\ rlMem[p].up
    /\ rlMem' = [rlMem EXCEPT ![p] = Down]
    /\ UNCHANGED <<rlClock, rlFile, rlFired>>

(* The board reboots: no process survives, the monotonic clock starts again
   and the wall clock may be set back.                                     *)
RlReboot ==
    /\ rlBoot < RlBoots
    /\ rlBoot' = rlBoot + 1 /\ rlBootAt' = rlNow
    /\ rlSkew' \in {rlSkew, -RlBehind}
    /\ rlMem' = [p \in RlProcs |-> Down]
    /\ UNCHANGED <<rlNow, rlFile, rlFired, rlStepped>>

(* The network sets the wall clock right. *)
RlClockSet ==
    /\ rlSkew < 0 /\ rlSkew' = 0 /\ rlStepped' = TRUE
    /\ UNCHANGED <<rlNow, rlBoot, rlBootAt, rlFile, rlMem, rlFired>>

RlTick ==
    /\ rlNow < RlEnd /\ rlNow' = rlNow + 1
    /\ UNCHANGED <<rlSkew, rlBoot, rlBootAt, rlFile, rlMem, rlFired, rlStepped>>

(* The file is damaged. *)
RlCorrupt ==
    /\ rlFile.ok /\ rlFile' = [ok |-> FALSE, recs |-> {}, quar |-> NoQuar]
    /\ UNCHANGED <<rlClock, rlMem, rlFired>>

RlNext ==
    \/ RlReboot \/ RlClockSet \/ RlTick \/ RlCorrupt
    \/ \E p \in RlProcs : RlStarts(p) \/ RlReserve(p) \/ RlMetadata(p) \/ RlCrash(p)

RlSpec == RlInit /\ [][RlNext]_rlVars

-----------------------------------------------------------------------------

RlTypeOK ==
    /\ rlNow \in 0..RlEnd /\ rlSkew \in {0, -RlBehind} /\ rlBoot \in 1..RlBoots
    /\ rlFile.ok \in BOOLEAN /\ Cardinality(rlFile.recs) <= RlMax
    /\ \A p \in RlProcs : rlMem[p].up \in BOOLEAN /\ (~rlMem[p].up => rlMem[p] = Down)

(* "Radio reset limits must survive both service restarts and host reboots":
   in every window of real time at most max_attempts resets are granted, as
   long as the wall clock is never set forward.                            *)
RollingLimit ==
    ~rlStepped =>
        MapThenSumSet(LAMBDA t : rlFired[t], {t \in 0..rlNow : rlNow - t < RlWindow}) <= RlMax
=============================================================================
