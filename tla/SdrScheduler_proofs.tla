-------------------------- MODULE SdrScheduler_proofs --------------------------
(***************************************************************************)
(* Proofs about the SDR scheduler, for any plugins, priorities, windows,   *)
(* programs outside it, and any tokens.                                    *)
(***************************************************************************)
EXTENDS SdrScheduler, WellFoundedInduction, TLAPS

-----------------------------------------------------------------------------
(* Sequences without repetition, and least positions *)

Once(s) == \A i, j \in DOMAIN s : s[i] = s[j] => i = j
Elems(s) == {s[i] : i \in DOMAIN s}

(* A set of naturals that is not empty has a least member. *)
LEMMA LeastOf ==
    ASSUME NEW S \in SUBSET Nat, S # {}
    PROVE  \E m \in S : \A k \in S : m <= k
<1> DEFINE R == {ss \in Nat \X Nat : ss[1] < ss[2]}
<1>1. IsWellFoundedOn(R, Nat)
  BY NatLessThanWellFounded DEF OpToRel
<1>2. PICK m \in S : \A k \in S : ~ (<<k, m>> \in R)
  <2> HIDE DEF R
  <2>1. QED
    BY <1>1, WFMin
<1>3. ASSUME NEW k \in S PROVE m <= k
  <2>1. ~ (k < m)
    <3>1. SUFFICES ASSUME k < m PROVE <<k, m>> \in R
      BY <1>2
    <3>2. QED
      BY <3>1
  <2>2. QED
    BY <2>1
<1>4. QED
  BY <1>3

(* list.remove takes one occurrence, and keeps the order of the others. *)
LEMMA WithoutFacts ==
    ASSUME NEW S, NEW s \in Seq(S), NEW e
    PROVE  /\ Without(s, e) \in Seq(S)
           /\ Once(s) => /\ Once(Without(s, e))
                         /\ Elems(Without(s, e)) = Elems(s) \ {e}
           /\ \A i, j \in DOMAIN Without(s, e) : i < j =>
                 \E a, b \in DOMAIN s : a < b /\ s[a] = Without(s, e)[i] /\ s[b] = Without(s, e)[j]
           /\ Once(s) => \A a, b \in DOMAIN s : a < b /\ s[a] # e /\ s[b] # e =>
                 \E i, j \in DOMAIN Without(s, e) : i < j /\ s[a] = Without(s, e)[i] /\ s[b] = Without(s, e)[j]
<1>1. CASE \A i \in DOMAIN s : s[i] # e
  BY <1>1 DEF Without, Elems
<1>2. CASE \E i \in DOMAIN s : s[i] = e
  <2>1. PICK i \in DOMAIN s : s[i] = e /\ Without(s, e) = SubSeq(s, 1, i - 1) \o SubSeq(s, i + 1, Len(s))
    BY <1>2 DEF Without
  <2> DEFINE t == Without(s, e)
  <2>2. /\ t \in Seq(S) /\ Len(t) = Len(s) - 1
        /\ \A k \in 1 .. Len(t) : t[k] = IF k < i THEN s[k] ELSE s[k + 1]
    <3> DEFINE p == SubSeq(s, 1, i - 1)
               q == SubSeq(s, i + 1, Len(s))
    <3>1. i \in 1 .. Len(s) /\ Len(s) \in Nat
      BY <2>1
    <3>2. p \in Seq(S) /\ Len(p) = i - 1 /\ \A k \in 1 .. i - 1 : p[k] = s[k]
      BY <3>1
    <3>3. q \in Seq(S) /\ Len(q) = Len(s) - i /\ \A k \in 1 .. Len(s) - i : q[k] = s[k + i]
      BY <3>1
    <3>4. t = p \o q
      BY <2>1
    <3> HIDE DEF p, q, t
    <3>5. QED
      BY <3>1, <3>2, <3>3, <3>4
  <2> HIDE DEF t
  <2>a. i \in 1..Len(s) /\ DOMAIN t = 1 .. Len(t) /\ DOMAIN s = 1..Len(s) /\ Len(s) \in Nat
    BY <2>2
  <2>3. Once(s) => Once(t)
    BY <2>2, <2>a, SMTT(20) DEF Once
  <2>4. ASSUME Once(s) PROVE {t[k] : k \in DOMAIN t} = {s[k] : k \in DOMAIN s} \ {e}
    <3>1. ASSUME NEW k \in DOMAIN t PROVE t[k] \in {s[m] : m \in DOMAIN s} \ {e}
      <4> DEFINE m == IF k < i THEN k ELSE k + 1
      <4>1. m \in DOMAIN s /\ m # i /\ t[k] = s[m]
        BY <2>2, <2>a
      <4>2. s[m] # s[i]
        BY <4>1, <2>4 DEF Once
      <4>3. QED
        BY <4>1, <4>2, <2>1
    <3>2. \A m \in DOMAIN s : s[m] # e => \E k \in DOMAIN t : t[k] = s[m]
      <4>1. TAKE m \in DOMAIN s
      <4>2. CASE m < i
        <5>1. t[m] = s[m] /\ m \in DOMAIN t
          BY <4>2, <2>2, <2>a
        <5>2. QED
          BY <5>1
      <4>3. CASE m > i
        <5>1. t[m - 1] = s[m] /\ m - 1 \in DOMAIN t
          BY <4>3, <2>2, <2>a
        <5>2. QED
          BY <5>1
      <4>4. QED
        BY <4>2, <4>3, <2>1, <2>a
    <3>3. QED
      BY <3>1, <3>2
  <2>5. \A k, m \in DOMAIN t : k < m => \E a, b \in DOMAIN s : a < b /\ s[a] = t[k] /\ s[b] = t[m]
    <3>1. SUFFICES ASSUME NEW k \in DOMAIN t, NEW m \in DOMAIN t, k < m
                   PROVE  \E a, b \in DOMAIN s : a < b /\ s[a] = t[k] /\ s[b] = t[m]
      OBVIOUS
    <3> DEFINE a == IF k < i THEN k ELSE k + 1
               b == IF m < i THEN m ELSE m + 1
    <3>2. a \in DOMAIN s /\ b \in DOMAIN s /\ a < b /\ s[a] = t[k] /\ s[b] = t[m]
      BY <3>1, <2>2, <2>a
    <3>3. QED
      BY <3>2
  <2>6. Once(s) => \A a, b \in DOMAIN s : a < b /\ s[a] # e /\ s[b] # e =>
                 \E k, m \in DOMAIN t : k < m /\ s[a] = t[k] /\ s[b] = t[m]
    <3>1. SUFFICES ASSUME Once(s), NEW a \in DOMAIN s, NEW b \in DOMAIN s, a < b, s[a] # e, s[b] # e
                   PROVE  \E k, m \in DOMAIN t : k < m /\ s[a] = t[k] /\ s[b] = t[m]
      OBVIOUS
    <3> DEFINE k == IF a < i THEN a ELSE a - 1
               m == IF b < i THEN b ELSE b - 1
    <3>2. a # i /\ b # i
      BY <3>1, <2>1
    <3>3. k \in DOMAIN t /\ m \in DOMAIN t /\ k < m /\ s[a] = t[k] /\ s[b] = t[m]
      BY <3>1, <3>2, <2>2, <2>a
    <3>4. QED
      BY <3>3
  <2>7. QED
    BY <2>2, <2>3, <2>4, <2>5, <2>6 DEF t, Elems
<1>3. QED
  BY <1>1, <1>2

-----------------------------------------------------------------------------
(* The inductive invariant.  The scheduler's locals are what it read before it
   let the lock go; the parts say which of that is still so.                 *)

(* The scheduler thread is acquiring, or giving a dongle back. *)
Acquiring == {"claim", "claimed", "stalerel", "cb", "launch", "cbback", "lsuspend", "lretry", "lrelease", "lback"}
Yielding == {"ycb", "ykill", "yrelease"}
Preflight == {"pfclaim", "pfback"}

SchedPlaces == {"idle", "eval", "yback"} \cup Preflight \cup Acquiring \cup Yielding
AppPlaces == {"up", "shutdown", "down"} \cup Yielding
ControlPlaces == {"new", "run", "unregister", "yback", "kill", "killwait", "done"} \cup Yielding

SdrTypes ==
    /\ slots \in Seq(Regs) /\ bgOrder \in Seq(Callers) /\ bgIndex \in Nat
    /\ {holder, lockedBy, relockAfter} \subseteq Callers \cup {None}
    /\ gen \in Gens \cup {0}
    /\ claimed \subseteq [id : Ids, caller : Callers \cup Outsiders]

Flags == running \in BOOLEAN /\ sliceOver \in BOOLEAN /\ present \in BOOLEAN

SlotTypes ==
    slot \in [Regs -> [active : BOOLEAN, lease : Ids \cup {0}, relReq : BOOLEAN,
                       susp : BOOLEAN, alloc : Gens \cup {0}, win : {"none", "future", "open"}]]

PlugTypes ==
    plug \in [Regs -> [act : BOOLEAN, dact : BOOLEAN, dgen : Gens \cup {NoGen, 0},
                       grp : BOOLEAN, open : BOOLEAN, budget : 0 .. MaxRestarts]]

MonTypes ==
    mon \in [Regs -> [pc : {"idle", "hook", "suspend", "released", "exhausted", "lease",
                            "lastlease", "retry", "exhaust"},
                      gen : Gens \cup {NoGen, 0}, lease : Ids \cup {0},
                      reg : Regs \cup {None}, late : BOOLEAN]]

SchedLocals ==
    [c : Callers \cup {None}, r : Regs \cup {None}, gen : Gens \cup {0}, lease : Ids \cup {0},
     res : {"ok", "absent", "busy"}, hold : Callers \cup Regs \cup {None},
     lock : Callers \cup {None}, then : {"idle", "bg", "acquire"}]

LocalTypes ==
    /\ worker \in [Regs -> SUBSET {"sleep", "resume"}]
    /\ sv \in SchedLocals
    /\ yv \in [Threads -> [r : Regs \cup {None}, lease : Ids \cup {0}]]

Places ==
    /\ pc \in [Threads -> SchedPlaces \cup AppPlaces \cup ControlPlaces]
    /\ pc[Sched] \in SchedPlaces
    /\ pc[App] \in AppPlaces
    /\ \A r \in Regs : pc[r] \in ControlPlaces

LocalsKnown ==
    /\ pc[Sched] \in Preflight \cup Acquiring => sv.r \in Regs /\ sv.c = Owner[sv.r]
    /\ pc[Sched] \in Yielding \cup {"yback"} /\ sv.then = "acquire" => sv.c \in Callers
    /\ \A t \in Threads : pc[t] \in Yielding => yv[t].r \in Regs
    /\ \A t \in Threads : pc[t] \notin Yielding => yv[t].lease = 0
    /\ pc[Sched] \in {"idle", "eval", "pfclaim", "claim"} \cup Yielding \cup {"yback"} => sv.lease = 0

Registration ==
    /\ Once(slots)
    /\ \A r \in Regs : r \in Registered <=> pc[r] \in {"run", "unregister", "yback"} \cup Yielding
    /\ \A q, r \in Registered : Owner[q] = Owner[r] => q = r

RotationExact ==
    /\ Once(bgOrder)
    /\ BgOrderExact

NobodyHolds ==
    /\ pc[Sched] \in Acquiring \cup Yielding \cup {"yback"} => holder = None
    /\ pc[Sched] \in Preflight => /\ holder \in {sv.hold, None} /\ sv.hold \notin {sv.c, None}
                                  /\ sv.lock = sv.hold => Override /\ Prio[sv.c] = 0
    /\ ~ running => \A r \in Registered : ~ slot[r].active
    /\ pc[App] \in Yielding \cup {"down"} <=> ~ running

LeasesApart ==
    /\ \A r \in Registered : slot[r].active =>
          /\ slot[r].lease # sv.lease
          /\ \A t \in Threads : slot[r].lease # yv[t].lease
          /\ \A q \in Regs : slot[r].lease # mon[q].lease /\ (q # r => slot[r].lease # slot[q].lease)
    /\ sv.lease # 0 =>
          /\ \A t \in Threads : sv.lease # yv[t].lease
          /\ \A q \in Regs : sv.lease # mon[q].lease /\ sv.lease # slot[q].lease
    /\ \A r \in Regs : pc[r] \in Yielding => yv[r].lease # 0

ClaimInFlight ==
    /\ pc[Sched] \in {"cb", "launch", "cbback"} \/ (pc[Sched] = "claimed" /\ sv.res = "ok") =>
          /\ sv.lease # 0
          /\ running => [id |-> sv.lease, caller |-> sv.c] \in claimed

FreshSlot == \A r \in Regs : pc[r] = "new" => ~ slot[r].active
SuspendedIsStale == pc[Sched] \in Acquiring /\ slot[sv.r].susp => gen # sv.gen

SdrInv ==
    /\ SdrTypes /\ SlotTypes /\ PlugTypes /\ MonTypes /\ LocalTypes /\ Places /\ LocalsKnown
    /\ Registration /\ RotationExact /\ NobodyHolds /\ LeasesApart /\ ClaimInFlight
    /\ FreshSlot /\ SuspendedIsStale /\ ActiveSlotHasClaim /\ SuspendedIsIdle

-----------------------------------------------------------------------------
(* Operators of the model *)

LEMMA SlotOfFacts ==
    ASSUME SdrTypes, NEW c
    PROVE  /\ SlotOf(c) = None \/ (SlotOf(c) \in Registered /\ SlotOf(c) \in Regs /\ Owner[SlotOf(c)] = c)
           /\ SlotOf(c) = None <=> \A r \in Registered : Owner[r] # c
           /\ Registered \subseteq Regs /\ None \notin Regs
           /\ Registration => \A r \in Registered : SlotOf(Owner[r]) = r
<1>1. Registered \subseteq Regs
  BY DEF SdrTypes, Registered
<1>2. None \notin Regs
  BY NoneAssumption
<1>3. CASE \E r \in Registered : Owner[r] = c
  BY <1>1, <1>2, <1>3 DEF SlotOf, Registration
<1>4. CASE ~ \E r \in Registered : Owner[r] = c
  BY <1>1, <1>2, <1>4 DEF SlotOf, Registration
<1>5. Registration => \A r \in Registered : SlotOf(Owner[r]) = r
  BY <1>1, <1>2 DEF SlotOf, Registration
<1>6. QED
  BY <1>1, <1>2, <1>3, <1>4, <1>5

LEMMA FreshFacts ==
    ASSUME NEW i, FreshId(i)
    PROVE  /\ i \in Ids /\ i # sv.lease
           /\ \A t \in Threads : i # yv[t].lease
           /\ \A r \in Regs : i # slot[r].lease /\ i # mon[r].lease
           /\ \A k \in claimed : k.id # i
<1>1. i \in Ids /\ i \notin IdsUsed
  BY DEF FreshId
<1>2. i # sv.lease
  BY <1>1 DEF IdsUsed
<1>3. ASSUME NEW t \in Threads PROVE i # yv[t].lease
  BY <1>1 DEF IdsUsed
<1>4. ASSUME NEW r \in Regs PROVE i # slot[r].lease /\ i # mon[r].lease
  <2>1. slot[r].lease \in IdsUsed /\ mon[r].lease \in IdsUsed
    BY DEF IdsUsed
  <2>2. QED
    BY <1>1, <2>1
<1>5. ASSUME NEW k \in claimed PROVE k.id # i
  <2>1. k.id \in {c.id : c \in claimed}
    OBVIOUS
  <2>2. {c.id : c \in claimed} \subseteq IdsUsed
    BY Zenon DEF IdsUsed
  <2>3. QED
    BY <1>1, <2>1, <2>2
<1>6. QED
  BY <1>1, <1>2, <1>3, <1>4, <1>5

LEMMA BumpFacts == BumpGen => gen' \in Gens /\ gen' # gen /\ gen' # sv.gen
BY DEF BumpGen, Bump, GensUsed

(* Positions wrap. *)
LEMMA ModFacts == \A a \in Nat, b \in Nat \ {0} : a % b \in Nat /\ a % b < b
OBVIOUS

(* What _pick_background may name, and what it has looked at *)
LEMMA BgSkipFacts ==
    ASSUME bgOrder \in Seq(Callers), NEW from \in Nat, BgSkips(from) # {}
    PROVE  /\ FirstSkip(from) \in Nat
           /\ \E i \in DOMAIN bgOrder : BgAt(from + FirstSkip(from)) = bgOrder[i]
           /\ ~ Suspended(BgAt(from + FirstSkip(from)))
<1>1. BgSkips(from) \in SUBSET Nat
  BY DEF BgSkips
<1>2. FirstSkip(from) \in BgSkips(from)
  <2>1. \E m \in BgSkips(from) : \A k \in BgSkips(from) : m <= k
    BY <1>1, LeastOf
  <2>2. QED
    BY <2>1 DEF FirstSkip
<1>3. FirstSkip(from) \in 0 .. Len(bgOrder) - 1 /\ ~ Suspended(BgAt(from + FirstSkip(from)))
  BY <1>2 DEF BgSkips
<1>4. Len(bgOrder) \in Nat \ {0} /\ FirstSkip(from) \in Nat /\ from + FirstSkip(from) \in Nat
  BY <1>3
<1>5. (from + FirstSkip(from)) % Len(bgOrder) \in 0 .. Len(bgOrder) - 1
  BY <1>4, ModFacts
<1>6. ((from + FirstSkip(from)) % Len(bgOrder)) + 1 \in DOMAIN bgOrder
  BY <1>4, <1>5
<1>7. QED
  BY <1>3, <1>4, <1>6 DEF BgAt

LEMMA PickBackgroundFacts ==
    ASSUME bgOrder \in Seq(Callers), bgIndex \in Nat
    PROVE  /\ PickBackground.idx \in Nat
           /\ PickBackground.c = None \/ \E i \in DOMAIN bgOrder : PickBackground.c = bgOrder[i]
<1> DEFINE from == IF HolderInBg THEN bgIndex + 1 ELSE bgIndex
<1>1. from \in Nat /\ Len(bgOrder) \in Nat
  OBVIOUS
<1>2. \A n \in Nat : n % BgPeriod \in Nat
  BY ModFacts DEF BgPeriod
<1>3. CASE bgOrder = <<>> \/ (HolderInBg /\ ~ sliceOver)
  BY <1>3 DEF PickBackground, HolderInBg
<1>4. CASE ~ (bgOrder = <<>> \/ (HolderInBg /\ ~ sliceOver))
  <2>1. CASE BgSkips(from) = {}
    BY <1>1, <1>2, <1>4, <2>1 DEF PickBackground
  <2>2. CASE BgSkips(from) # {}
    <3>1. PickBackground = [c |-> BgAt(from + FirstSkip(from)), idx |-> (from + FirstSkip(from)) % BgPeriod]
      BY <1>4, <2>2 DEF PickBackground
    <3> HIDE DEF from
    <3>2. /\ FirstSkip(from) \in Nat
          /\ \E i \in DOMAIN bgOrder : BgAt(from + FirstSkip(from)) = bgOrder[i]
      BY <1>1, <2>2, BgSkipFacts
    <3>3. from + FirstSkip(from) \in Nat
      BY <1>1, <3>2
    <3>4. QED
      BY <1>2, <3>1, <3>2, <3>3
  <2>3. QED
    BY <2>1, <2>2
<1>5. QED
  BY <1>3, <1>4

LEMMA FirstForegroundFacts ==
    ASSUME slots \in Seq(Regs), Foreground # {}
    PROVE  \E i \in Foreground : FirstForeground = Owner[slots[i]] /\ slots[i] \in Registered
<1>1. Foreground \in SUBSET Nat /\ Foreground \subseteq DOMAIN slots
  BY DEF Foreground, Urgent
<1>2. \E m \in Foreground : \A k \in Foreground : m <= k
  BY <1>1, LeastOf
<1>3. QED
  BY <1>1, <1>2 DEF FirstForeground, Registered

(* A winner has a slot. *)
LEMMA PickWinnerFacts ==
    ASSUME SdrTypes, RotationExact
    PROVE  /\ PickWinner.idx \in Nat /\ PickBackground.idx \in Nat
           /\ PickWinner.c = None \/ (\E r \in Registered : Owner[r] = PickWinner.c)
           /\ PickBackground.c = None \/ (\E r \in Registered : Owner[r] = PickBackground.c)
           /\ {PickWinner.c, PickBackground.c} \subseteq Callers \cup {None}
<1>1. PickBackground.idx \in Nat
  BY PickBackgroundFacts DEF SdrTypes
<1>2. PickBackground.c = None \/ (\E r \in Registered : Owner[r] = PickBackground.c)
  BY PickBackgroundFacts DEF SdrTypes, RotationExact, BgOrderExact
<1>3. PickWinner.idx \in Nat /\ (PickWinner.c = None \/ (\E r \in Registered : Owner[r] = PickWinner.c))
  BY <1>1, <1>2, FirstForegroundFacts DEF SdrTypes, PickWinner
<1>4. \A r \in Registered : Owner[r] \in Callers
  BY SlotOfFacts DEF Callers
<1>5. QED
  BY <1>1, <1>2, <1>3, <1>4

(* The slot that _do_yield deactivates *)
LEMMA DoYieldFacts ==
    ASSUME SdrTypes, SlotTypes, NEW t, NEW c \in Callers, SlotOf(c) # None, NEW preempted, DoYield(t, c, preempted)
    PROVE  /\ SlotTypes' /\ holder' = None
           /\ gen' \in Gens /\ gen' # gen /\ gen' # sv.gen
           /\ {lockedBy', relockAfter'} \subseteq Callers \cup {None}
           /\ \A q \in Regs \ {SlotOf(c)} : slot'[q] = slot[q]
           /\ ~ slot'[SlotOf(c)].active /\ slot'[SlotOf(c)].lease = 0
           /\ slot'[SlotOf(c)].susp = slot[SlotOf(c)].susp
           /\ yv' = [yv EXCEPT ![t] = [r |-> SlotOf(c), lease |-> slot[SlotOf(c)].lease]]
<1>1. SlotOf(c) \in Regs
  BY SlotOfFacts
<1>2. slot' = [slot EXCEPT ![SlotOf(c)].active = FALSE, ![SlotOf(c)].alloc = 0, ![SlotOf(c)].lease = 0]
  BY DEF DoYield
<1>3. SlotTypes'
  BY <1>1, <1>2, ZenonT(30) DEF SlotTypes
<1>4. /\ \A q \in Regs \ {SlotOf(c)} : slot'[q] = slot[q]
      /\ ~ slot'[SlotOf(c)].active /\ slot'[SlotOf(c)].lease = 0
      /\ slot'[SlotOf(c)].susp = slot[SlotOf(c)].susp
  BY <1>1, <1>2 DEF SlotTypes
<1>5. gen' \in Gens /\ gen' # gen /\ gen' # sv.gen
  BY BumpFacts DEF DoYield
<1>6. {lockedBy', relockAfter'} \subseteq Callers \cup {None}
  BY DEF DoYield, SdrTypes
<1>7. QED
  BY <1>3, <1>4, <1>5, <1>6 DEF DoYield

(* _do_acquire gives up, or notes an allocation of a slot that is not suspended. *)
LEMMA BeginAcquireFacts ==
    ASSUME SdrTypes, SlotTypes, NEW c, BeginAcquire(c)
    PROVE  \/ /\ pc' = [pc EXCEPT ![Sched] = "idle"] /\ sv' = IdleSched
              /\ gen' = gen /\ slot' = slot
           \/ /\ SlotOf(c) \in Registered /\ SlotOf(c) \in Regs /\ Owner[SlotOf(c)] = c
              /\ ~ slot[SlotOf(c)].susp
              /\ gen' \in Gens /\ gen' # gen
              /\ sv' = [IdleSched EXCEPT !.c = c, !.r = SlotOf(c), !.gen = gen']
              /\ pc' = [pc EXCEPT ![Sched] = "claim"]
              /\ SlotTypes'
              /\ \A q \in Regs : /\ slot'[q].active = slot[q].active
                                 /\ slot'[q].lease = slot[q].lease
                                 /\ slot'[q].susp = slot[q].susp
<1>1. CASE SlotOf(c) = None \/ Suspended(c)
  BY <1>1 DEF BeginAcquire
<1>2. CASE ~ (SlotOf(c) = None \/ Suspended(c))
  <2>1. SlotOf(c) \in Registered /\ SlotOf(c) \in Regs /\ Owner[SlotOf(c)] = c /\ ~ slot[SlotOf(c)].susp
    BY <1>2, SlotOfFacts DEF Suspended
  <2>2. PICK g \in Gens : /\ Bump(g)
                          /\ slot' = [slot EXCEPT ![SlotOf(c)].relReq = FALSE, ![SlotOf(c)].alloc = g]
                          /\ sv' = [IdleSched EXCEPT !.c = c, !.r = SlotOf(c), !.gen = g]
                          /\ pc' = [pc EXCEPT ![Sched] = "claim"]
    BY <1>2 DEF BeginAcquire
  <2>3. gen' = g /\ g # gen
    BY <2>2 DEF Bump, GensUsed
  <2>4. SlotTypes'
    BY <2>1, <2>2 DEF SlotTypes
  <2>5. \A q \in Regs : /\ slot'[q].active = slot[q].active /\ slot'[q].lease = slot[q].lease
                        /\ slot'[q].susp = slot[q].susp
    BY <2>1, <2>2 DEF SlotTypes
  <2>6. QED
    BY <2>1, <2>2, <2>3, <2>4, <2>5
<1>3. QED
  BY <1>1, <1>2

(* _release_slot deactivates the slot registered under the name, or nothing. *)
LEMMA ReleaseSlotFacts ==
    ASSUME SdrTypes, SlotTypes, NEW c \in Callers, NEW g, NEW suspend \in BOOLEAN, ReleaseSlot(c, g, suspend)
    PROVE  /\ SlotTypes' /\ bgIndex' \in Nat
           /\ {holder', lockedBy', relockAfter'} \subseteq Callers \cup {None}
           /\ \/ /\ slot' = slot /\ gen' = gen
                 /\ ReleasedReg(c, g) = None /\ ReleasedLease(c, g) = 0
                 /\ holder' = holder \/ (holder' = None /\ SlotOf(holder) = None)
              \/ /\ SlotOf(c) \in Registered /\ SlotOf(c) \in Regs /\ Owner[SlotOf(c)] = c
                 /\ ReleasedReg(c, g) = SlotOf(c) /\ ReleasedLease(c, g) = slot[SlotOf(c)].lease
                 /\ gen' \in Gens /\ gen' # gen /\ gen' # sv.gen
                 /\ holder' = IF holder = c THEN None ELSE holder
                 /\ \A q \in Regs \ {SlotOf(c)} : slot'[q] = slot[q]
                 /\ ~ slot'[SlotOf(c)].active /\ slot'[SlotOf(c)].lease = 0
                 /\ slot[SlotOf(c)].susp => slot'[SlotOf(c)].susp
<1>1. CASE ReleaseRefused(c, g)
  BY <1>1 DEF ReleaseSlot, ReleasedReg, ReleasedLease, SdrTypes, SlotTypes
<1>2. CASE ~ ReleaseRefused(c, g)
  <2>1. bgIndex' \in Nat
    <3>1. bgOrder # <<>> => (bgIndex + 1) % Len(bgOrder) \in Nat
      <4>1. bgOrder # <<>> => Len(bgOrder) \in Nat \ {0} /\ bgIndex + 1 \in Nat
        BY DEF SdrTypes
      <4>2. QED
        BY <4>1, ModFacts
    <3>2. QED
      BY <1>2, <3>1 DEF ReleaseSlot, SdrTypes
  <2>2. {holder', lockedBy', relockAfter'} \subseteq Callers \cup {None}
    BY <1>2 DEF ReleaseSlot, SdrTypes
  <2>3. holder' = IF holder = c THEN None ELSE holder
    BY <1>2 DEF ReleaseSlot
  <2>4. CASE SlotOf(c) = None
    BY <1>2, <2>1, <2>2, <2>3, <2>4 DEF ReleaseSlot, ReleasedReg, ReleasedLease, SlotTypes
  <2>5. CASE SlotOf(c) # None
    <3>1. SlotOf(c) \in Registered /\ SlotOf(c) \in Regs /\ Owner[SlotOf(c)] = c
      BY <2>5, SlotOfFacts
    <3> DEFINE kept == slot[SlotOf(c)].susp \/ suspend
    <3>2. slot' = [slot EXCEPT ![SlotOf(c)].active = FALSE, ![SlotOf(c)].relReq = TRUE,
                   ![SlotOf(c)].susp = kept, ![SlotOf(c)].lease = 0, ![SlotOf(c)].alloc = 0]
      BY <1>2, <2>5, <3>1 DEF ReleaseSlot, SlotTypes
    <3>3. kept \in BOOLEAN /\ (slot[SlotOf(c)].susp => kept)
      OBVIOUS
    <3> HIDE DEF kept
    <3>4. /\ SlotTypes'
          /\ \A q \in Regs \ {SlotOf(c)} : slot'[q] = slot[q]
          /\ ~ slot'[SlotOf(c)].active /\ slot'[SlotOf(c)].lease = 0
          /\ slot[SlotOf(c)].susp => slot'[SlotOf(c)].susp
      <4>1. CASE kept = TRUE
        <5>1. slot' = [slot EXCEPT ![SlotOf(c)].active = FALSE, ![SlotOf(c)].relReq = TRUE,
                       ![SlotOf(c)].susp = TRUE, ![SlotOf(c)].lease = 0, ![SlotOf(c)].alloc = 0]
          BY <3>2, <4>1
        <5>2. SlotTypes'
          <6> DEFINE half == [slot EXCEPT ![SlotOf(c)].active = FALSE, ![SlotOf(c)].relReq = TRUE,
                                          ![SlotOf(c)].susp = TRUE]
          <6>1. half \in [Regs -> [active : BOOLEAN, lease : Ids \cup {0}, relReq : BOOLEAN, susp : BOOLEAN,
                                   alloc : Gens \cup {0}, win : {"none", "future", "open"}]]
            BY <3>1, ZenonT(30) DEF SlotTypes
          <6>2. slot' = [half EXCEPT ![SlotOf(c)].lease = 0, ![SlotOf(c)].alloc = 0]
            BY <5>1
          <6> HIDE DEF half
          <6>3. QED
            BY <3>1, <6>1, <6>2, ZenonT(30) DEF SlotTypes
        <5>3. QED
          BY <3>1, <5>1, <5>2 DEF SlotTypes
      <4>2. CASE kept = FALSE
        <5>1. slot' = [slot EXCEPT ![SlotOf(c)].active = FALSE, ![SlotOf(c)].relReq = TRUE,
                       ![SlotOf(c)].susp = FALSE, ![SlotOf(c)].lease = 0, ![SlotOf(c)].alloc = 0]
          BY <3>2, <4>2
        <5>2. SlotTypes'
          <6> DEFINE half == [slot EXCEPT ![SlotOf(c)].active = FALSE, ![SlotOf(c)].relReq = TRUE,
                                          ![SlotOf(c)].susp = FALSE]
          <6>1. half \in [Regs -> [active : BOOLEAN, lease : Ids \cup {0}, relReq : BOOLEAN, susp : BOOLEAN,
                                   alloc : Gens \cup {0}, win : {"none", "future", "open"}]]
            BY <3>1, ZenonT(30) DEF SlotTypes
          <6>2. slot' = [half EXCEPT ![SlotOf(c)].lease = 0, ![SlotOf(c)].alloc = 0]
            BY <5>1
          <6> HIDE DEF half
          <6>3. QED
            BY <3>1, <6>1, <6>2, ZenonT(30) DEF SlotTypes
        <5>3. QED
          BY <3>1, <3>3, <4>2, <5>1, <5>2 DEF SlotTypes
      <4>3. QED
        BY <3>3, <4>1, <4>2
    <3>5. gen' \in Gens /\ gen' # gen /\ gen' # sv.gen
      BY <1>2, <2>5, BumpFacts DEF ReleaseSlot
    <3>6. ReleasedReg(c, g) = SlotOf(c) /\ ReleasedLease(c, g) = slot[SlotOf(c)].lease
      BY <1>2, <2>5 DEF ReleasedReg, ReleasedLease
    <3>7. QED
      BY <2>1, <2>2, <2>3, <3>1, <3>4, <3>5, <3>6
  <2>6. QED
    BY <2>4, <2>5
<1>3. QED
  BY <1>1, <1>2

-----------------------------------------------------------------------------
(* Which steps change what *)

LEMMA SlotsWriters ==
    ASSUME [Next]_vars
    PROVE  \/ <<slots, bgOrder>>' = <<slots, bgOrder>>
           \/ \E r \in Regs : Start(r) \/ UnregisterPop(r)
<1>1. CASE SchedStep
  BY <1>1 DEF SchedStep, schedVars, plugVars, Loop, EvaluateKeep, EvaluateWindowEnd, EvaluateAcquire, 
     EvaluatePreflight, ClaimDevice, PreflightStop, PreflightHandoff, AfterYield, 
     AcquireCheck, ReleaseStale, OnAcquire, LaunchOk, LaunchFail, LaunchSuspend, LaunchRetry, 
     LaunchRelease, LaunchBack, Discard, Grant
<1>2. CASE \E t \in Threads : YieldStep(t)
  BY <1>2 DEF YieldStep, schedVars, plugVars, OnYield, OnYieldKilled, YieldRelease
<1>3. CASE \E r \in Regs : ControlStep(r)
  BY <1>3 DEF ControlStep, schedVars, plugVars, Stop, UnregisterYield, KillDetach, KillWait, Lock, 
     Unlock, AddWindow, RemoveWindows, WindowOpens, WindowCloses, SetWindow
<1>4. CASE \E r \in Regs : MonitorStep(r) \/ WorkerStep(r) \/ RestartForgotten(r)
  BY <1>4 DEF MonitorStep, WorkerStep, schedVars, plugVars, PipelineFails, FailureHook, CaptureDone, 
     MonitorRelease, MonitorLease, MonitorRetry, MonitorExhaust, WorkerWakes, Resume, 
     RestartForgotten
<1>5. CASE Shutdown \/ StopScheduler \/ SliceElapses \/ Replug \/ UNCHANGED vars
  BY <1>5 DEF vars, schedVars, plugVars, Shutdown, StopScheduler, SliceElapses, Replug
<1>6. CASE \E o \in Outsiders : OutsiderClaims(o) \/ OutsiderReleases(o)
  BY <1>6 DEF schedVars, plugVars, OutsiderClaims, OutsiderReleases
<1>7. QED
  BY <1>1, <1>2, <1>3, <1>4, <1>5, <1>6 DEF Next

LEMMA BgIndexWriters ==
    ASSUME [Next]_vars
    PROVE  \/ bgIndex' = bgIndex
           \/ EvaluateKeep \/ EvaluateWindowEnd \/ EvaluateAcquire \/ EvaluatePreflight
              \/ AfterYield \/ LaunchSuspend \/ Grant
           \/ \E r \in Regs : MonitorRelease(r)
<1>1. CASE SchedStep
  BY <1>1 DEF SchedStep, schedVars, plugVars, Loop, ClaimDevice, PreflightStop, PreflightHandoff, 
     AcquireCheck, ReleaseStale, OnAcquire, LaunchOk, LaunchFail, LaunchRetry, LaunchRelease, 
     LaunchBack, Discard
<1>2. CASE \E t \in Threads : YieldStep(t)
  BY <1>2 DEF YieldStep, schedVars, plugVars, OnYield, OnYieldKilled, YieldRelease
<1>3. CASE \E r \in Regs : ControlStep(r)
  BY <1>3 DEF ControlStep, schedVars, plugVars, Start, Stop, UnregisterYield, UnregisterPop, 
     KillDetach, KillWait, Lock, Unlock, AddWindow, RemoveWindows, WindowOpens, WindowCloses, 
     SetWindow
<1>4. CASE \E r \in Regs : MonitorStep(r) \/ WorkerStep(r) \/ RestartForgotten(r)
  BY <1>4 DEF MonitorStep, WorkerStep, schedVars, plugVars, PipelineFails, FailureHook, CaptureDone, 
     MonitorLease, MonitorRetry, MonitorExhaust, WorkerWakes, Resume, RestartForgotten
<1>5. CASE Shutdown \/ StopScheduler \/ SliceElapses \/ Replug \/ UNCHANGED vars
  BY <1>5 DEF vars, schedVars, plugVars, Shutdown, StopScheduler, SliceElapses, Replug
<1>6. CASE \E o \in Outsiders : OutsiderClaims(o) \/ OutsiderReleases(o)
  BY <1>6 DEF schedVars, plugVars, OutsiderClaims, OutsiderReleases
<1>7. QED
  BY <1>1, <1>2, <1>3, <1>4, <1>5, <1>6 DEF Next

LEMMA HolderWriters ==
    ASSUME [Next]_vars
    PROVE  \/ holder' = holder
           \/ EvaluateWindowEnd \/ PreflightHandoff \/ LaunchSuspend \/ Grant
              \/ StopScheduler
           \/ \E r \in Regs : UnregisterYield(r) \/ MonitorRelease(r)
<1>1. CASE SchedStep
  BY <1>1 DEF SchedStep, schedVars, plugVars, Loop, EvaluateKeep, EvaluateAcquire, EvaluatePreflight, 
     ClaimDevice, PreflightStop, AfterYield, AcquireCheck, ReleaseStale, OnAcquire, LaunchOk, 
     LaunchFail, LaunchRetry, LaunchRelease, LaunchBack, Discard
<1>2. CASE \E t \in Threads : YieldStep(t)
  BY <1>2 DEF YieldStep, schedVars, plugVars, OnYield, OnYieldKilled, YieldRelease
<1>3. CASE \E r \in Regs : ControlStep(r)
  BY <1>3 DEF ControlStep, schedVars, plugVars, Start, Stop, UnregisterPop, KillDetach, KillWait, 
     Lock, Unlock, AddWindow, RemoveWindows, WindowOpens, WindowCloses, SetWindow
<1>4. CASE \E r \in Regs : MonitorStep(r) \/ WorkerStep(r) \/ RestartForgotten(r)
  BY <1>4 DEF MonitorStep, WorkerStep, schedVars, plugVars, PipelineFails, FailureHook, CaptureDone, 
     MonitorLease, MonitorRetry, MonitorExhaust, WorkerWakes, Resume, RestartForgotten
<1>5. CASE Shutdown \/ StopScheduler \/ SliceElapses \/ Replug \/ UNCHANGED vars
  BY <1>5 DEF vars, schedVars, plugVars, Shutdown, SliceElapses, Replug
<1>6. CASE \E o \in Outsiders : OutsiderClaims(o) \/ OutsiderReleases(o)
  BY <1>6 DEF schedVars, plugVars, OutsiderClaims, OutsiderReleases
<1>7. QED
  BY <1>1, <1>2, <1>3, <1>4, <1>5, <1>6 DEF Next

LEMMA LockWriters ==
    ASSUME [Next]_vars
    PROVE  \/ <<lockedBy, relockAfter>>' = <<lockedBy, relockAfter>>
           \/ EvaluateWindowEnd \/ PreflightHandoff \/ LaunchSuspend \/ Discard \/ Grant
              \/ StopScheduler
           \/ \E r \in Regs : UnregisterYield(r) \/ UnregisterPop(r) \/ Lock(r) \/ Unlock(r)
              \/ MonitorRelease(r)
<1>1. CASE SchedStep
  BY <1>1 DEF SchedStep, schedVars, plugVars, Loop, EvaluateKeep, EvaluateAcquire, EvaluatePreflight, 
     ClaimDevice, PreflightStop, AfterYield, AcquireCheck, ReleaseStale, OnAcquire, LaunchOk, 
     LaunchFail, LaunchRetry, LaunchRelease, LaunchBack
<1>2. CASE \E t \in Threads : YieldStep(t)
  BY <1>2 DEF YieldStep, schedVars, plugVars, OnYield, OnYieldKilled, YieldRelease
<1>3. CASE \E r \in Regs : ControlStep(r)
  BY <1>3 DEF ControlStep, schedVars, plugVars, Start, Stop, KillDetach, KillWait, AddWindow, 
     RemoveWindows, WindowOpens, WindowCloses, SetWindow
<1>4. CASE \E r \in Regs : MonitorStep(r) \/ WorkerStep(r) \/ RestartForgotten(r)
  BY <1>4 DEF MonitorStep, WorkerStep, schedVars, plugVars, PipelineFails, FailureHook, CaptureDone, 
     MonitorLease, MonitorRetry, MonitorExhaust, WorkerWakes, Resume, RestartForgotten
<1>5. CASE Shutdown \/ StopScheduler \/ SliceElapses \/ Replug \/ UNCHANGED vars
  BY <1>5 DEF vars, schedVars, plugVars, Shutdown, SliceElapses, Replug
<1>6. CASE \E o \in Outsiders : OutsiderClaims(o) \/ OutsiderReleases(o)
  BY <1>6 DEF schedVars, plugVars, OutsiderClaims, OutsiderReleases
<1>7. QED
  BY <1>1, <1>2, <1>3, <1>4, <1>5, <1>6 DEF Next

LEMMA GenWriters ==
    ASSUME [Next]_vars
    PROVE  \/ gen' = gen
           \/ EvaluateWindowEnd \/ EvaluateAcquire \/ PreflightHandoff \/ AfterYield
              \/ LaunchSuspend \/ StopScheduler
           \/ \E r \in Regs : Start(r) \/ UnregisterYield(r) \/ UnregisterPop(r)
              \/ MonitorRelease(r) \/ Resume(r)
<1>1. CASE SchedStep
  BY <1>1 DEF SchedStep, schedVars, plugVars, Loop, EvaluateKeep, EvaluatePreflight, ClaimDevice, 
     PreflightStop, AcquireCheck, ReleaseStale, OnAcquire, LaunchOk, LaunchFail, LaunchRetry, 
     LaunchRelease, LaunchBack, Discard, Grant
<1>2. CASE \E t \in Threads : YieldStep(t)
  BY <1>2 DEF YieldStep, schedVars, plugVars, OnYield, OnYieldKilled, YieldRelease
<1>3. CASE \E r \in Regs : ControlStep(r)
  BY <1>3 DEF ControlStep, schedVars, plugVars, Stop, KillDetach, KillWait, Lock, Unlock, AddWindow, 
     RemoveWindows, WindowOpens, WindowCloses, SetWindow
<1>4. CASE \E r \in Regs : MonitorStep(r) \/ WorkerStep(r) \/ RestartForgotten(r)
  BY <1>4 DEF MonitorStep, WorkerStep, schedVars, plugVars, PipelineFails, FailureHook, CaptureDone, 
     MonitorLease, MonitorRetry, MonitorExhaust, WorkerWakes, RestartForgotten
<1>5. CASE Shutdown \/ StopScheduler \/ SliceElapses \/ Replug \/ UNCHANGED vars
  BY <1>5 DEF vars, schedVars, plugVars, Shutdown, SliceElapses, Replug
<1>6. CASE \E o \in Outsiders : OutsiderClaims(o) \/ OutsiderReleases(o)
  BY <1>6 DEF schedVars, plugVars, OutsiderClaims, OutsiderReleases
<1>7. QED
  BY <1>1, <1>2, <1>3, <1>4, <1>5, <1>6 DEF Next

LEMMA SlotWriters ==
    ASSUME [Next]_vars
    PROVE  \/ slot' = slot
           \/ EvaluateWindowEnd \/ EvaluateAcquire \/ PreflightHandoff \/ AfterYield
              \/ AcquireCheck \/ LaunchSuspend \/ LaunchBack \/ Discard \/ Grant
              \/ StopScheduler
           \/ \E r \in Regs : UnregisterYield(r) \/ AddWindow(r) \/ RemoveWindows(r)
              \/ WindowOpens(r) \/ WindowCloses(r) \/ MonitorRelease(r) \/ Resume(r)
<1>1. CASE SchedStep
  BY <1>1 DEF SchedStep, schedVars, plugVars, Loop, EvaluateKeep, EvaluatePreflight, ClaimDevice, 
     PreflightStop, ReleaseStale, OnAcquire, LaunchOk, LaunchFail, LaunchRetry, 
     LaunchRelease
<1>2. CASE \E t \in Threads : YieldStep(t)
  BY <1>2 DEF YieldStep, schedVars, plugVars, OnYield, OnYieldKilled, YieldRelease
<1>3. CASE \E r \in Regs : ControlStep(r)
  BY <1>3 DEF ControlStep, schedVars, plugVars, Start, Stop, UnregisterPop, KillDetach, KillWait, 
     Lock, Unlock
<1>4. CASE \E r \in Regs : MonitorStep(r) \/ WorkerStep(r) \/ RestartForgotten(r)
  BY <1>4 DEF MonitorStep, WorkerStep, schedVars, plugVars, PipelineFails, FailureHook, CaptureDone, 
     MonitorLease, MonitorRetry, MonitorExhaust, WorkerWakes, RestartForgotten
<1>5. CASE Shutdown \/ StopScheduler \/ SliceElapses \/ Replug \/ UNCHANGED vars
  BY <1>5 DEF vars, schedVars, plugVars, Shutdown, SliceElapses, Replug
<1>6. CASE \E o \in Outsiders : OutsiderClaims(o) \/ OutsiderReleases(o)
  BY <1>6 DEF schedVars, plugVars, OutsiderClaims, OutsiderReleases
<1>7. QED
  BY <1>1, <1>2, <1>3, <1>4, <1>5, <1>6 DEF Next

LEMMA ClaimWriters ==
    ASSUME [Next]_vars
    PROVE  \/ claimed' = claimed
           \/ ClaimDevice \/ PreflightStop \/ PreflightHandoff \/ ReleaseStale
              \/ LaunchRelease
           \/ \E t \in Threads : YieldRelease(t)
           \/ \E r \in Regs : MonitorLease(r)
           \/ \E o \in Outsiders : OutsiderClaims(o) \/ OutsiderReleases(o)
<1>1. CASE SchedStep
  BY <1>1 DEF SchedStep, schedVars, plugVars, Loop, EvaluateKeep, EvaluateWindowEnd, EvaluateAcquire, 
     EvaluatePreflight, AfterYield, AcquireCheck, OnAcquire, LaunchOk, LaunchFail, 
     LaunchSuspend, LaunchRetry, LaunchBack, Discard, Grant
<1>2. CASE \E t \in Threads : YieldStep(t)
  BY <1>2 DEF YieldStep, schedVars, plugVars, OnYield, OnYieldKilled
<1>3. CASE \E r \in Regs : ControlStep(r)
  BY <1>3 DEF ControlStep, schedVars, plugVars, Start, Stop, UnregisterYield, UnregisterPop, 
     KillDetach, KillWait, Lock, Unlock, AddWindow, RemoveWindows, WindowOpens, WindowCloses, 
     SetWindow
<1>4. CASE \E r \in Regs : MonitorStep(r) \/ WorkerStep(r) \/ RestartForgotten(r)
  BY <1>4 DEF MonitorStep, WorkerStep, schedVars, plugVars, PipelineFails, FailureHook, CaptureDone, 
     MonitorRelease, MonitorRetry, MonitorExhaust, WorkerWakes, Resume, RestartForgotten
<1>5. CASE Shutdown \/ StopScheduler \/ SliceElapses \/ Replug \/ UNCHANGED vars
  BY <1>5 DEF vars, schedVars, plugVars, Shutdown, StopScheduler, SliceElapses, Replug
<1>6. CASE \E o \in Outsiders : OutsiderClaims(o) \/ OutsiderReleases(o)
  BY <1>6 DEF schedVars, plugVars
<1>7. QED
  BY <1>1, <1>2, <1>3, <1>4, <1>5, <1>6 DEF Next

LEMMA PlugWriters ==
    ASSUME [Next]_vars
    PROVE  \/ plug' = plug
           \/ OnAcquire \/ LaunchOk \/ LaunchFail \/ LaunchSuspend \/ LaunchRetry
           \/ \E t \in Threads : OnYield(t) \/ OnYieldKilled(t)
           \/ \E r \in Regs : Start(r) \/ Stop(r) \/ KillDetach(r) \/ KillWait(r)
              \/ PipelineFails(r) \/ FailureHook(r) \/ CaptureDone(r) \/ MonitorLease(r)
              \/ MonitorRetry(r) \/ MonitorExhaust(r) \/ RestartForgotten(r)
<1>1. CASE SchedStep
  BY <1>1 DEF SchedStep, schedVars, plugVars, Loop, EvaluateKeep, EvaluateWindowEnd, EvaluateAcquire, 
     EvaluatePreflight, ClaimDevice, PreflightStop, PreflightHandoff, AfterYield, 
     AcquireCheck, ReleaseStale, LaunchRelease, LaunchBack, Discard, Grant
<1>2. CASE \E t \in Threads : YieldStep(t)
  BY <1>2 DEF YieldStep, schedVars, plugVars, YieldRelease
<1>3. CASE \E r \in Regs : ControlStep(r)
  BY <1>3 DEF ControlStep, schedVars, plugVars, UnregisterYield, UnregisterPop, Lock, Unlock, 
     AddWindow, RemoveWindows, WindowOpens, WindowCloses, SetWindow
<1>4. CASE \E r \in Regs : MonitorStep(r) \/ WorkerStep(r) \/ RestartForgotten(r)
  BY <1>4 DEF MonitorStep, WorkerStep, schedVars, plugVars, MonitorRelease, WorkerWakes, Resume
<1>5. CASE Shutdown \/ StopScheduler \/ SliceElapses \/ Replug \/ UNCHANGED vars
  BY <1>5 DEF vars, schedVars, plugVars, Shutdown, StopScheduler, SliceElapses, Replug
<1>6. CASE \E o \in Outsiders : OutsiderClaims(o) \/ OutsiderReleases(o)
  BY <1>6 DEF schedVars, plugVars, OutsiderClaims, OutsiderReleases
<1>7. QED
  BY <1>1, <1>2, <1>3, <1>4, <1>5, <1>6 DEF Next

LEMMA MonWriters ==
    ASSUME [Next]_vars
    PROVE  \/ mon' = mon
           \/ LaunchOk
           \/ \E r \in Regs : PipelineFails(r) \/ FailureHook(r) \/ CaptureDone(r)
              \/ MonitorRelease(r) \/ MonitorLease(r) \/ MonitorRetry(r) \/ MonitorExhaust(r)
<1>1. CASE SchedStep
  BY <1>1 DEF SchedStep, schedVars, plugVars, Loop, EvaluateKeep, EvaluateWindowEnd, EvaluateAcquire, 
     EvaluatePreflight, ClaimDevice, PreflightStop, PreflightHandoff, AfterYield, 
     AcquireCheck, ReleaseStale, OnAcquire, LaunchFail, LaunchSuspend, LaunchRetry, 
     LaunchRelease, LaunchBack, Discard, Grant
<1>2. CASE \E t \in Threads : YieldStep(t)
  BY <1>2 DEF YieldStep, schedVars, plugVars, OnYield, OnYieldKilled, YieldRelease
<1>3. CASE \E r \in Regs : ControlStep(r)
  BY <1>3 DEF ControlStep, schedVars, plugVars, Start, Stop, UnregisterYield, UnregisterPop, 
     KillDetach, KillWait, Lock, Unlock, AddWindow, RemoveWindows, WindowOpens, WindowCloses, 
     SetWindow
<1>4. CASE \E r \in Regs : MonitorStep(r) \/ WorkerStep(r) \/ RestartForgotten(r)
  BY <1>4 DEF MonitorStep, WorkerStep, schedVars, plugVars, WorkerWakes, Resume, RestartForgotten
<1>5. CASE Shutdown \/ StopScheduler \/ SliceElapses \/ Replug \/ UNCHANGED vars
  BY <1>5 DEF vars, schedVars, plugVars, Shutdown, StopScheduler, SliceElapses, Replug
<1>6. CASE \E o \in Outsiders : OutsiderClaims(o) \/ OutsiderReleases(o)
  BY <1>6 DEF schedVars, plugVars, OutsiderClaims, OutsiderReleases
<1>7. QED
  BY <1>1, <1>2, <1>3, <1>4, <1>5, <1>6 DEF Next

LEMMA WorkerWriters ==
    ASSUME [Next]_vars
    PROVE  \/ worker' = worker
           \/ LaunchOk \/ LaunchRetry
           \/ \E r \in Regs : Stop(r) \/ MonitorRetry(r) \/ WorkerWakes(r) \/ Resume(r)
<1>1. CASE SchedStep
  BY <1>1 DEF SchedStep, schedVars, plugVars, Loop, EvaluateKeep, EvaluateWindowEnd, EvaluateAcquire, 
     EvaluatePreflight, ClaimDevice, PreflightStop, PreflightHandoff, AfterYield, 
     AcquireCheck, ReleaseStale, OnAcquire, LaunchFail, LaunchSuspend, LaunchRelease, 
     LaunchBack, Discard, Grant
<1>2. CASE \E t \in Threads : YieldStep(t)
  BY <1>2 DEF YieldStep, schedVars, plugVars, OnYield, OnYieldKilled, YieldRelease
<1>3. CASE \E r \in Regs : ControlStep(r)
  BY <1>3 DEF ControlStep, schedVars, plugVars, Start, UnregisterYield, UnregisterPop, KillDetach, 
     KillWait, Lock, Unlock, AddWindow, RemoveWindows, WindowOpens, WindowCloses, SetWindow
<1>4. CASE \E r \in Regs : MonitorStep(r) \/ WorkerStep(r) \/ RestartForgotten(r)
  BY <1>4 DEF MonitorStep, WorkerStep, schedVars, plugVars, PipelineFails, FailureHook, CaptureDone, 
     MonitorRelease, MonitorLease, MonitorExhaust, RestartForgotten
<1>5. CASE Shutdown \/ StopScheduler \/ SliceElapses \/ Replug \/ UNCHANGED vars
  BY <1>5 DEF vars, schedVars, plugVars, Shutdown, StopScheduler, SliceElapses, Replug
<1>6. CASE \E o \in Outsiders : OutsiderClaims(o) \/ OutsiderReleases(o)
  BY <1>6 DEF schedVars, plugVars, OutsiderClaims, OutsiderReleases
<1>7. QED
  BY <1>1, <1>2, <1>3, <1>4, <1>5, <1>6 DEF Next

LEMMA YvWriters ==
    ASSUME [Next]_vars
    PROVE  \/ yv' = yv
           \/ EvaluateWindowEnd \/ PreflightHandoff \/ Discard \/ StopScheduler
           \/ \E t \in Threads : YieldRelease(t)
           \/ \E r \in Regs : UnregisterYield(r)
<1>1. CASE SchedStep
  BY <1>1 DEF SchedStep, schedVars, plugVars, Loop, EvaluateKeep, EvaluateAcquire, EvaluatePreflight, 
     ClaimDevice, PreflightStop, AfterYield, AcquireCheck, ReleaseStale, OnAcquire, LaunchOk, 
     LaunchFail, LaunchSuspend, LaunchRetry, LaunchRelease, LaunchBack, Grant
<1>2. CASE \E t \in Threads : YieldStep(t)
  BY <1>2 DEF YieldStep, schedVars, plugVars, OnYield, OnYieldKilled
<1>3. CASE \E r \in Regs : ControlStep(r)
  BY <1>3 DEF ControlStep, schedVars, plugVars, Start, Stop, UnregisterPop, KillDetach, KillWait, 
     Lock, Unlock, AddWindow, RemoveWindows, WindowOpens, WindowCloses, SetWindow
<1>4. CASE \E r \in Regs : MonitorStep(r) \/ WorkerStep(r) \/ RestartForgotten(r)
  BY <1>4 DEF MonitorStep, WorkerStep, schedVars, plugVars, PipelineFails, FailureHook, CaptureDone, 
     MonitorRelease, MonitorLease, MonitorRetry, MonitorExhaust, WorkerWakes, Resume, 
     RestartForgotten
<1>5. CASE Shutdown \/ StopScheduler \/ SliceElapses \/ Replug \/ UNCHANGED vars
  BY <1>5 DEF vars, schedVars, plugVars, Shutdown, SliceElapses, Replug
<1>6. CASE \E o \in Outsiders : OutsiderClaims(o) \/ OutsiderReleases(o)
  BY <1>6 DEF schedVars, plugVars, OutsiderClaims, OutsiderReleases
<1>7. QED
  BY <1>1, <1>2, <1>3, <1>4, <1>5, <1>6 DEF Next

-----------------------------------------------------------------------------
(* Types *)

(* A holder that is given up has a slot. *)
LEMMA GivingUp ==
    ASSUME SdrTypes, Places, Registration
    PROVE  /\ EvaluateWindowEnd \/ StopScheduler => holder = None \/ holder \in Callers
           /\ \A r \in Regs : UnregisterYield(r) => Owner[r] \in Callers /\ SlotOf(Owner[r]) = r /\ r \in Registered
           /\ \A r \in Regs : Owner[r] \in Callers
<1>1. \A r \in Regs : Owner[r] \in Callers
  BY DEF Callers
<1>2. \A r \in Regs : UnregisterYield(r) => SlotOf(Owner[r]) = r /\ r \in Registered
  BY SlotOfFacts DEF UnregisterYield, Registration
<1>3. QED
  BY <1>1, <1>2 DEF SdrTypes

LEMMA SdrTypesKeep ==
    ASSUME SdrTypes, SlotTypes, LocalTypes, Places, LocalsKnown, Registration, RotationExact, [Next]_vars
    PROVE  SdrTypes'
<1>1. slots' \in Seq(Regs) /\ bgOrder' \in Seq(Callers)
  <2>1. ASSUME NEW r \in Regs, Start(r) PROVE slots' \in Seq(Regs) /\ bgOrder' \in Seq(Callers)
    BY <2>1, GivingUp DEF Start, SdrTypes
  <2>2. ASSUME NEW r \in Regs, UnregisterPop(r) PROVE slots' \in Seq(Regs) /\ bgOrder' \in Seq(Callers)
    BY <2>2, WithoutFacts DEF UnregisterPop, SdrTypes
  <2>3. CASE UNCHANGED <<slots, bgOrder>>
    BY <2>3 DEF SdrTypes
  <2>4. QED
    BY <2>1, <2>2, <2>3, SlotsWriters
<1>2. bgIndex' \in Nat
  <2>1. CASE EvaluateKeep \/ EvaluateWindowEnd \/ EvaluateAcquire \/ EvaluatePreflight \/ AfterYield
    BY <2>1, PickWinnerFacts DEF EvaluateKeep, EvaluateWindowEnd, EvaluateAcquire, EvaluatePreflight,
       AfterYield, SdrTypes
  <2>2. CASE LaunchSuspend
    BY <2>2, ReleaseSlotFacts DEF LaunchSuspend, LocalsKnown, Acquiring, Callers
  <2>3. ASSUME NEW r \in Regs, MonitorRelease(r) PROVE bgIndex' \in Nat
    BY <2>3, ReleaseSlotFacts, GivingUp DEF MonitorRelease
  <2>4. CASE Grant
    <3>1. CASE Prio[sv.c] = 2
      <4>1. \E i \in DOMAIN bgOrder : bgOrder[i] = sv.c
        BY <2>4, <3>1, SlotOfFacts DEF Grant, GrantStale, LocalsKnown, Acquiring, RotationExact, BgOrderExact
      <4>2. IndexIn(bgOrder, sv.c) \in DOMAIN bgOrder
        BY <4>1 DEF IndexIn
      <4>3. bgIndex' = IndexIn(bgOrder, sv.c) - 1
        BY <2>4, <3>1 DEF Grant
      <4>4. QED
        BY <4>2, <4>3 DEF SdrTypes
    <3>2. CASE Prio[sv.c] # 2
      BY <2>4, <3>2 DEF Grant, SdrTypes
    <3>3. QED
      BY <3>1, <3>2
  <2>5. CASE UNCHANGED bgIndex
    BY <2>5 DEF SdrTypes
  <2>6. QED
    BY <2>1, <2>2, <2>3, <2>4, <2>5, BgIndexWriters
<1>3. holder' \in Callers \cup {None}
  <2>1. CASE EvaluateWindowEnd \/ PreflightHandoff \/ StopScheduler
    BY <2>1 DEF EvaluateWindowEnd, PreflightHandoff, StopScheduler, DoYield
  <2>2. CASE LaunchSuspend
    BY <2>2, ReleaseSlotFacts DEF LaunchSuspend, LocalsKnown, Acquiring, Callers
  <2>3. ASSUME NEW r \in Regs, MonitorRelease(r) PROVE holder' \in Callers \cup {None}
    BY <2>3, ReleaseSlotFacts, GivingUp DEF MonitorRelease
  <2>4. CASE Grant
    BY <2>4 DEF Grant, LocalsKnown, Acquiring, Callers
  <2>5. ASSUME NEW r \in Regs, UnregisterYield(r) PROVE holder' \in Callers \cup {None}
    BY <2>5 DEF UnregisterYield, DoYield
  <2>6. CASE UNCHANGED holder
    BY <2>6 DEF SdrTypes
  <2>7. QED
    BY <2>1, <2>2, <2>3, <2>4, <2>5, <2>6, HolderWriters
<1>4. {lockedBy', relockAfter'} \subseteq Callers \cup {None}
  <2>1. CASE EvaluateWindowEnd \/ PreflightHandoff \/ StopScheduler
    BY <2>1 DEF EvaluateWindowEnd, PreflightHandoff, StopScheduler, DoYield, SdrTypes
  <2>2. CASE LaunchSuspend
    BY <2>2, ReleaseSlotFacts DEF LaunchSuspend, LocalsKnown, Acquiring, Callers
  <2>3. ASSUME NEW r \in Regs, MonitorRelease(r) PROVE {lockedBy', relockAfter'} \subseteq Callers \cup {None}
    BY <2>3, ReleaseSlotFacts, GivingUp DEF MonitorRelease
  <2>4. CASE Grant
    BY <2>4 DEF Grant, SdrTypes
  <2>5. CASE Discard
    BY <2>5 DEF Discard, SdrTypes
  <2>6. ASSUME NEW r \in Regs, UnregisterYield(r) \/ UnregisterPop(r) \/ Lock(r) \/ Unlock(r)
        PROVE  {lockedBy', relockAfter'} \subseteq Callers \cup {None}
    <3>1. Owner[r] \in Callers
      BY GivingUp
    <3>2. CASE UnregisterYield(r)
      BY <3>1, <3>2 DEF UnregisterYield, DoYield, SdrTypes
    <3>3. CASE UnregisterPop(r)
      BY <3>3 DEF UnregisterPop, SdrTypes
    <3>4. CASE Lock(r) \/ Unlock(r)
      BY <3>1, <3>4 DEF Lock, Unlock, SdrTypes
    <3>5. QED
      BY <2>6, <3>2, <3>3, <3>4
  <2>7. CASE UNCHANGED <<lockedBy, relockAfter>>
    BY <2>7 DEF SdrTypes
  <2>8. QED
    BY <2>1, <2>2, <2>3, <2>4, <2>5, <2>6, <2>7, LockWriters
<1>5. gen' \in Gens \cup {0}
  <2>1. CASE EvaluateWindowEnd
    BY <2>1, BumpFacts DEF EvaluateWindowEnd, DoYield
  <2>2. CASE EvaluateAcquire
    BY <2>2, BeginAcquireFacts DEF EvaluateAcquire, SdrTypes
  <2>3. CASE PreflightHandoff
    BY <2>3, BeginAcquireFacts, BumpFacts DEF PreflightHandoff, DoYield, SdrTypes
  <2>4. CASE AfterYield
    BY <2>4, BeginAcquireFacts DEF AfterYield, SdrTypes
  <2>5. CASE LaunchSuspend
    BY <2>5, ReleaseSlotFacts DEF LaunchSuspend, LocalsKnown, Acquiring, Callers, SdrTypes
  <2>6. ASSUME NEW r \in Regs, MonitorRelease(r) PROVE gen' \in Gens \cup {0}
    BY <2>6, ReleaseSlotFacts, GivingUp DEF MonitorRelease, SdrTypes
  <2>7. ASSUME NEW r \in Regs, Start(r) \/ UnregisterYield(r) \/ UnregisterPop(r) \/ Resume(r)
        PROVE  gen' \in Gens \cup {0}
    BY <2>7, BumpFacts DEF Start, UnregisterYield, UnregisterPop, Resume, DoYield, SdrTypes
  <2>8. CASE StopScheduler
    BY <2>8, BumpFacts DEF StopScheduler, DoYield, SdrTypes
  <2>9. CASE UNCHANGED gen
    BY <2>9 DEF SdrTypes
  <2>10. QED
    BY <2>1, <2>2, <2>3, <2>4, <2>5, <2>6, <2>7, <2>8, <2>9, GenWriters
<1>6. claimed' \subseteq [id : Ids, caller : Callers \cup Outsiders]
  <2>1. CASE ClaimDevice
    <3>1. sv.c \in Callers
      BY <2>1, GivingUp DEF ClaimDevice, LocalsKnown, Acquiring, Preflight
    <3>2. CASE claimed' = claimed
      BY <3>2 DEF SdrTypes
    <3>3. CASE \E i \in Ids : claimed' = ReleasedBy(sv.c) \cup {[id |-> i, caller |-> sv.c]}
      BY <3>1, <3>3 DEF ReleasedBy, SdrTypes
    <3>4. QED
      BY <2>1, <3>2, <3>3 DEF ClaimDevice
  <2>2. CASE PreflightStop \/ PreflightHandoff \/ ReleaseStale \/ LaunchRelease
    BY <2>2 DEF PreflightStop, PreflightHandoff, ReleaseStale, LaunchRelease, Released, SdrTypes
  <2>3. ASSUME NEW t \in Threads, YieldRelease(t) PROVE claimed' \subseteq claimed
    BY <2>3 DEF YieldRelease, Released, ReleasedBy
  <2>4. ASSUME NEW r \in Regs, MonitorLease(r) PROVE claimed' \subseteq claimed
    BY <2>4 DEF MonitorLease, Released
  <2>5. ASSUME NEW o \in Outsiders, OutsiderClaims(o) \/ OutsiderReleases(o)
        PROVE  claimed' \subseteq [id : Ids, caller : Callers \cup Outsiders]
    BY <2>5 DEF OutsiderClaims, OutsiderReleases, ReleasedBy, FreshId, SdrTypes
  <2>6. CASE UNCHANGED claimed
    BY <2>6 DEF SdrTypes
  <2>7. QED
    BY <2>1, <2>2, <2>3, <2>4, <2>5, <2>6, ClaimWriters DEF SdrTypes
<1>7. QED
  BY <1>1, <1>2, <1>3, <1>4, <1>5, <1>6 DEF SdrTypes

LEMMA SlotTypesKeep ==
    ASSUME SdrTypes, SlotTypes, LocalTypes, Places, LocalsKnown, Registration, RotationExact, [Next]_vars
    PROVE  SlotTypes'
<1>1. CASE EvaluateWindowEnd
  BY <1>1, DoYieldFacts DEF EvaluateWindowEnd, SdrTypes
<1>2. CASE EvaluateAcquire \/ AfterYield
  BY <1>2, BeginAcquireFacts DEF EvaluateAcquire, AfterYield, SlotTypes
<1>3. CASE PreflightHandoff
  <2>1. CASE SlotOf(holder) = None
    BY <1>3, <2>1, BeginAcquireFacts DEF PreflightHandoff, SlotTypes
  <2>2. CASE SlotOf(holder) # None
    <3>1. holder \in Callers
      BY <2>2, SlotOfFacts, GivingUp
    <3>2. QED
      BY <1>3, <2>2, <3>1, DoYieldFacts DEF PreflightHandoff
  <2>3. QED
    BY <2>1, <2>2
<1>4. CASE AcquireCheck
  <2>1. slot' = slot \/ slot' = [slot EXCEPT ![sv.r].alloc = 0] \/ slot' = [slot EXCEPT ![sv.r].alloc = slot[sv.r].alloc]
    BY <1>4 DEF AcquireCheck, LocalsKnown, Acquiring, SlotTypes
  <2>2. QED
    BY <1>4, <2>1 DEF LocalsKnown, Acquiring, AcquireCheck, SlotTypes
<1>5. CASE LaunchBack
  <2>1. slot' = [slot EXCEPT ![sv.r].alloc = 0] \/ slot' = [slot EXCEPT ![sv.r].alloc = slot[sv.r].alloc]
    BY <1>5 DEF LaunchBack, LocalsKnown, Acquiring, SlotTypes
  <2>2. QED
    BY <1>5, <2>1 DEF LaunchBack, LocalsKnown, Acquiring, SlotTypes
<1>6. CASE LaunchSuspend
  BY <1>6, ReleaseSlotFacts DEF LaunchSuspend, LocalsKnown, Acquiring, Callers
<1>7. CASE Discard
  <2> DEFINE asked == slot[sv.r].relReq /\ ~ (running /\ SlotOf(sv.c) = sv.r /\ gen = sv.gen)
  <2>1. slot' = [slot EXCEPT ![sv.r].alloc = 0, ![sv.r].relReq = asked]
    BY <1>7 DEF Discard, LocalsKnown, Acquiring, SlotTypes
  <2>2. asked \in BOOLEAN
    OBVIOUS
  <2> HIDE DEF asked
  <2>3. CASE asked = TRUE
    BY <2>1, <2>3, ZenonT(30) DEF SlotTypes
  <2>4. CASE asked = FALSE
    BY <2>1, <2>4, ZenonT(30) DEF SlotTypes
  <2>5. QED
    BY <2>2, <2>3, <2>4
<1>8. CASE Grant
  <2>1. sv.r \in Regs /\ sv.lease \in Ids \cup {0}
    BY <1>8 DEF Grant, LocalsKnown, Acquiring, LocalTypes, SchedLocals
  <2>2. slot' = [slot EXCEPT ![sv.r].active = TRUE, ![sv.r].lease = sv.lease]
    BY <1>8 DEF Grant
  <2>3. QED
    BY <2>1, <2>2, ZenonT(30) DEF SlotTypes
<1>9. ASSUME NEW r \in Regs, UnregisterYield(r) PROVE SlotTypes'
  <2>1. Owner[r] \in Callers /\ SlotOf(Owner[r]) # None
    BY <1>9, GivingUp, SlotOfFacts
  <2>2. QED
    BY <1>9, <2>1, DoYieldFacts DEF UnregisterYield
<1>10. ASSUME NEW r \in Regs, AddWindow(r) \/ RemoveWindows(r) \/ WindowOpens(r) \/ WindowCloses(r) PROVE SlotTypes'
  BY <1>10 DEF AddWindow, RemoveWindows, WindowOpens, WindowCloses, SetWindow, SlotTypes
<1>11. ASSUME NEW r \in Regs, MonitorRelease(r) PROVE SlotTypes'
  BY <1>11, ReleaseSlotFacts, GivingUp DEF MonitorRelease
<1>12. ASSUME NEW r \in Regs, Resume(r) PROVE SlotTypes'
  <2>1. slot' = slot \/ slot' = [slot EXCEPT ![r].susp = FALSE, ![r].relReq = FALSE]
    BY <1>12, NoneAssumption DEF Resume, ResumeTarget
  <2>2. CASE slot' = slot
    BY <2>2 DEF SlotTypes
  <2>3. CASE slot' = [slot EXCEPT ![r].susp = FALSE, ![r].relReq = FALSE]
    BY <2>3 DEF SlotTypes
  <2>4. QED
    BY <2>1, <2>2, <2>3
<1>13. CASE StopScheduler
  <2>1. CASE holder # None /\ SlotOf(holder) # None
    BY <1>13, <2>1, DoYieldFacts DEF StopScheduler, SdrTypes
  <2>2. CASE ~ (holder # None /\ SlotOf(holder) # None)
    BY <1>13, <2>2 DEF StopScheduler, SlotTypes
  <2>3. QED
    BY <2>1, <2>2
<1>14. CASE UNCHANGED slot
  BY <1>14 DEF SlotTypes
<1>15. QED
  BY <1>1, <1>2, <1>3, <1>4, <1>5, <1>6, <1>7, <1>8, <1>9, <1>10, <1>11, <1>12, <1>13, <1>14, SlotWriters

LEMMA PlugTypesKeep ==
    ASSUME SdrTypes, SlotTypes, PlugTypes, MonTypes, LocalTypes, LocalsKnown, [Next]_vars
    PROVE  PlugTypes'
<1>1. CASE OnAcquire
  <2>1. SlotOf(sv.c) = None \/ slot[SlotOf(sv.c)].alloc \in Gens \cup {0}
    BY SlotOfFacts DEF SlotTypes
  <2> DEFINE g == IF SlotOf(sv.c) = None THEN 0 ELSE slot[SlotOf(sv.c)].alloc
  <2>2. plug' = plug \/ plug' = [plug EXCEPT ![sv.r].dact = TRUE, ![sv.r].dgen = g]
    BY <1>1 DEF OnAcquire
  <2>3. g \in Gens \cup {NoGen, 0} /\ sv.r \in Regs
    BY <1>1, <2>1 DEF OnAcquire, LocalsKnown, Acquiring
  <2> HIDE DEF g
  <2>4. CASE plug' = plug
    BY <2>4 DEF PlugTypes
  <2>5. CASE plug' = [plug EXCEPT ![sv.r].dact = TRUE, ![sv.r].dgen = g]
    BY <2>3, <2>5 DEF PlugTypes
  <2>6. QED
    BY <2>2, <2>4, <2>5
<1>2. CASE LaunchOk \/ LaunchSuspend
  <2>1. sv.r \in Regs
    BY <1>2 DEF LaunchOk, LaunchSuspend, LocalsKnown, Acquiring
  <2>2. CASE LaunchOk
    BY <2>1, <2>2 DEF LaunchOk, PlugTypes
  <2>3. CASE LaunchSuspend
    BY <2>1, <2>3 DEF LaunchSuspend, PlugTypes
  <2>4. QED
    BY <1>2, <2>2, <2>3
<1>3. CASE LaunchFail
  <2>1. plug[sv.r].dgen \in Gens \cup {NoGen, 0} /\ sv.r \in Regs
    BY <1>3 DEF LaunchFail, LocalsKnown, Acquiring, PlugTypes
  <2> DEFINE g == IF plug[sv.r].act THEN plug[sv.r].dgen ELSE NoGen
  <2>2. plug' = [plug EXCEPT ![sv.r].dact = FALSE, ![sv.r].dgen = g] /\ g \in Gens \cup {NoGen, 0}
    BY <1>3, <2>1 DEF LaunchFail
  <2> HIDE DEF g
  <2>3. QED
    BY <2>1, <2>2, ZenonT(30) DEF PlugTypes
<1>4. ASSUME NEW r \in Regs, NEW reg, ScheduleRetry(r, reg) PROVE PlugTypes'
  <2>1. plug[r].budget \in 0 .. MaxRestarts /\ MaxRestarts \in Nat
    BY RestartAssumption DEF PlugTypes
  <2>2. \/ plug' = [plug EXCEPT ![r].budget = plug[r].budget + 1] /\ plug[r].budget < MaxRestarts
        \/ plug' = [plug EXCEPT ![r].budget = plug[r].budget]
    BY <1>4 DEF ScheduleRetry, RetryAllowed, PlugTypes
  <2>3. QED
    BY <2>1, <2>2 DEF PlugTypes
<1>5. CASE LaunchRetry
  BY <1>4, <1>5 DEF LaunchRetry, LocalsKnown, Acquiring
<1>6. ASSUME NEW t \in Threads, OnYield(t) \/ OnYieldKilled(t) PROVE PlugTypes'
  <2>1. yv[t].r \in Regs
    BY <1>6 DEF OnYield, OnYieldKilled, LocalsKnown, Yielding
  <2>2. CASE OnYield(t)
    <3>1. plug' = [plug EXCEPT ![yv[t].r].dact = FALSE, ![yv[t].r].dgen = NoGen, ![yv[t].r].grp = FALSE]
      BY <2>2 DEF OnYield
    <3> DEFINE q == yv[t].r
    <3>2. plug' = [plug EXCEPT ![q].dact = FALSE, ![q].dgen = NoGen, ![q].grp = FALSE] /\ q \in Regs
      BY <2>1, <3>1
    <3> HIDE DEF q
    <3>3. QED
      BY <3>2, ZenonT(30) DEF PlugTypes
  <2>3. CASE OnYieldKilled(t)
    BY <2>1, <2>3 DEF OnYieldKilled, PlugTypes
  <2>4. QED
    BY <1>6, <2>2, <2>3
<1>7. ASSUME NEW r \in Regs, Start(r) \/ Stop(r) \/ KillDetach(r) \/ KillWait(r) PROVE PlugTypes'
  <2>1. CASE Start(r)
    BY <2>1 DEF Start, PlugTypes
  <2>2. CASE Stop(r)
    BY <2>2 DEF Stop, PlugTypes
  <2>3. CASE KillDetach(r)
    BY <2>3 DEF KillDetach, PlugTypes
  <2>4. CASE KillWait(r)
    BY <2>4 DEF KillWait, PlugTypes
  <2>5. QED
    BY <1>7, <2>1, <2>2, <2>3, <2>4
<1>8. ASSUME NEW r \in Regs, PipelineFails(r) \/ FailureHook(r) \/ CaptureDone(r) \/ MonitorLease(r) \/ MonitorExhaust(r)
      PROVE PlugTypes'
  <2>1. CASE PipelineFails(r)
    BY <2>1 DEF PipelineFails, PlugTypes
  <2>2. CASE FailureHook(r)
    BY <2>2 DEF FailureHook, PlugTypes
  <2>3. CASE CaptureDone(r)
    BY <2>3 DEF CaptureDone, PlugTypes
  <2>4. CASE MonitorLease(r)
    BY <2>4 DEF MonitorLease, PlugTypes
  <2>5. CASE MonitorExhaust(r)
    BY <2>5 DEF MonitorExhaust, PlugTypes
  <2>6. QED
    BY <1>8, <2>1, <2>2, <2>3, <2>4, <2>5
<1>9. ASSUME NEW r \in Regs, MonitorRetry(r) PROVE PlugTypes'
  BY <1>4, <1>9 DEF MonitorRetry
<1>10. ASSUME NEW r \in Regs, RestartForgotten(r) PROVE PlugTypes'
  <2>1. plug[r].budget \in 0 .. MaxRestarts /\ MaxRestarts \in Nat /\ plug[r].budget > 0
    BY <1>10, RestartAssumption DEF RestartForgotten, PlugTypes
  <2>2. plug' = [plug EXCEPT ![r].budget = plug[r].budget - 1]
    BY <1>10 DEF RestartForgotten
  <2>3. QED
    BY <2>1, <2>2 DEF PlugTypes
<1>11. CASE UNCHANGED plug
  BY <1>11 DEF PlugTypes
<1>12. QED
  BY <1>1, <1>2, <1>3, <1>5, <1>6, <1>7, <1>8, <1>9, <1>10, <1>11, PlugWriters

LEMMA MonTypesKeep ==
    ASSUME SdrTypes, SlotTypes, PlugTypes, MonTypes, LocalTypes, LocalsKnown, [Next]_vars
    PROVE  MonTypes'
<1> DEFINE MonPcs == {"idle", "hook", "suspend", "released", "exhausted", "lease", "lastlease", "retry", "exhaust"}
<1>1. CASE LaunchOk
  <2> DEFINE late == mon[sv.r].pc # "idle"
  <2>1. mon' = [mon EXCEPT ![sv.r].late = late] /\ late \in BOOLEAN
    BY <1>1 DEF LaunchOk
  <2> HIDE DEF late
  <2>2. CASE late = TRUE
    BY <2>1, <2>2, ZenonT(30) DEF MonTypes
  <2>3. CASE late = FALSE
    BY <2>1, <2>3, ZenonT(30) DEF MonTypes
  <2>4. QED
    BY <2>1, <2>2, <2>3
<1>2. ASSUME NEW r \in Regs, PipelineFails(r) \/ FailureHook(r) \/ CaptureDone(r) PROVE MonTypes'
  <2>1. plug[r].dgen \in Gens \cup {NoGen, 0}
    BY DEF PlugTypes
  <2>2. CASE PipelineFails(r)
    BY <2>2 DEF PipelineFails, MonGoto, MonTypes
  <2>3. CASE FailureHook(r)
    BY <2>1, <2>3, ZenonT(30) DEF FailureHook, MonTypes
  <2>4. CASE CaptureDone(r)
    <3>1. mon' = [mon EXCEPT ![r].pc = "released", ![r].gen = plug[r].dgen]
      BY <2>4 DEF CaptureDone
    <3>2. QED
      BY <2>1, <3>1, ZenonT(30) DEF MonTypes
  <2>5. QED
    BY <1>2, <2>2, <2>3, <2>4
<1>3. ASSUME NEW r \in Regs, MonitorRelease(r) PROVE MonTypes'
  <2>1. ReleasedLease(Owner[r], mon[r].gen) \in Ids \cup {0} /\ ReleasedReg(Owner[r], mon[r].gen) \in Regs \cup {None}
    BY SlotOfFacts DEF ReleasedLease, ReleasedReg, SlotTypes
  <2>2. PICK next \in {"lease", "lastlease"} :
           mon' = [mon EXCEPT ![r].pc = next, ![r].gen = NoGen, ![r].lease = ReleasedLease(Owner[r], mon[r].gen),
                              ![r].reg = ReleasedReg(Owner[r], mon[r].gen)]
    BY <1>3 DEF MonitorRelease
  <2> DEFINE half == [mon EXCEPT ![r].pc = next, ![r].gen = NoGen]
             l == ReleasedLease(Owner[r], mon[r].gen)
             q == ReleasedReg(Owner[r], mon[r].gen)
  <2>3. half \in [Regs -> [pc : {"idle", "hook", "suspend", "released", "exhausted", "lease",
                                 "lastlease", "retry", "exhaust"},
                           gen : Gens \cup {NoGen, 0}, lease : Ids \cup {0},
                           reg : Regs \cup {None}, late : BOOLEAN]]
    BY <2>2 DEF MonTypes
  <2>4. mon' = [half EXCEPT ![r].lease = l, ![r].reg = q]
    BY <2>2
  <2>5. l \in Ids \cup {0} /\ q \in Regs \cup {None}
    BY <2>1
  <2> DEFINE most == [half EXCEPT ![r].lease = l]
  <2> HIDE DEF half, l, q
  <2>6. most \in [Regs -> [pc : {"idle", "hook", "suspend", "released", "exhausted", "lease",
                                 "lastlease", "retry", "exhaust"},
                           gen : Gens \cup {NoGen, 0}, lease : Ids \cup {0},
                           reg : Regs \cup {None}, late : BOOLEAN]]
    BY <2>3, <2>5
  <2>7. mon' = [most EXCEPT ![r].reg = q]
    BY <2>4
  <2> HIDE DEF most
  <2>8. QED
    BY <2>5, <2>6, <2>7 DEF MonTypes
<1>4. ASSUME NEW r \in Regs, MonitorLease(r) PROVE MonTypes'
  <2>1. CASE mon[r].pc = "lastlease"
    BY <1>4, <2>1 DEF MonitorLease, IdleMonitor, MonTypes
  <2>2. CASE mon[r].pc # "lastlease"
    <3>1. mon' = [mon EXCEPT ![r].pc = "retry", ![r].lease = 0]
      BY <1>4, <2>2 DEF MonitorLease, MonTypes
    <3>2. QED
      BY <3>1, ZenonT(30) DEF MonTypes
  <2>3. QED
    BY <2>1, <2>2
<1>5. ASSUME NEW r \in Regs, MonitorRetry(r) PROVE MonTypes'
  <2>1. mon[r].late \in BOOLEAN
    BY DEF MonTypes
  <2>2. CASE RetryAllowed(r, mon[r].reg)
    <3>1. mon' = [mon EXCEPT ![r] = IdleMonitor]
      BY <1>5, <2>2 DEF MonitorRetry
    <3>2. QED
      BY <3>1 DEF IdleMonitor, MonTypes
  <2>3. CASE ~ RetryAllowed(r, mon[r].reg)
    <3> DEFINE late == mon[r].late
               out == [IdleMonitor EXCEPT !.pc = "exhaust", !.late = late]
    <3>1. mon' = [mon EXCEPT ![r] = out]
      BY <1>5, <2>3 DEF MonitorRetry
    <3>2. out \in [pc : {"idle", "hook", "suspend", "released", "exhausted", "lease",
                         "lastlease", "retry", "exhaust"},
                   gen : Gens \cup {NoGen, 0}, lease : Ids \cup {0},
                   reg : Regs \cup {None}, late : BOOLEAN]
      <4>1. late \in BOOLEAN
        BY <2>1
      <4> HIDE DEF late
      <4>2. QED
        BY <4>1 DEF IdleMonitor
    <3> HIDE DEF out
    <3>3. QED
      BY <3>1, <3>2 DEF MonTypes
  <2>4. QED
    BY <2>2, <2>3
<1>6. ASSUME NEW r \in Regs, MonitorExhaust(r) PROVE MonTypes'
  <2>1. plug[r].dgen \in Gens \cup {NoGen, 0}
    BY DEF PlugTypes
  <2>2. CASE plug[r].dact \/ plug[r].dgen # NoGen
    <3>1. mon' = [mon EXCEPT ![r].pc = "exhausted", ![r].gen = plug[r].dgen]
      BY <1>6, <2>2 DEF MonitorExhaust, MonTypes
    <3>2. QED
      BY <2>1, <3>1, ZenonT(30) DEF MonTypes
  <2>3. CASE ~ (plug[r].dact \/ plug[r].dgen # NoGen)
    <3>1. mon' = [mon EXCEPT ![r] = IdleMonitor]
      BY <1>6, <2>3 DEF MonitorExhaust
    <3>2. QED
      BY <3>1 DEF IdleMonitor, MonTypes
  <2>4. QED
    BY <2>2, <2>3
<1>7. CASE UNCHANGED mon
  BY <1>7 DEF MonTypes
<1>8. QED
  BY <1>1, <1>2, <1>3, <1>4, <1>5, <1>6, <1>7, MonWriters

-----------------------------------------------------------------------------
(* Threads *)

LEMMA ThreadsApart ==
    /\ Sched \in Threads /\ App \in Threads /\ Regs \subseteq Threads
    /\ Sched # App /\ Sched \notin Regs /\ App \notin Regs
BY ThreadAssumption DEF Sched, App, Threads

(* Every step moves one thread at most. *)
LEMMA PcWriters ==
    ASSUME [Next]_vars
    PROVE  \/ pc' = pc
           \/ SchedStep /\ \E l \in SchedPlaces : pc' = [pc EXCEPT ![Sched] = l]
           \/ \E t \in Threads : YieldStep(t) /\ \E l \in {"ykill", "yrelease", "down", "yback"} :
                 pc' = [pc EXCEPT ![t] = l]
           \/ \E r \in Regs : /\ Start(r) \/ Stop(r) \/ UnregisterYield(r) \/ UnregisterPop(r) \/ KillDetach(r) \/ KillWait(r)
                              /\ \E l \in ControlPlaces : pc' = [pc EXCEPT ![r] = l]
           \/ Shutdown /\ pc' = [pc EXCEPT ![App] = "shutdown"]
           \/ StopScheduler /\ \E l \in {"ycb", "down"} : pc' = [pc EXCEPT ![App] = l]
<1>1. CASE Loop \/ EvaluateKeep \/ EvaluateWindowEnd \/ EvaluatePreflight \/ ClaimDevice \/ PreflightStop
           \/ AcquireCheck \/ ReleaseStale \/ OnAcquire \/ LaunchOk
  BY <1>1 DEF SchedStep, Loop, EvaluateKeep, EvaluateWindowEnd, EvaluatePreflight, ClaimDevice, PreflightStop,
     AcquireCheck, ReleaseStale, OnAcquire, LaunchOk, Goto, SchedIdle, SchedPlaces, Preflight, Acquiring, Yielding
<1>2. CASE LaunchFail \/ LaunchSuspend \/ LaunchRetry \/ LaunchRelease \/ LaunchBack \/ Discard \/ Grant
  BY <1>2 DEF SchedStep, LaunchFail, LaunchSuspend, LaunchRetry, LaunchRelease, LaunchBack, Discard, Grant,
     Goto, SchedIdle, SchedPlaces, Preflight, Acquiring, Yielding
<1>3. CASE EvaluateAcquire \/ PreflightHandoff \/ AfterYield
  <2>1. ASSUME NEW c, BeginAcquire(c) PROVE \E l \in SchedPlaces : pc' = [pc EXCEPT ![Sched] = l]
    BY <2>1 DEF BeginAcquire, SchedPlaces, Acquiring
  <2>2. CASE EvaluateAcquire
    BY <2>1, <2>2 DEF EvaluateAcquire, SchedStep
  <2>3. CASE PreflightHandoff
    BY <2>1, <2>3 DEF PreflightHandoff, SchedStep, Goto, SchedPlaces, Yielding
  <2>4. CASE AfterYield
    BY <2>1, <2>4 DEF AfterYield, SchedStep, SchedIdle, Goto, SchedPlaces
  <2>5. QED
    BY <1>3, <2>2, <2>3, <2>4
<1>4. CASE \E t \in Threads : YieldStep(t)
  BY <1>4 DEF YieldStep, OnYield, OnYieldKilled, YieldRelease, Goto
<1>5. CASE \E r \in Regs : ControlStep(r)
  BY <1>5, ZenonT(30) DEF ControlStep, Start, Stop, UnregisterYield, UnregisterPop, KillDetach, KillWait, Goto,
     Lock, Unlock, AddWindow, RemoveWindows, WindowOpens, WindowCloses, SetWindow, ControlPlaces, Yielding
<1>6. CASE \E r \in Regs : MonitorStep(r) \/ WorkerStep(r) \/ RestartForgotten(r)
  BY <1>6 DEF MonitorStep, WorkerStep, PipelineFails, FailureHook, CaptureDone,
     MonitorRelease, MonitorLease, MonitorRetry, MonitorExhaust, WorkerWakes, Resume, RestartForgotten
<1>7. CASE Shutdown \/ StopScheduler \/ SliceElapses \/ Replug \/ UNCHANGED vars
  BY <1>7 DEF vars, Shutdown, StopScheduler, SliceElapses, Replug, Goto
<1>8. CASE \E o \in Outsiders : OutsiderClaims(o) \/ OutsiderReleases(o)
  BY <1>8 DEF OutsiderClaims, OutsiderReleases
<1>9. QED
  BY <1>1, <1>2, <1>3, <1>4, <1>5, <1>6, <1>7, <1>8 DEF Next, SchedStep

(* What a thread may have just done; everybody else stands still. *)
ControlMoves(r) == Start(r) \/ Stop(r) \/ UnregisterYield(r) \/ UnregisterPop(r) \/ KillDetach(r) \/ KillWait(r)

LEMMA ThreadMoves ==
    ASSUME [Next]_vars, Places, NEW t \in Threads
    PROVE  \/ pc'[t] = pc[t]
           \/ t = Sched /\ SchedStep
           \/ YieldStep(t)
           \/ t = App /\ (Shutdown \/ StopScheduler)
           \/ t \in Regs /\ ControlMoves(t)
BY PcWriters, ThreadsApart DEF Places, ControlMoves

LEMMA PlacesKeep ==
    ASSUME [Next]_vars, Places
    PROVE  Places'
<1>1. pc' \in [Threads -> SchedPlaces \cup AppPlaces \cup ControlPlaces]
  <2>1. {"ykill", "yrelease", "down", "yback", "shutdown", "ycb"} \subseteq SchedPlaces \cup AppPlaces \cup ControlPlaces
    BY DEF SchedPlaces, AppPlaces, Yielding
  <2>2. \A t \in Threads, l \in SchedPlaces \cup AppPlaces \cup ControlPlaces :
           [pc EXCEPT ![t] = l] \in [Threads -> SchedPlaces \cup AppPlaces \cup ControlPlaces]
    BY DEF Places
  <2>3. QED
    BY <2>1, <2>2, PcWriters, ThreadsApart DEF Places
<1>2. pc'[Sched] \in SchedPlaces
  <2>1. CASE YieldStep(Sched)
    BY <2>1, ThreadsApart DEF Places, YieldStep, OnYield, OnYieldKilled, YieldRelease, Goto, SchedPlaces, Yielding
  <2>2. CASE ~ YieldStep(Sched)
    BY <2>2, PcWriters, ThreadsApart DEF Places
  <2>3. QED
    BY <2>1, <2>2
<1>3. pc'[App] \in AppPlaces
  <2>1. CASE YieldStep(App)
    BY <2>1, ThreadsApart DEF Places, YieldStep, OnYield, OnYieldKilled, YieldRelease, Goto, AppPlaces, Yielding
  <2>2. CASE ~ YieldStep(App)
    BY <2>2, PcWriters, ThreadsApart DEF Places, AppPlaces, Yielding
  <2>3. QED
    BY <2>1, <2>2
<1>4. ASSUME NEW r \in Regs PROVE pc'[r] \in ControlPlaces
  <2>1. CASE YieldStep(r)
    BY <2>1, ThreadsApart DEF Places, YieldStep, OnYield, OnYieldKilled, YieldRelease, Goto, ControlPlaces, Yielding
  <2>2. CASE ~ YieldStep(r)
    BY <2>2, PcWriters, ThreadsApart DEF Places
  <2>3. QED
    BY <2>1, <2>2
<1>5. QED
  BY <1>1, <1>2, <1>3, <1>4 DEF Places

(* A thread's locals of _do_yield are its own. *)
LEMMA YvMoves ==
    ASSUME [Next]_vars, Places, LocalTypes, LocalsKnown, SdrTypes, SlotTypes, Registration, NEW t \in Threads
    PROVE  \/ yv'[t] = yv[t]
           \/ /\ \/ t = Sched /\ (EvaluateWindowEnd \/ PreflightHandoff)
                 \/ t = App /\ StopScheduler
                 \/ t \in Regs /\ UnregisterYield(t)
              /\ \E q \in Registered : yv'[t] = [r |-> q, lease |-> slot[q].lease] /\ ~ slot'[q].active
           \/ t = Sched /\ Discard /\ yv'[t] = [r |-> sv.r, lease |-> sv.lease]
           \/ YieldRelease(t) /\ yv'[t] = IdleYield
<1>1. ASSUME NEW s \in Threads, NEW c \in Callers, NEW p, SlotOf(c) # None, DoYield(s, c, p)
      PROVE  \/ yv'[t] = yv[t]
             \/ t = s /\ \E q \in Registered : yv'[t] = [r |-> q, lease |-> slot[q].lease] /\ ~ slot'[q].active
  BY <1>1, DoYieldFacts, SlotOfFacts DEF LocalTypes
<1>2. CASE EvaluateWindowEnd \/ PreflightHandoff \/ StopScheduler
  <2>1. SlotOf(holder) # None => holder \in Callers
    BY SlotOfFacts, GivingUp
  <2>2. CASE EvaluateWindowEnd
    BY <1>1, <2>1, <2>2, ThreadsApart DEF EvaluateWindowEnd
  <2>3. CASE PreflightHandoff
    BY <1>1, <2>1, <2>3, ThreadsApart DEF PreflightHandoff
  <2>4. CASE StopScheduler
    BY <1>1, <2>1, <2>4, ThreadsApart DEF StopScheduler
  <2>5. QED
    BY <1>2, <2>2, <2>3, <2>4
<1>3. CASE Discard
  BY <1>3, ThreadsApart DEF Discard, LocalTypes
<1>4. ASSUME NEW s \in Threads, YieldRelease(s)
      PROVE  yv'[t] = yv[t] \/ (YieldRelease(t) /\ yv'[t] = IdleYield)
  BY <1>4 DEF YieldRelease, LocalTypes
<1>5. ASSUME NEW r \in Regs, UnregisterYield(r)
      PROVE  \/ yv'[t] = yv[t]
             \/ t \in Regs /\ UnregisterYield(t) /\ \E q \in Registered : yv'[t] = [r |-> q, lease |-> slot[q].lease] /\ ~ slot'[q].active
  <2>1. r \in Registered
    BY <1>5 DEF UnregisterYield, Registration
  <2>2. Owner[r] \in Callers /\ SlotOf(Owner[r]) # None
    BY <2>1, GivingUp, SlotOfFacts
  <2>3. r \in Threads /\ DoYield(r, Owner[r], FALSE)
    BY <1>5, ThreadsApart DEF UnregisterYield
  <2>4. QED
    BY <1>1, <1>5, <2>2, <2>3
<1>6. QED
  BY <1>2, <1>3, <1>4, <1>5, YvWriters

-----------------------------------------------------------------------------
(* The scheduler thread's locals *)

LEMMA IdleSchedTyped ==
    /\ IdleSched \in SchedLocals
    /\ IdleSched.lease = 0 /\ IdleSched.then = "idle"
    /\ \A l \in {"idle", "bg", "acquire"} : [IdleSched EXCEPT !.then = l] \in SchedLocals
    /\ \A c \in Callers : /\ [IdleSched EXCEPT !.c = c, !.then = "acquire"] \in SchedLocals
                          /\ [IdleSched EXCEPT !.c = c, !.then = "acquire"].c = c
                          /\ [IdleSched EXCEPT !.c = c, !.then = "acquire"].lease = 0
                          /\ [IdleSched EXCEPT !.c = c, !.then = "acquire"].then = "acquire"
    /\ \A l \in {"idle", "bg", "acquire"} : [IdleSched EXCEPT !.then = l].lease = 0
                                            /\ [IdleSched EXCEPT !.then = l].then = l
<1>1. IdleSched \in SchedLocals /\ IdleSched.lease = 0 /\ IdleSched.then = "idle"
  BY DEF IdleSched, SchedLocals
<1>2. ASSUME NEW l \in {"idle", "bg", "acquire"}
      PROVE  [IdleSched EXCEPT !.then = l] \in SchedLocals
             /\ [IdleSched EXCEPT !.then = l].lease = 0 /\ [IdleSched EXCEPT !.then = l].then = l
  BY DEF IdleSched, SchedLocals
<1>4. ASSUME NEW c \in Callers
      PROVE  /\ [IdleSched EXCEPT !.c = c, !.then = "acquire"] \in SchedLocals
             /\ [IdleSched EXCEPT !.c = c, !.then = "acquire"].c = c
             /\ [IdleSched EXCEPT !.c = c, !.then = "acquire"].lease = 0
             /\ [IdleSched EXCEPT !.c = c, !.then = "acquire"].then = "acquire"
  BY DEF IdleSched, SchedLocals
<1>5. QED
  BY <1>1, <1>2, <1>4

(* _do_acquire: a caller with a slot *)
LEMMA BeginAcquireLocals ==
    ASSUME SdrTypes, SlotTypes, NEW c, BeginAcquire(c)
    PROVE  \/ pc' = [pc EXCEPT ![Sched] = "idle"] /\ sv' = IdleSched
           \/ /\ pc' = [pc EXCEPT ![Sched] = "claim"]
              /\ sv' \in SchedLocals /\ sv'.lease = 0
              /\ sv'.c = c /\ sv'.r \in Registered /\ sv'.r \in Regs /\ Owner[sv'.r] = c
              /\ sv'.gen = gen'
<1>1. CASE SlotOf(c) \in Regs /\ Owner[SlotOf(c)] = c
  <2> DEFINE r == SlotOf(c)
             g == gen'
  <2>1. \/ pc' = [pc EXCEPT ![Sched] = "idle"] /\ sv' = IdleSched
        \/ /\ r \in Registered /\ g \in Gens
           /\ sv' = [IdleSched EXCEPT !.c = c, !.r = r, !.gen = g]
           /\ pc' = [pc EXCEPT ![Sched] = "claim"]
    BY BeginAcquireFacts
  <2>2. r \in Regs /\ Owner[r] = c /\ c \in Callers
    BY <1>1 DEF Callers
  <2> HIDE DEF r, g
  <2>3. ASSUME g \in Gens, sv' = [IdleSched EXCEPT !.c = c, !.r = r, !.gen = g]
        PROVE  sv' \in SchedLocals /\ sv'.lease = 0 /\ sv'.c = c /\ sv'.r = r /\ sv'.gen = g
    BY <2>2, <2>3 DEF IdleSched, SchedLocals
  <2>4. QED
    BY <2>1, <2>2, <2>3 DEF g
<1>2. CASE ~ (SlotOf(c) \in Regs /\ Owner[SlotOf(c)] = c)
  BY <1>2, BeginAcquireFacts
<1>3. QED
  BY <1>1, <1>2

(* Where the scheduler thread gets to, and with what *)
LEMMA SchedMoves ==
    ASSUME [Next]_vars, SdrTypes, SlotTypes, LocalTypes, Places, LocalsKnown, Registration, RotationExact
    PROVE  \/ pc'[Sched] = pc[Sched] /\ sv' = sv
           \/ pc'[Sched] = "idle" /\ (sv' = IdleSched \/ (pc[Sched] = "eval" /\ sv' = sv))
           \/ Loop /\ pc'[Sched] = "eval" /\ sv' = sv
           \/ EvaluateWindowEnd /\ pc'[Sched] = "ycb" /\ sv' = [IdleSched EXCEPT !.then = "bg"]
           \/ PreflightHandoff /\ pc'[Sched] = "ycb" /\ sv' = [IdleSched EXCEPT !.c = sv.c, !.then = "acquire"]
           \/ Discard /\ pc'[Sched] = "ycb" /\ sv' = IdleSched
           \/ /\ EvaluatePreflight /\ pc'[Sched] = "pfclaim"
              /\ sv' \in SchedLocals /\ sv'.r \in Registered /\ sv'.c = Owner[sv'.r] /\ sv'.lease = 0
              /\ sv'.gen = gen /\ sv'.hold = holder /\ sv'.lock = lockedBy
              /\ sv'.c # holder /\ holder # None /\ CanPreempt(sv'.c)
           \/ /\ EvaluateAcquire \/ PreflightHandoff \/ AfterYield
              /\ pc'[Sched] = "claim"
              /\ sv' \in SchedLocals /\ sv'.r \in Registered /\ sv'.c = Owner[sv'.r] /\ sv'.lease = 0
              /\ sv'.gen = gen'
           \/ /\ ClaimDevice
              /\ \/ pc[Sched] = "pfclaim" /\ pc'[Sched] = "pfback"
                 \/ pc[Sched] = "claim" /\ pc'[Sched] = "claimed"
              /\ sv' \in SchedLocals
              /\ sv'.c = sv.c /\ sv'.r = sv.r /\ sv'.gen = sv.gen /\ sv'.hold = sv.hold /\ sv'.lock = sv.lock
              /\ \/ sv'.lease = sv.lease /\ sv'.res # "ok" /\ claimed' = claimed
                 \/ /\ FreshId(sv'.lease) /\ sv'.res = "ok"
                    /\ claimed' = ReleasedBy(sv.c) \cup {[id |-> sv'.lease, caller |-> sv.c]}
           \/ /\ pc[Sched] \in Acquiring /\ pc'[Sched] \in Acquiring \ {"claim", "claimed"} /\ sv' = sv
              /\ pc[Sched] = "claimed" /\ pc'[Sched] = "cb" => sv.res = "ok"
              /\ pc'[Sched] \in {"launch", "cbback"} => pc[Sched] \in {"cb", "launch"}
              /\ pc'[Sched] = "cb" => pc[Sched] = "claimed"
           \/ LaunchSuspend /\ pc'[Sched] = "lretry" /\ sv' = [sv EXCEPT !.hold = ReleasedReg(sv.c, plug[sv.r].dgen)]
           \/ YieldStep(Sched) /\ pc[Sched] \in Yielding /\ pc'[Sched] \in {"ykill", "yrelease", "yback"} /\ sv' = sv
<1>0. Sched \in DOMAIN pc /\ \A t \in Threads \ {Sched} : \A l : [pc EXCEPT ![t] = l][Sched] = pc[Sched]
  BY ThreadsApart DEF Places
<1>1. CASE Loop \/ EvaluateKeep
  BY <1>0, <1>1 DEF Loop, EvaluateKeep, Goto
<1>2. CASE EvaluateWindowEnd
  BY <1>0, <1>2 DEF EvaluateWindowEnd, Goto
<1>3. CASE EvaluateAcquire
  <2>1. BeginAcquire(PickWinner.c)
    BY <1>3 DEF EvaluateAcquire
  <2>2. QED
    BY <1>0, <1>3, <2>1, BeginAcquireLocals
<1>4. CASE EvaluatePreflight
  <2>1. PickWinner.c # None
    BY <1>4 DEF EvaluatePreflight
  <2> DEFINE c == PickWinner.c
             r == SlotOf(PickWinner.c)
  <2>2. r \in Registered /\ r \in Regs /\ Owner[r] = c /\ c \in Callers
    BY <2>1, PickWinnerFacts, SlotOfFacts DEF Callers
  <2>3. CASE SchedIdle
    BY <1>0, <2>3 DEF SchedIdle, Goto
  <2>4. CASE ~ SchedIdle
    <3>1. /\ sv' = [IdleSched EXCEPT !.c = c, !.r = r, !.gen = gen, !.hold = holder, !.lock = lockedBy]
          /\ pc' = [pc EXCEPT ![Sched] = "pfclaim"]
          /\ holder # None /\ c # holder /\ CanPreempt(c)
      BY <1>4, <2>4 DEF EvaluatePreflight, Goto
    <3>2. holder \in Callers \cup {None} /\ lockedBy \in Callers \cup {None} /\ gen \in Gens \cup {0}
      BY DEF SdrTypes
    <3> DEFINE half == [IdleSched EXCEPT !.c = c, !.r = r, !.gen = gen]
    <3> HIDE DEF c, r
    <3>a. half \in SchedLocals /\ half.c = c /\ half.r = r /\ half.gen = gen /\ half.lease = 0
      BY <2>2, <3>2 DEF IdleSched, SchedLocals
    <3>b. sv' = [half EXCEPT !.hold = holder, !.lock = lockedBy]
      BY <3>1
    <3> HIDE DEF half
    <3>3. /\ sv' \in SchedLocals /\ sv'.c = c /\ sv'.r = r /\ sv'.gen = gen /\ sv'.hold = holder
          /\ sv'.lock = lockedBy /\ sv'.lease = 0
      BY <3>2, <3>a, <3>b DEF SchedLocals
    <3>4. QED
      BY <1>0, <1>4, <2>2, <3>1, <3>3
  <2>5. QED
    BY <2>3, <2>4
<1>5. CASE ClaimDevice
  <2>1. \/ pc[Sched] = "pfclaim" /\ pc'[Sched] = "pfback"
        \/ pc[Sched] = "claim" /\ pc'[Sched] = "claimed"
    <3>1. CASE pc[Sched] = "claim"
      BY <1>0, <1>5, <3>1 DEF ClaimDevice, Goto
    <3>2. CASE pc[Sched] = "pfclaim"
      <4>1. pc' = [pc EXCEPT ![Sched] = "pfback"]
        BY <1>5, <3>2 DEF ClaimDevice, Goto
      <4>2. QED
        BY <3>2, <4>1, ThreadsApart DEF Places
    <3>3. QED
      BY <1>5, <3>1, <3>2 DEF ClaimDevice
  <2>2. CASE \E x \in {"absent", "busy"} : sv' = [sv EXCEPT !.res = x] /\ claimed' = claimed
    <3>1. PICK x \in {"absent", "busy"} : sv' = [sv EXCEPT !.res = x] /\ claimed' = claimed
      BY <2>2
    <3>2. /\ sv' \in SchedLocals
          /\ sv'.c = sv.c /\ sv'.r = sv.r /\ sv'.gen = sv.gen /\ sv'.hold = sv.hold /\ sv'.lock = sv.lock
          /\ sv'.lease = sv.lease /\ sv'.res = x
      BY <3>1 DEF LocalTypes, SchedLocals
    <3>3. QED
      BY <1>5, <2>1, <3>1, <3>2
  <2>3. CASE \E i \in Ids : FreshId(i) /\ sv' = [sv EXCEPT !.res = "ok", !.lease = i]
                            /\ claimed' = ReleasedBy(sv.c) \cup {[id |-> i, caller |-> sv.c]}
    <3>1. PICK i \in Ids : FreshId(i) /\ sv' = [sv EXCEPT !.res = "ok", !.lease = i]
                           /\ claimed' = ReleasedBy(sv.c) \cup {[id |-> i, caller |-> sv.c]}
      BY <2>3
    <3>2. /\ sv' \in SchedLocals
          /\ sv'.c = sv.c /\ sv'.r = sv.r /\ sv'.gen = sv.gen /\ sv'.hold = sv.hold /\ sv'.lock = sv.lock
          /\ sv'.lease = i /\ sv'.res = "ok"
      BY <3>1 DEF LocalTypes, SchedLocals
    <3>3. QED
      BY <1>5, <2>1, <3>1, <3>2
  <2>4. QED
    BY <1>5, <2>2, <2>3 DEF ClaimDevice
<1>6. CASE PreflightStop
  BY <1>0, <1>6 DEF PreflightStop, SchedIdle, Goto
<1>7. CASE PreflightHandoff
  <2>1. CASE SlotOf(holder) = None
    <3>1. BeginAcquire(sv.c)
      BY <1>7, <2>1 DEF PreflightHandoff
    <3>2. QED
      BY <1>0, <1>7, <3>1, BeginAcquireLocals
  <2>2. CASE SlotOf(holder) # None
    BY <1>0, <1>7, <2>2 DEF PreflightHandoff, Goto
  <2>3. QED
    BY <2>1, <2>2
<1>8. CASE AfterYield
  <2>1. ASSUME NEW c, BeginAcquire(c)
        PROVE  \/ pc'[Sched] = "idle" /\ sv' = IdleSched
               \/ /\ pc'[Sched] = "claim" /\ sv'.gen = gen'
                  /\ sv' \in SchedLocals /\ sv'.r \in Registered /\ sv'.c = Owner[sv'.r] /\ sv'.lease = 0
    BY <1>0, <2>1, BeginAcquireLocals
  <2>2. QED
    BY <1>0, <1>8, <2>1 DEF AfterYield, SchedIdle, Goto
<1>9. CASE AcquireCheck
  BY <1>0, <1>9 DEF AcquireCheck, SchedIdle, Goto, Acquiring
<1>10. CASE ReleaseStale \/ LaunchBack \/ Grant
  BY <1>0, <1>10 DEF ReleaseStale, LaunchBack, Grant, SchedIdle, Goto
<1>11. CASE OnAcquire \/ LaunchOk \/ LaunchFail \/ LaunchRetry \/ LaunchRelease
  BY <1>0, <1>11 DEF OnAcquire, LaunchOk, LaunchFail, LaunchRetry, LaunchRelease, Goto, Acquiring
<1>12. CASE LaunchSuspend
  BY <1>0, <1>12 DEF LaunchSuspend, Goto
<1>13. CASE Discard
  BY <1>0, <1>13 DEF Discard, Goto
<1>14. ASSUME NEW t \in Threads, YieldStep(t)
       PROVE  \/ pc'[Sched] = pc[Sched] /\ sv' = sv
              \/ YieldStep(Sched) /\ pc[Sched] \in Yielding /\ pc'[Sched] \in {"ykill", "yrelease", "yback"} /\ sv' = sv
  BY <1>0, <1>14, ThreadsApart DEF YieldStep, OnYield, OnYieldKilled, YieldRelease, Goto, Yielding
<1>15. ASSUME NEW r \in Regs, ControlStep(r) PROVE pc'[Sched] = pc[Sched] /\ sv' = sv
  BY <1>0, <1>15, ThreadsApart DEF ControlStep, Start, Stop, UnregisterYield, UnregisterPop, KillDetach, KillWait, Goto,
     Lock, Unlock, AddWindow, RemoveWindows, WindowOpens, WindowCloses, SetWindow
<1>16. CASE \E r \in Regs : MonitorStep(r) \/ WorkerStep(r) \/ RestartForgotten(r)
  BY <1>16 DEF MonitorStep, WorkerStep, PipelineFails, FailureHook, CaptureDone,
     MonitorRelease, MonitorLease, MonitorRetry, MonitorExhaust, WorkerWakes, Resume, RestartForgotten
<1>17. CASE Shutdown \/ StopScheduler \/ SliceElapses \/ Replug \/ UNCHANGED vars
  BY <1>0, <1>17, ThreadsApart DEF vars, Shutdown, StopScheduler, SliceElapses, Replug, Goto
<1>18. CASE \E o \in Outsiders : OutsiderClaims(o) \/ OutsiderReleases(o)
  BY <1>18 DEF OutsiderClaims, OutsiderReleases
<1>19. QED
  BY <1>1, <1>2, <1>3, <1>4, <1>5, <1>6, <1>7, <1>8, <1>9, <1>10, <1>11, <1>12, <1>13, <1>14, <1>15, <1>16, <1>17, <1>18
     DEF Next, SchedStep

LEMMA LocalTypesKeep ==
    ASSUME [Next]_vars, SdrTypes, SlotTypes, LocalTypes, Places, LocalsKnown, Registration, RotationExact
    PROVE  LocalTypes'
<1>1. worker' \in [Regs -> SUBSET {"sleep", "resume"}]
  <2>1. CASE LaunchOk \/ LaunchRetry
    <3>1. sv.r \in Regs
      BY <2>1 DEF LaunchOk, LaunchRetry, LocalsKnown, Acquiring
    <3>2. QED
      BY <2>1, <3>1 DEF LaunchOk, LaunchRetry, ScheduleRetry, LocalTypes
  <2>2. ASSUME NEW r \in Regs, Stop(r) \/ MonitorRetry(r) \/ WorkerWakes(r) \/ Resume(r)
        PROVE  worker' \in [Regs -> SUBSET {"sleep", "resume"}]
    BY <2>2 DEF Stop, MonitorRetry, ScheduleRetry, WorkerWakes, Resume, LocalTypes
  <2>3. CASE worker' = worker
    BY <2>3 DEF LocalTypes
  <2>4. QED
    BY <2>1, <2>2, <2>3, WorkerWriters
<1>2. sv' \in SchedLocals
  <2>1. sv \in SchedLocals
    BY DEF LocalTypes
  <2>2. PreflightHandoff => sv.c \in Callers
    BY DEF PreflightHandoff, LocalsKnown, Preflight, Callers
  <2>3. CASE LaunchSuspend /\ sv' = [sv EXCEPT !.hold = ReleasedReg(sv.c, plug[sv.r].dgen)]
    <3> DEFINE q == ReleasedReg(sv.c, plug[sv.r].dgen)
    <3>1. q \in Regs \cup {None}
      BY SlotOfFacts DEF ReleasedReg
    <3> HIDE DEF q
    <3>2. sv' = [sv EXCEPT !.hold = q]
      BY <2>3 DEF q
    <3>3. QED
      BY <2>1, <3>1, <3>2 DEF SchedLocals
  <2>4. QED
    BY <2>1, <2>2, <2>3, SchedMoves, IdleSchedTyped
<1>3. ASSUME NEW t \in Threads PROVE yv'[t] \in [r : Regs \cup {None}, lease : Ids \cup {0}]
  <2>1. yv[t] \in [r : Regs \cup {None}, lease : Ids \cup {0}]
    BY DEF LocalTypes
  <2>2. CASE \E q \in Registered : yv'[t] = [r |-> q, lease |-> slot[q].lease]
    BY <2>2, SlotOfFacts DEF SlotTypes
  <2>3. CASE yv'[t] = [r |-> sv.r, lease |-> sv.lease]
    BY <2>3 DEF LocalTypes, SchedLocals
  <2>4. CASE yv'[t] = IdleYield
    BY <2>4 DEF IdleYield
  <2>5. QED
    BY <2>1, <2>2, <2>3, <2>4, YvMoves
<1>4. \E f : yv' = [t \in Threads |-> f[t]]
  <2>1. CASE EvaluateWindowEnd \/ PreflightHandoff \/ Discard \/ StopScheduler
    BY <2>1 DEF EvaluateWindowEnd, PreflightHandoff, Discard, StopScheduler, DoYield, LocalTypes
  <2>2. ASSUME NEW s \in Threads, NEW y, yv' = [yv EXCEPT ![s] = y] PROVE \E f : yv' = [t \in Threads |-> f[t]]
    <3>1. yv' = [t \in Threads |-> yv'[t]]
      BY <2>2 DEF LocalTypes
    <3>2. QED
      BY <3>1
  <2>a. (\E t \in Threads : YieldRelease(t)) \/ (\E r \in Regs : UnregisterYield(r))
           => \E s \in Threads : \E y : yv' = [yv EXCEPT ![s] = y]
    BY ThreadsApart DEF YieldRelease, UnregisterYield, DoYield
  <2>3. CASE yv' = yv
    BY <2>3 DEF LocalTypes
  <2>4. QED
    BY <2>1, <2>2, <2>3, <2>a, YvWriters
<1>5. yv' \in [Threads -> [r : Regs \cup {None}, lease : Ids \cup {0}]]
  BY <1>3, <1>4
<1>6. QED
  BY <1>1, <1>2, <1>5 DEF LocalTypes

(* A thread enters the second half of _do_yield with the slot it deactivated. *)
LEMMA YieldStarts ==
    ASSUME [Next]_vars, SdrTypes, SlotTypes, LocalTypes, Places, LocalsKnown, Registration, RotationExact,
           NEW t \in Threads, pc[t] \notin Yielding
    PROVE  /\ pc'[t] \in Yielding => yv'[t].r \in Regs
           /\ pc'[t] \notin Yielding => yv'[t] = yv[t]
<1>1. ASSUME NEW s \in Threads, NEW c \in Callers, NEW p, SlotOf(c) # None, DoYield(s, c, p)
      PROVE  IF t = s THEN yv'[t].r \in Regs ELSE yv'[t] = yv[t]
  BY <1>1, DoYieldFacts, SlotOfFacts DEF LocalTypes
<1>2. SlotOf(holder) # None => holder \in Callers
  BY SlotOfFacts, GivingUp
<1>3. CASE EvaluateWindowEnd
  BY <1>1, <1>2, <1>3, ThreadsApart DEF EvaluateWindowEnd, Goto, Places, Yielding
<1>4. CASE PreflightHandoff
  <2>1. CASE SlotOf(holder) = None
    <3>1. yv' = yv /\ BeginAcquire(sv.c)
      BY <1>4, <2>1 DEF PreflightHandoff
    <3>2. pc'[t] \notin Yielding
      <4>1. \E l \in {"idle", "claim"} : pc' = [pc EXCEPT ![Sched] = l]
        BY <3>1 DEF BeginAcquire
      <4>2. QED
        BY <4>1 DEF Places, Yielding
    <3>3. QED
      BY <3>1, <3>2
  <2>2. CASE SlotOf(holder) # None
    BY <1>1, <1>2, <1>4, <2>2, ThreadsApart DEF PreflightHandoff, Goto, Places, Yielding
  <2>3. QED
    BY <2>1, <2>2
<1>5. CASE StopScheduler
  BY <1>1, <1>2, <1>5, ThreadsApart DEF StopScheduler, Goto, Places, Yielding
<1>6. CASE Discard
  <2>1. sv.r \in Regs
    BY <1>6 DEF Discard, LocalsKnown, Acquiring
  <2>2. QED
    BY <1>6, <2>1, ThreadsApart DEF Discard, Goto, Places, Yielding, LocalTypes
<1>7. ASSUME NEW r \in Regs, UnregisterYield(r)
      PROVE  IF t = r THEN yv'[t].r \in Regs /\ pc'[t] \in Yielding ELSE yv'[t] = yv[t] /\ pc'[t] = pc[t]
  <2>1. Owner[r] \in Callers /\ SlotOf(Owner[r]) # None /\ r \in Threads
    BY <1>7, GivingUp, SlotOfFacts, ThreadsApart
  <2>2. QED
    BY <1>1, <1>7, <2>1 DEF UnregisterYield, Goto, Places, Yielding
<1>8. ASSUME NEW s \in Threads, YieldRelease(s) PROVE s # t /\ yv'[t] = yv[t] /\ pc'[t] = pc[t]
  <2>1. s # t
    BY <1>8 DEF YieldRelease, Yielding
  <2>2. QED
    BY <1>8, <2>1 DEF YieldRelease, Goto, Places, LocalTypes
<1>9. CASE yv' = yv /\ ~ (EvaluateWindowEnd \/ PreflightHandoff \/ Discard \/ StopScheduler) /\ ~ \E r \in Regs : UnregisterYield(r)
  <2>1. CASE pc'[t] = pc[t]
    BY <1>9, <2>1
  <2>2. CASE t = Sched /\ SchedStep
    BY <1>9, <2>2, SchedMoves DEF Yielding, Acquiring
  <2>3. CASE YieldStep(t)
    BY <2>3 DEF YieldStep, OnYield, OnYieldKilled, YieldRelease, Yielding
  <2>4. CASE t = App /\ Shutdown
    BY <1>9, <2>4, ThreadsApart DEF Shutdown, Goto, Places, Yielding
  <2>5. CASE t \in Regs /\ (Start(t) \/ Stop(t) \/ UnregisterPop(t) \/ KillDetach(t) \/ KillWait(t))
    BY <1>9, <2>5, ThreadsApart DEF Start, Stop, UnregisterPop, KillDetach, KillWait, Goto, Places, Yielding
  <2>6. QED
    BY <1>9, <2>1, <2>2, <2>3, <2>4, <2>5, ThreadMoves DEF ControlMoves
<1>10. QED
  BY <1>3, <1>4, <1>5, <1>6, <1>7, <1>8, <1>9, YvWriters

(* Until its lease is released a yielding thread keeps what it took. *)
LEMMA YieldingThread ==
    ASSUME [Next]_vars, SdrTypes, SlotTypes, LocalTypes, Places, LocalsKnown, Registration, RotationExact,
           NEW t \in Threads, pc[t] \in Yielding
    PROVE  \/ pc'[t] \in Yielding /\ yv'[t] = yv[t]
           \/ pc'[t] \notin Yielding /\ YieldRelease(t) /\ yv'[t] = IdleYield
<1>1. CASE YieldStep(t)
  BY <1>1, ThreadsApart DEF YieldStep, OnYield, OnYieldKilled, YieldRelease, Goto, Places, Yielding, LocalTypes
<1>2. CASE ~ YieldStep(t)
  <2>1. ~ (t = Sched /\ SchedStep)
    BY DEF SchedStep, Loop, EvaluateKeep, EvaluateWindowEnd, EvaluateAcquire, EvaluatePreflight, ClaimDevice,
       PreflightStop, PreflightHandoff, AfterYield, AcquireCheck, ReleaseStale, OnAcquire, LaunchOk, LaunchFail,
       LaunchSuspend, LaunchRetry, LaunchRelease, LaunchBack, Discard, Grant, Yielding
  <2>2. ~ (t = App /\ (Shutdown \/ StopScheduler)) /\ ~ (t \in Regs /\ ControlMoves(t))
    BY DEF Shutdown, StopScheduler, ControlMoves, Start, Stop, UnregisterYield, UnregisterPop, KillDetach, KillWait, Yielding
  <2>3. pc'[t] = pc[t]
    BY <1>2, <2>1, <2>2, ThreadMoves
  <2>4. yv'[t] = yv[t]
    BY <1>2, <2>1, <2>2, YvMoves DEF SchedStep, YieldStep, ControlMoves
  <2>5. QED
    BY <2>3, <2>4
<1>3. QED
  BY <1>1, <1>2

LEMMA LocalsKnownKeep ==
    ASSUME [Next]_vars, SdrTypes, SlotTypes, LocalTypes, Places, LocalsKnown, Registration, RotationExact
    PROVE  LocalsKnown'
<1>1. /\ (sv'.r \in Regs /\ sv'.c = Owner[sv'.r]) \/ pc'[Sched] \notin Preflight \cup Acquiring
      /\ pc'[Sched] \in {"idle", "eval", "pfclaim", "claim"} \cup Yielding \cup {"yback"} => sv'.lease = 0
      /\ pc'[Sched] \in Yielding \cup {"yback"} /\ sv'.then = "acquire" => sv'.c \in Callers
  <2>1. /\ (sv.r \in Regs /\ sv.c = Owner[sv.r]) \/ pc[Sched] \notin Preflight \cup Acquiring
        /\ pc[Sched] \in {"idle", "eval", "pfclaim", "claim"} \cup Yielding \cup {"yback"} => sv.lease = 0
        /\ pc[Sched] \in Yielding \cup {"yback"} /\ sv.then = "acquire" => sv.c \in Callers
    BY DEF LocalsKnown
  <2>2. Registered \subseteq Regs
    BY SlotOfFacts
  <2>3. LaunchSuspend => /\ pc[Sched] \in Acquiring
                         /\ [sv EXCEPT !.hold = ReleasedReg(sv.c, plug[sv.r].dgen)].c = sv.c
                         /\ [sv EXCEPT !.hold = ReleasedReg(sv.c, plug[sv.r].dgen)].r = sv.r
    BY DEF LaunchSuspend, Acquiring, LocalTypes, SchedLocals
  <2>4. /\ PreflightHandoff => pc[Sched] \in Preflight /\ (sv.r \in Regs => Owner[sv.r] \in Callers)
        /\ Loop => pc[Sched] = "idle"
    BY DEF PreflightHandoff, Preflight, Callers, Loop
  <2>5. (sv'.r \in Regs /\ sv'.c = Owner[sv'.r]) \/ pc'[Sched] \notin Preflight \cup Acquiring
    BY <2>1, <2>2, <2>3, <2>4, SchedMoves DEF Preflight, Acquiring, Yielding
  <2>a. /\ IdleSched.lease = 0 /\ IdleSched.then = "idle"
        /\ [IdleSched EXCEPT !.then = "bg"].lease = 0 /\ [IdleSched EXCEPT !.then = "bg"].then = "bg"
        /\ [IdleSched EXCEPT !.c = sv.c, !.then = "acquire"].lease = 0
        /\ [IdleSched EXCEPT !.c = sv.c, !.then = "acquire"].c = sv.c
    BY DEF IdleSched
  <2>6. pc'[Sched] \in {"idle", "eval", "pfclaim", "claim"} \cup Yielding \cup {"yback"} => sv'.lease = 0
    BY <2>1, <2>4, <2>a, SchedMoves DEF Preflight, Acquiring, Yielding, LocalsKnown
  <2>7. pc'[Sched] \in Yielding \cup {"yback"} /\ sv'.then = "acquire" => sv'.c \in Callers
    BY <2>1, <2>4, <2>a, SchedMoves DEF Preflight, Acquiring, Yielding
  <2>8. QED
    BY <2>5, <2>6, <2>7
<1>2. ASSUME NEW t \in Threads PROVE /\ pc'[t] \in Yielding => yv'[t].r \in Regs
                                     /\ pc'[t] \notin Yielding => yv'[t].lease = 0
  <2>1. /\ pc[t] \in Yielding => yv[t].r \in Regs
        /\ pc[t] \notin Yielding => yv[t].lease = 0
    BY DEF LocalsKnown
  <2>2. CASE pc[t] \in Yielding
    BY <2>1, <2>2, YieldingThread DEF IdleYield
  <2>3. CASE pc[t] \notin Yielding
    BY <2>1, <2>3, YieldStarts
  <2>4. QED
    BY <2>2, <2>3
<1>3. QED
  BY <1>1, <1>2 DEF LocalsKnown

-----------------------------------------------------------------------------
(* Registration and the rotation *)

LEMMA AppendFacts ==
    ASSUME NEW S, NEW s \in Seq(S), NEW e \in S
    PROVE  /\ Elems(Append(s, e)) = Elems(s) \cup {e}
           /\ Once(s) /\ (\A i \in DOMAIN s : s[i] # e) => Once(Append(s, e))
           /\ DOMAIN Append(s, e) = 1 .. Len(s) + 1 /\ DOMAIN s = 1 .. Len(s) /\ Len(s) \in Nat
           /\ \A i \in 1 .. Len(s) : Append(s, e)[i] = s[i]
           /\ Append(s, e)[Len(s) + 1] = e
<1>1. /\ DOMAIN Append(s, e) = 1 .. Len(s) + 1 /\ DOMAIN s = 1 .. Len(s) /\ Len(s) \in Nat
      /\ \A i \in 1 .. Len(s) : Append(s, e)[i] = s[i]
      /\ Append(s, e)[Len(s) + 1] = e
  OBVIOUS
<1>2. Elems(Append(s, e)) = Elems(s) \cup {e}
  <2>1. \A i \in DOMAIN Append(s, e) : i \in DOMAIN s \/ i = Len(s) + 1
    BY <1>1
  <2>2. Len(s) + 1 \in DOMAIN Append(s, e) /\ DOMAIN s \subseteq DOMAIN Append(s, e)
    BY <1>1
  <2>3. QED
    BY <1>1, <2>1, <2>2 DEF Elems
<1>3. Once(s) /\ (\A i \in DOMAIN s : s[i] # e) => Once(Append(s, e))
  BY <1>1 DEF Once
<1>4. QED
  BY <1>1, <1>2, <1>3

LEMMA RegisteredElems == Registered = Elems(slots) /\ Registered' = Elems(slots')
BY DEF Registered, Elems

(* What register and unregister do to the slots *)
LEMMA SlotsFacts ==
    ASSUME SdrTypes, Once(slots), NEW s \in Regs
    PROVE  /\ slots' = Append(slots, s) => Registered' = Registered \cup {s}
           /\ slots' = Append(slots, s) /\ s \notin Registered => Once(slots')
           /\ slots' = Without(slots, s) => Registered' = Registered \ {s} /\ Once(slots')
<1>1. slots \in Seq(Regs)
  BY DEF SdrTypes
<1>2. /\ Elems(Append(slots, s)) = Elems(slots) \cup {s}
      /\ s \notin Registered => Once(Append(slots, s))
  BY <1>1, AppendFacts DEF Registered
<1>3. Elems(Without(slots, s)) = Elems(slots) \ {s} /\ Once(Without(slots, s))
  BY <1>1, WithoutFacts
<1>4. QED
  BY <1>2, <1>3, RegisteredElems

LEMMA RegistrationKeep ==
    ASSUME [Next]_vars, SdrTypes, Places, Registration
    PROVE  /\ Registration' /\ Registered' \subseteq Regs
           /\ \/ slots' = slots /\ Registered' = Registered
              \/ \E r \in Regs : Start(r) /\ Registered' = Registered \cup {r} /\ r \notin Registered
              \/ \E r \in Regs : UnregisterPop(r) /\ Registered' = Registered \ {r} /\ r \in Registered
<1>0. Registered \subseteq Regs
  BY SlotOfFacts
<1> DEFINE In == {"run", "unregister", "yback"} \cup Yielding
<1>1. ASSUME NEW r \in Regs, ~ Start(r), ~ UnregisterPop(r) PROVE pc'[r] \in In <=> pc[r] \in In
  <2>1. CASE pc'[r] = pc[r]
    BY <2>1
  <2>2. CASE YieldStep(r)
    BY <2>2, ThreadsApart DEF YieldStep, OnYield, OnYieldKilled, YieldRelease, Goto, Places, Yielding
  <2>3. CASE Stop(r) \/ UnregisterYield(r)
    BY <2>3, ThreadsApart DEF Stop, UnregisterYield, Goto, Places, Yielding
  <2>4. CASE KillDetach(r) \/ KillWait(r)
    <3>1. pc[r] \in {"kill", "killwait"} /\ pc'[r] \in {"killwait", "done"}
      BY <2>4, ThreadsApart DEF KillDetach, KillWait, Goto, Places
    <3>2. QED
      BY <3>1 DEF Yielding
  <2>5. QED
    BY <1>1, <2>1, <2>2, <2>3, <2>4, ThreadMoves, ThreadsApart DEF ControlMoves
<1>2. ASSUME NEW s \in Regs, Start(s)
      PROVE  Registration' /\ Registered' = Registered \cup {s} /\ s \notin Registered
  <2>1. pc[s] = "new" /\ pc' = [pc EXCEPT ![s] = "run"] /\ slots' = Append(slots, s)
        /\ \A q \in Regs : q # s /\ Owner[q] = Owner[s] => pc[q] \in {"new", "done"}
    BY <1>2 DEF Start, Goto
  <2>2. s \notin Registered
    BY <2>1 DEF Registration, Yielding
  <2>3. Registered' = Registered \cup {s} /\ Once(slots')
    <3>1. slots' = Append(slots, s) /\ Once(slots)
      BY <2>1 DEF Registration
    <3>2. QED
      BY <2>2, <3>1, SlotsFacts
  <2>4. \A r \in Regs : r \in Registered' <=> pc'[r] \in In
    BY <2>1, <2>3, ThreadsApart DEF Registration, Places
  <2>5. \A q, r \in Registered' : Owner[q] = Owner[r] => q = r
    <3>1. \A q \in Registered : Owner[q] # Owner[s]
      BY <1>0, <2>1, <2>2 DEF Registration, Yielding
    <3>2. QED
      BY <2>3, <3>1 DEF Registration
  <2>6. QED
    BY <2>2, <2>3, <2>4, <2>5 DEF Registration
<1>3. ASSUME NEW s \in Regs, UnregisterPop(s)
      PROVE  Registration' /\ Registered' = Registered \ {s} /\ s \in Registered
  <2>1. pc[s] \in {"unregister", "yback"} /\ pc' = [pc EXCEPT ![s] = "kill"] /\ slots' = Without(slots, s)
    BY <1>3 DEF UnregisterPop, Goto
  <2>2. Registered' = Registered \ {s} /\ Once(slots')
    BY <2>1, SlotsFacts DEF Registration
  <2>3. \A r \in Regs : r \in Registered' <=> pc'[r] \in In
    BY <2>1, <2>2, ThreadsApart DEF Registration, Places, Yielding
  <2>4. QED
    BY <2>1, <2>2, <2>3 DEF Registration
<1>4. ASSUME slots' = slots, ~ \E s \in Regs : Start(s) \/ UnregisterPop(s)
      PROVE  Registration' /\ Registered' = Registered
  <2>1. Registered' = Registered
    BY <1>4 DEF Registered
  <2>2. QED
    BY <1>0, <1>1, <1>4, <2>1 DEF Registration, Once
<1>5. QED
  BY <1>0, <1>2, <1>3, <1>4, SlotsWriters

LEMMA RotationOf ==
    ASSUME Once(bgOrder'),
           Elems(bgOrder') = {Owner[r] : r \in {q \in Registered' : Prio[Owner[q]] = 2}},
           \A i, j \in DOMAIN bgOrder' : i < j =>
               \E a, b \in DOMAIN slots' : a < b /\ Owner[slots'[a]] = bgOrder'[i] /\ Owner[slots'[b]] = bgOrder'[j]
    PROVE  RotationExact'
<1>1. {bgOrder'[k] : k \in DOMAIN bgOrder'} = {Owner[r] : r \in {q \in Registered' : Prio[Owner[q]] = 2}}
  BY DEF Elems
<1>2. \A i, j \in DOMAIN bgOrder' : i < j =>
         \E a, b \in DOMAIN slots' : a < b /\ Owner[slots'[a]] = bgOrder'[i] /\ Owner[slots'[b]] = bgOrder'[j]
  OBVIOUS
<1>3. BgOrderExact'
  <2>1. BgOrderExact' = (/\ {bgOrder'[k] : k \in DOMAIN bgOrder'} = {Owner[r] : r \in {q \in Registered' : Prio[Owner[q]] = 2}}
                         /\ \A i, j \in DOMAIN bgOrder' : i < j =>
                               \E a, b \in DOMAIN slots' : a < b /\ Owner[slots'[a]] = bgOrder'[i] /\ Owner[slots'[b]] = bgOrder'[j])
    BY DEF BgOrderExact, Registered
  <2>2. QED
    BY <1>1, <1>2, <2>1, Zenon
<1>4. QED
  BY <1>3 DEF RotationExact

LEMMA RotationKeep ==
    ASSUME [Next]_vars, SdrTypes, Places, Registration, RotationExact
    PROVE  RotationExact'
<1>0. Registered \subseteq Regs
  BY SlotOfFacts
<1>1. ASSUME NEW s \in Regs, Start(s) PROVE RotationExact'
  <2>1. /\ slots' = Append(slots, s)
        /\ bgOrder' = IF Prio[Owner[s]] = 2 THEN Append(bgOrder, Owner[s]) ELSE bgOrder
        /\ \A q \in Registered : Owner[q] # Owner[s]
    BY <1>0, <1>1 DEF Start, Registration, Yielding
  <2>2. Registered' = Registered \cup {s}
    <3>1. slots' = Append(slots, s) /\ Once(slots)
      BY <2>1 DEF Registration
    <3>2. QED
      BY <3>1, SlotsFacts
  <2>3. /\ DOMAIN slots' = 1 .. Len(slots) + 1 /\ DOMAIN slots = 1 .. Len(slots) /\ Len(slots) \in Nat
        /\ \A i \in 1 .. Len(slots) : slots'[i] = slots[i]
        /\ slots'[Len(slots) + 1] = s
    BY <2>1, AppendFacts DEF SdrTypes
  <2>4. CASE Prio[Owner[s]] # 2
    <3>1. bgOrder' = bgOrder
      BY <2>1, <2>4
    <3>2. {Owner[r] : r \in {q \in Registered' : Prio[Owner[q]] = 2}} = {Owner[r] : r \in {q \in Registered : Prio[Owner[q]] = 2}}
      BY <2>2, <2>4
    <3>3. QED
      <4>1. ASSUME NEW i \in DOMAIN bgOrder, NEW j \in DOMAIN bgOrder, i < j
            PROVE  \E a, b \in DOMAIN slots' : a < b /\ Owner[slots'[a]] = bgOrder[i] /\ Owner[slots'[b]] = bgOrder[j]
        <5>1. PICK a \in DOMAIN slots, b \in DOMAIN slots : a < b /\ Owner[slots[a]] = bgOrder[i] /\ Owner[slots[b]] = bgOrder[j]
          BY <4>1 DEF RotationExact, BgOrderExact
        <5>2. a \in DOMAIN slots' /\ b \in DOMAIN slots' /\ slots'[a] = slots[a] /\ slots'[b] = slots[b]
          BY <2>3, <5>1
        <5>3. QED
          BY <5>1, <5>2
      <4>2. Elems(bgOrder) = {Owner[r] : r \in {q \in Registered : Prio[Owner[q]] = 2}}
        BY DEF RotationExact, BgOrderExact, Elems
      <4>3. Elems(bgOrder') = {Owner[r] : r \in {q \in Registered' : Prio[Owner[q]] = 2}} /\ Once(bgOrder')
        BY <3>1, <3>2, <4>2 DEF RotationExact
      <4>4. QED
        BY <3>1, <4>1, <4>3, RotationOf
  <2>5. CASE Prio[Owner[s]] = 2
    <3>1. bgOrder' = Append(bgOrder, Owner[s]) /\ Owner[s] \in Callers
      BY <2>1, <2>5 DEF Callers
    <3>2. \A k \in DOMAIN bgOrder : bgOrder[k] # Owner[s]
      <4>1. \A k \in DOMAIN bgOrder : \E r \in Registered : bgOrder[k] = Owner[r]
        BY DEF RotationExact, BgOrderExact
      <4>2. QED
        BY <2>1, <4>1
    <3>3. /\ Once(bgOrder')
          /\ Elems(bgOrder') = Elems(bgOrder) \cup {Owner[s]}
          /\ DOMAIN bgOrder' = 1 .. Len(bgOrder) + 1 /\ DOMAIN bgOrder = 1 .. Len(bgOrder) /\ Len(bgOrder) \in Nat
          /\ \A i \in 1 .. Len(bgOrder) : bgOrder'[i] = bgOrder[i]
          /\ bgOrder'[Len(bgOrder) + 1] = Owner[s]
      BY <3>1, <3>2, AppendFacts DEF SdrTypes, RotationExact
    <3>4. {Owner[r] : r \in {q \in Registered' : Prio[Owner[q]] = 2}}
             = {Owner[r] : r \in {q \in Registered : Prio[Owner[q]] = 2}} \cup {Owner[s]}
      BY <2>2, <2>5
    <3>5. ASSUME NEW i \in DOMAIN bgOrder', NEW j \in DOMAIN bgOrder', i < j
          PROVE  \E a, b \in DOMAIN slots' : a < b /\ Owner[slots'[a]] = bgOrder'[i] /\ Owner[slots'[b]] = bgOrder'[j]
      <4>1. CASE j \in 1 .. Len(bgOrder)
        <5>1. i \in DOMAIN bgOrder /\ j \in DOMAIN bgOrder /\ bgOrder'[i] = bgOrder[i] /\ bgOrder'[j] = bgOrder[j]
          BY <3>3, <3>5, <4>1
        <5>2. PICK a \in DOMAIN slots, b \in DOMAIN slots : a < b /\ Owner[slots[a]] = bgOrder[i] /\ Owner[slots[b]] = bgOrder[j]
          BY <3>5, <5>1 DEF RotationExact, BgOrderExact
        <5>3. a \in DOMAIN slots' /\ b \in DOMAIN slots' /\ slots'[a] = slots[a] /\ slots'[b] = slots[b]
          BY <2>3, <5>2
        <5>4. QED
          BY <5>1, <5>2, <5>3
      <4>2. CASE j = Len(bgOrder) + 1
        <5>1. i \in DOMAIN bgOrder /\ bgOrder'[i] = bgOrder[i]
          BY <3>3, <3>5, <4>2
        <5>2. bgOrder[i] \in {Owner[r] : r \in {q \in Registered : Prio[Owner[q]] = 2}}
          BY <5>1 DEF RotationExact, BgOrderExact
        <5>3. PICK a \in DOMAIN slots : Owner[slots[a]] = bgOrder[i]
          BY <5>2 DEF Registered
        <5>4. a < Len(slots) + 1 /\ a \in DOMAIN slots' /\ Len(slots) + 1 \in DOMAIN slots' /\ slots'[a] = slots[a]
          BY <2>3, <5>3
        <5>5. QED
          BY <2>3, <3>3, <4>2, <5>1, <5>3, <5>4
      <4>3. QED
        BY <3>3, <3>5, <4>1, <4>2
    <3>6. Elems(bgOrder) = {Owner[r] : r \in {q \in Registered : Prio[Owner[q]] = 2}}
      BY DEF RotationExact, BgOrderExact, Elems
    <3>7. QED
      BY <3>3, <3>4, <3>5, <3>6, RotationOf
  <2>6. QED
    BY <2>4, <2>5
<1>2. ASSUME NEW s \in Regs, UnregisterPop(s) PROVE RotationExact'
  <2>1. slots' = Without(slots, s) /\ bgOrder' = Without(bgOrder, Owner[s]) /\ s \in Registered
    BY <1>2 DEF UnregisterPop, Registration
  <2>a. slots \in Seq(Regs) /\ bgOrder \in Seq(Callers) /\ Once(slots) /\ Once(bgOrder)
    BY DEF SdrTypes, Registration, RotationExact
  <2>2. /\ Registered' = Registered \ {s}
        /\ \A a, b \in DOMAIN slots : a < b /\ slots[a] # s /\ slots[b] # s =>
              \E i, j \in DOMAIN slots' : i < j /\ slots[a] = slots'[i] /\ slots[b] = slots'[j]
    BY <2>1, <2>a, SlotsFacts, WithoutFacts
  <2>3. /\ Once(bgOrder')
        /\ Elems(bgOrder') = Elems(bgOrder) \ {Owner[s]}
        /\ \A i, j \in DOMAIN bgOrder' : i < j =>
              \E a, b \in DOMAIN bgOrder : a < b /\ bgOrder[a] = bgOrder'[i] /\ bgOrder[b] = bgOrder'[j]
    BY <2>1, <2>a, WithoutFacts
  <2>4. {Owner[r] : r \in {q \in Registered' : Prio[Owner[q]] = 2}}
           = {Owner[r] : r \in {q \in Registered : Prio[Owner[q]] = 2}} \ {Owner[s]}
    BY <2>1, <2>2 DEF Registration
  <2>5. ASSUME NEW i \in DOMAIN bgOrder', NEW j \in DOMAIN bgOrder', i < j
        PROVE  \E a, b \in DOMAIN slots' : a < b /\ Owner[slots'[a]] = bgOrder'[i] /\ Owner[slots'[b]] = bgOrder'[j]
    <3>1. PICK k \in DOMAIN bgOrder, l \in DOMAIN bgOrder : k < l /\ bgOrder[k] = bgOrder'[i] /\ bgOrder[l] = bgOrder'[j]
      BY <2>3, <2>5
    <3>2. PICK a \in DOMAIN slots, b \in DOMAIN slots : a < b /\ Owner[slots[a]] = bgOrder[k] /\ Owner[slots[b]] = bgOrder[l]
      BY <3>1 DEF RotationExact, BgOrderExact
    <3>3. bgOrder'[i] # Owner[s] /\ bgOrder'[j] # Owner[s]
      BY <2>3, <2>5 DEF Elems
    <3>4. slots[a] # s /\ slots[b] # s
      BY <3>1, <3>2, <3>3
    <3>5. QED
      BY <2>2, <3>1, <3>2, <3>4
  <2>6. Elems(bgOrder) = {Owner[r] : r \in {q \in Registered : Prio[Owner[q]] = 2}}
    BY DEF RotationExact, BgOrderExact, Elems
  <2>7. QED
    BY <2>3, <2>4, <2>5, <2>6, RotationOf
<1>3. CASE <<slots, bgOrder>>' = <<slots, bgOrder>>
  BY <1>3 DEF RotationExact, BgOrderExact, Once, Registered
<1>4. QED
  BY <1>1, <1>2, <1>3, SlotsWriters

-----------------------------------------------------------------------------
(* Grants, leases and claims *)

SlotKept(q) == /\ slot'[q].active = slot[q].active /\ slot'[q].lease = slot[q].lease
               /\ slot'[q].susp = slot[q].susp

SlotGivenUp(q) == /\ ~ slot'[q].active /\ slot'[q].lease = 0 /\ (slot[q].susp => slot'[q].susp)
                  /\ gen' # gen /\ gen' # sv.gen

SlotGranted(q) == /\ Grant /\ q = sv.r
                  /\ slot'[q].active /\ slot'[q].lease = sv.lease /\ slot'[q].susp = slot[q].susp

SlotResumed(q) == /\ Resume(q) /\ ~ slot'[q].susp
                  /\ slot'[q].active = slot[q].active /\ slot'[q].lease = slot[q].lease

(* What a step does to a slot *)
LEMMA SlotMoves ==
    ASSUME [Next]_vars, SdrTypes, SlotTypes, LocalTypes, Places, LocalsKnown, Registration, RotationExact, NEW q \in Regs
    PROVE  SlotKept(q) \/ SlotGivenUp(q) \/ SlotGranted(q) \/ SlotResumed(q)
<1>1. ASSUME NEW t, NEW c \in Callers, NEW p, SlotOf(c) # None, DoYield(t, c, p) PROVE SlotKept(q) \/ SlotGivenUp(q)
  BY <1>1, DoYieldFacts DEF SlotKept, SlotGivenUp
<1>2. ASSUME NEW c, BeginAcquire(c) PROVE SlotKept(q)
  BY <1>2, BeginAcquireFacts DEF SlotKept
<1>3. ASSUME NEW c \in Callers, NEW g, NEW s \in BOOLEAN, ReleaseSlot(c, g, s) PROVE SlotKept(q) \/ SlotGivenUp(q)
  BY <1>3, ReleaseSlotFacts DEF SlotKept, SlotGivenUp
<1>4. SlotOf(holder) # None => holder \in Callers
  BY SlotOfFacts, GivingUp
<1>5. CASE EvaluateWindowEnd \/ StopScheduler
  BY <1>1, <1>4, <1>5 DEF EvaluateWindowEnd, StopScheduler, SlotKept
<1>6. CASE EvaluateAcquire \/ AfterYield
  BY <1>2, <1>6 DEF EvaluateAcquire, AfterYield, SlotKept
<1>7. CASE PreflightHandoff
  BY <1>1, <1>2, <1>4, <1>7 DEF PreflightHandoff
<1>8. CASE LaunchSuspend
  BY <1>3, <1>8 DEF LaunchSuspend, LocalsKnown, Acquiring, Callers
<1>9. ASSUME NEW r \in Regs, MonitorRelease(r) PROVE SlotKept(q) \/ SlotGivenUp(q)
  BY <1>3, <1>9, GivingUp DEF MonitorRelease
<1>10. ASSUME NEW r \in Regs, UnregisterYield(r) PROVE SlotKept(q) \/ SlotGivenUp(q)
  <2>1. Owner[r] \in Callers /\ SlotOf(Owner[r]) # None
    BY <1>10, GivingUp, SlotOfFacts
  <2>2. QED
    BY <1>1, <1>10, <2>1 DEF UnregisterYield
<1>11. CASE AcquireCheck \/ LaunchBack
  <2>1. slot' = slot \/ \E g : slot' = [slot EXCEPT ![sv.r].alloc = g]
    BY <1>11 DEF AcquireCheck, LaunchBack, LocalsKnown, Acquiring, SlotTypes
  <2>2. ASSUME NEW g, slot' = [slot EXCEPT ![sv.r].alloc = g] PROVE SlotKept(q)
    BY <2>2 DEF SlotKept, SlotTypes
  <2>3. QED
    BY <2>1, <2>2 DEF SlotKept
<1>12. CASE Discard
  <2> DEFINE asked == slot[sv.r].relReq /\ ~ (running /\ SlotOf(sv.c) = sv.r /\ gen = sv.gen)
  <2>1. slot' = [slot EXCEPT ![sv.r].alloc = 0, ![sv.r].relReq = asked]
    BY <1>12 DEF Discard, LocalsKnown, Acquiring, SlotTypes
  <2> HIDE DEF asked
  <2>2. QED
    BY <2>1 DEF SlotKept, SlotTypes
<1>13. CASE Grant
  <2>1. sv.r \in Regs /\ slot' = [slot EXCEPT ![sv.r].active = TRUE, ![sv.r].lease = sv.lease]
    BY <1>13 DEF Grant, LocalsKnown, Acquiring
  <2>2. CASE q = sv.r
    BY <1>13, <2>1, <2>2 DEF SlotGranted, SlotTypes
  <2>3. CASE q # sv.r
    BY <2>1, <2>3 DEF SlotKept, SlotTypes
  <2>4. QED
    BY <2>2, <2>3
<1>14. ASSUME NEW r \in Regs, AddWindow(r) \/ RemoveWindows(r) \/ WindowOpens(r) \/ WindowCloses(r) PROVE SlotKept(q)
  BY <1>14 DEF AddWindow, RemoveWindows, WindowOpens, WindowCloses, SetWindow, SlotKept, SlotTypes
<1>15. ASSUME NEW r \in Regs, Resume(r) PROVE SlotKept(q) \/ SlotResumed(q)
  <2>1. slot' = slot \/ slot' = [slot EXCEPT ![r].susp = FALSE, ![r].relReq = FALSE]
    BY <1>15, NoneAssumption DEF Resume, ResumeTarget
  <2>2. CASE slot' = slot
    BY <2>2 DEF SlotKept
  <2>3. CASE slot' = [slot EXCEPT ![r].susp = FALSE, ![r].relReq = FALSE]
    <3>1. CASE q = r
      BY <1>15, <2>3, <3>1 DEF SlotResumed, SlotTypes
    <3>2. CASE q # r
      BY <2>3, <3>2 DEF SlotKept, SlotTypes
    <3>3. QED
      BY <3>1, <3>2
  <2>4. QED
    BY <2>1, <2>2, <2>3
<1>16. CASE slot' = slot
  BY <1>16 DEF SlotKept
<1>17. QED
  BY <1>5, <1>6, <1>7, <1>8, <1>9, <1>10, <1>11, <1>12, <1>13, <1>14, <1>15, <1>16, SlotWriters

(* Generations move away from the scheduler's. *)
LEMMA GenMoves ==
    ASSUME [Next]_vars, SdrTypes, SlotTypes, LocalTypes, Places, LocalsKnown, Registration, RotationExact
    PROVE  gen' = gen \/ gen' # sv.gen \/ EvaluateAcquire \/ AfterYield \/ PreflightHandoff
<1>1. CASE LaunchSuspend
  BY <1>1, ReleaseSlotFacts DEF LaunchSuspend, LocalsKnown, Acquiring, Callers
<1>2. ASSUME NEW r \in Regs, MonitorRelease(r) PROVE gen' = gen \/ gen' # sv.gen
  BY <1>2, ReleaseSlotFacts, GivingUp DEF MonitorRelease
<1>3. CASE EvaluateWindowEnd \/ StopScheduler
  BY <1>3, BumpFacts DEF EvaluateWindowEnd, StopScheduler, DoYield
<1>4. ASSUME NEW r \in Regs, Start(r) \/ UnregisterYield(r) \/ UnregisterPop(r) \/ Resume(r) PROVE gen' = gen \/ gen' # sv.gen
  BY <1>4, BumpFacts DEF Start, UnregisterYield, UnregisterPop, Resume, DoYield
<1>5. QED
  BY <1>1, <1>2, <1>3, <1>4, GenWriters

(* A stale grant is dropped, so a suspended slot stays idle. *)
LEMMA SuspendedKeep ==
    ASSUME [Next]_vars, SdrTypes, SlotTypes, LocalTypes, Places, LocalsKnown, Registration, RotationExact,
           SuspendedIsStale, SuspendedIsIdle
    PROVE  SuspendedIsStale' /\ SuspendedIsIdle'
<1>1. SuspendedIsIdle'
  <2>1. SUFFICES ASSUME NEW q \in Regs, slot'[q].susp PROVE ~ slot'[q].active /\ slot'[q].lease = 0
    BY DEF SuspendedIsIdle
  <2>2. CASE SlotKept(q)
    BY <2>1, <2>2 DEF SlotKept, SuspendedIsIdle
  <2>3. CASE SlotGivenUp(q)
    BY <2>3 DEF SlotGivenUp
  <2>4. CASE SlotGranted(q)
    BY <2>1, <2>4 DEF SlotGranted, Grant, GrantStale, SuspendedIsStale, Acquiring
  <2>5. CASE SlotResumed(q)
    BY <2>1, <2>5 DEF SlotResumed
  <2>6. QED
    BY <2>2, <2>3, <2>4, <2>5, SlotMoves
<1>2. SuspendedIsStale'
  <2>1. SUFFICES ASSUME pc'[Sched] \in Acquiring, slot'[sv'.r].susp PROVE gen' # sv'.gen
    BY DEF SuspendedIsStale
  <2>2. CASE EvaluateAcquire \/ AfterYield \/ PreflightHandoff
    <3>1. ASSUME NEW c, BeginAcquire(c) PROVE pc'[Sched] \notin Acquiring \/ ~ slot'[sv'.r].susp
      <4>1. CASE pc' = [pc EXCEPT ![Sched] = "idle"]
        BY <4>1, ThreadsApart DEF Places, Acquiring
      <4>2. CASE pc' # [pc EXCEPT ![Sched] = "idle"]
        <5>1. /\ SlotOf(c) \in Regs /\ ~ slot[SlotOf(c)].susp
              /\ sv' = [IdleSched EXCEPT !.c = c, !.r = SlotOf(c), !.gen = gen']
              /\ slot'[SlotOf(c)].susp = slot[SlotOf(c)].susp
          BY <3>1, <4>2, BeginAcquireFacts
        <5>2. sv'.r = SlotOf(c)
          BY <5>1 DEF IdleSched
        <5>3. QED
          BY <5>1, <5>2
      <4>3. QED
        BY <4>1, <4>2
    <3>2. \A c : BeginAcquire(c) => pc'[Sched] \notin Acquiring \/ ~ slot'[sv'.r].susp
      BY <3>1
    <3>3. CASE EvaluateAcquire
      BY <2>1, <3>2, <3>3 DEF EvaluateAcquire
    <3>4. CASE AfterYield
      BY <2>1, <3>2, <3>4, ThreadsApart DEF AfterYield, SchedIdle, Goto, Places, Acquiring
    <3>5. CASE PreflightHandoff
      BY <2>1, <3>2, <3>5, ThreadsApart DEF PreflightHandoff, Goto, Places, Acquiring
    <3>6. QED
      BY <2>2, <3>3, <3>4, <3>5
  <2>3. CASE ~ (EvaluateAcquire \/ AfterYield \/ PreflightHandoff)
    <3>1. pc[Sched] \in Acquiring /\ sv'.r = sv.r /\ sv'.gen = sv.gen
      <4>1. LaunchSuspend => /\ [sv EXCEPT !.hold = ReleasedReg(sv.c, plug[sv.r].dgen)].gen = sv.gen
                             /\ [sv EXCEPT !.hold = ReleasedReg(sv.c, plug[sv.r].dgen)].r = sv.r
                             /\ pc[Sched] \in Acquiring
        BY DEF LaunchSuspend, LocalTypes, SchedLocals, Acquiring
      <4>2. QED
        BY <2>1, <2>3, <4>1, SchedMoves DEF Acquiring, Yielding
    <3>2. sv.r \in Regs
      BY <3>1 DEF LocalsKnown
    <3>3. CASE slot[sv.r].susp
      BY <2>3, <3>1, <3>3, GenMoves DEF SuspendedIsStale
    <3>4. CASE ~ slot[sv.r].susp
      BY <2>1, <3>1, <3>2, <3>4, SlotMoves DEF SlotKept, SlotGivenUp, SlotGranted, SlotResumed
    <3>5. QED
      BY <3>3, <3>4
  <2>4. QED
    BY <2>2, <2>3
<1>3. QED
  BY <1>1, <1>2

(* Where a lease can come from *)
LEMMA LeaseMoves ==
    ASSUME [Next]_vars, SdrTypes, SlotTypes, PlugTypes, MonTypes, LocalTypes, Places, LocalsKnown, Registration, RotationExact
    PROVE  /\ sv'.lease \in {0, sv.lease} \/ (ClaimDevice /\ FreshId(sv'.lease))
           /\ Discard \/ Grant => sv'.lease = 0
           /\ \A t \in Threads : \/ yv'[t].lease \in {0, yv[t].lease} \/ (Discard /\ yv'[t].lease = sv.lease)
                                 \/ \E q \in Regs : yv'[t].lease = slot[q].lease /\ ~ slot'[q].active
           /\ \A r \in Regs : \/ mon'[r].lease \in {0, mon[r].lease}
                              \/ \E q \in Regs : mon'[r].lease = slot[q].lease /\ ~ slot'[q].active
<1>1. IdleSched.lease = 0 /\ [IdleSched EXCEPT !.then = "bg"].lease = 0
      /\ [IdleSched EXCEPT !.c = sv.c, !.then = "acquire"].lease = 0
  BY DEF IdleSched
<1>2. [sv EXCEPT !.hold = ReleasedReg(sv.c, plug[sv.r].dgen)].lease = sv.lease
  BY DEF LocalTypes, SchedLocals
<1>3. sv'.lease \in {0, sv.lease} \/ (ClaimDevice /\ FreshId(sv'.lease))
  BY <1>1, <1>2, SchedMoves
<1>4. Discard \/ Grant => sv'.lease = 0
  BY <1>1 DEF Discard, Grant, SchedIdle
<1>5. ASSUME NEW t \in Threads
      PROVE  \/ yv'[t].lease \in {0, yv[t].lease} \/ (Discard /\ yv'[t].lease = sv.lease)
             \/ \E q \in Regs : yv'[t].lease = slot[q].lease /\ ~ slot'[q].active
  <2>1. CASE \E q \in Registered : yv'[t] = [r |-> q, lease |-> slot[q].lease] /\ ~ slot'[q].active
    BY <2>1, SlotOfFacts
  <2>2. CASE yv'[t] = IdleYield
    BY <2>2 DEF IdleYield
  <2>3. CASE Discard /\ yv'[t] = [r |-> sv.r, lease |-> sv.lease]
    BY <2>3
  <2>4. QED
    BY <2>1, <2>2, <2>3, YvMoves
<1>6. ASSUME NEW r \in Regs
      PROVE  \/ mon'[r].lease \in {0, mon[r].lease}
             \/ \E q \in Regs : mon'[r].lease = slot[q].lease /\ ~ slot'[q].active
  <2>1. CASE LaunchOk
    BY <2>1 DEF LaunchOk, MonTypes
  <2>2. ASSUME NEW s \in Regs, PipelineFails(s) \/ FailureHook(s) \/ CaptureDone(s) PROVE mon'[r].lease = mon[r].lease
    BY <2>2 DEF PipelineFails, FailureHook, CaptureDone, MonGoto, MonTypes
  <2>3. ASSUME NEW s \in Regs, MonitorRelease(s)
        PROVE  \/ mon'[r].lease \in {0, mon[r].lease}
               \/ \E q \in Regs : mon'[r].lease = slot[q].lease /\ ~ slot'[q].active
    <3> DEFINE l == ReleasedLease(Owner[s], mon[s].gen)
               g == ReleasedReg(Owner[s], mon[s].gen)
    <3>1. l = 0 \/ \E q \in Regs : l = slot[q].lease /\ ~ slot'[q].active
      <4>1. ReleaseSlot(Owner[s], mon[s].gen, mon[s].pc # "released") /\ (mon[s].pc # "released") \in BOOLEAN
            /\ Owner[s] \in Callers
        BY <2>3, GivingUp DEF MonitorRelease
      <4>2. l = 0 \/ (SlotOf(Owner[s]) \in Regs /\ l = slot[SlotOf(Owner[s])].lease /\ ~ slot'[SlotOf(Owner[s])].active)
        BY <4>1, ReleaseSlotFacts
      <4>3. QED
        BY <4>2
    <3>2. PICK next : mon' = [mon EXCEPT ![s].pc = next, ![s].gen = NoGen, ![s].lease = l, ![s].reg = g]
      BY <2>3 DEF MonitorRelease
    <3> HIDE DEF l, g
    <3>3. CASE r = s
      <4>1. mon'[r].lease = l
        BY <3>2, <3>3 DEF MonTypes
      <4>2. QED
        BY <3>1, <4>1
    <3>4. CASE r # s
      BY <3>2, <3>4 DEF MonTypes
    <3>5. QED
      BY <3>3, <3>4
  <2>4. ASSUME NEW s \in Regs, MonitorLease(s) \/ MonitorRetry(s) \/ MonitorExhaust(s) PROVE mon'[r].lease \in {0, mon[r].lease}
    <3>1. IdleMonitor.lease = 0 /\ \A l : [IdleMonitor EXCEPT !.pc = "exhaust", !.late = l].lease = 0
      BY DEF IdleMonitor
    <3>2. CASE r # s
      BY <2>4, <3>2 DEF MonitorLease, MonitorRetry, MonitorExhaust, MonTypes
    <3>3. CASE r = s /\ MonitorLease(s)
      BY <3>1, <3>3 DEF MonitorLease, MonTypes
    <3>4. CASE r = s /\ MonitorRetry(s)
      BY <3>1, <3>4 DEF MonitorRetry, MonTypes, IdleMonitor
    <3>5. CASE r = s /\ MonitorExhaust(s)
      BY <3>1, <3>5 DEF MonitorExhaust, MonTypes
    <3>6. QED
      BY <2>4, <3>2, <3>3, <3>4, <3>5
  <2>5. CASE mon' = mon
    BY <2>5
  <2>6. QED
    BY <2>1, <2>2, <2>3, <2>4, <2>5, MonWriters
<1>7. QED
  BY <1>3, <1>4, <1>5, <1>6

(* A slot that is active after a step was so, and in the registry, or is the one granted. *)
LEMMA ActiveMoves ==
    ASSUME [Next]_vars, SdrTypes, SlotTypes, LocalTypes, Places, LocalsKnown, Registration, RotationExact,
           FreshSlot, NEW r \in Regs, slot'[r].active
    PROVE  \/ /\ slot[r].active /\ slot'[r].lease = slot[r].lease
              /\ r \in Registered' => r \in Registered
           \/ /\ Grant /\ r = sv.r /\ slot'[r].lease = sv.lease /\ r \in Registered
              /\ running /\ holder' = Owner[r]
<1>1. CASE SlotKept(r)
  BY <1>1, RegistrationKeep DEF SlotKept, FreshSlot, Start
<1>2. CASE SlotResumed(r)
  BY <1>2, RegistrationKeep DEF SlotResumed, FreshSlot, Start
<1>3. CASE SlotGranted(r)
  <2>1. SlotOf(sv.c) = sv.r /\ running /\ holder' = sv.c /\ sv.c = Owner[sv.r] /\ sv.r \in Regs
    BY <1>3 DEF SlotGranted, Grant, GrantStale, LocalsKnown, Acquiring
  <2>2. sv.r \in Registered
    BY <2>1, SlotOfFacts
  <2>3. QED
    BY <1>3, <2>1, <2>2 DEF SlotGranted
<1>4. QED
  BY <1>1, <1>2, <1>3, SlotMoves DEF SlotGivenUp

LEMMA FreshSlotKeep ==
    ASSUME [Next]_vars, SdrTypes, SlotTypes, LocalTypes, Places, LocalsKnown, Registration, RotationExact, FreshSlot
    PROVE  FreshSlot'
<1>1. SUFFICES ASSUME NEW r \in Regs, pc'[r] = "new", slot'[r].active PROVE FALSE
  BY DEF FreshSlot
<1>2. pc[r] = "new"
  BY <1>1, ThreadMoves, ThreadsApart DEF ControlMoves, Start, Stop, UnregisterYield, UnregisterPop, KillDetach, KillWait,
     YieldStep, OnYield, OnYieldKilled, YieldRelease, Goto, Places
<1>3. r \notin Registered
  BY <1>2 DEF Registration, Yielding
<1>4. QED
  BY <1>1, <1>2, <1>3, ActiveMoves DEF FreshSlot

LEMMA LeasesApartKeep ==
    ASSUME [Next]_vars, SdrTypes, SlotTypes, PlugTypes, MonTypes, LocalTypes, Places, LocalsKnown, Registration, RotationExact,
           FreshSlot, LeasesApart, ClaimInFlight, ActiveSlotHasClaim
    PROVE  LeasesApart'
<1>1. ASSUME NEW r \in Registered, slot[r].active PROVE slot[r].lease # 0
  BY <1>1, TokenAssumption DEF ActiveSlotHasClaim, SdrTypes
<1>2. ASSUME NEW r \in Registered', slot'[r].active
      PROVE  /\ slot'[r].lease # sv'.lease
             /\ \A t \in Threads : slot'[r].lease # yv'[t].lease
             /\ \A q \in Regs : slot'[r].lease # mon'[q].lease /\ (q # r => slot'[r].lease # slot'[q].lease)
  <2>1. r \in Regs
    BY RegistrationKeep, SlotOfFacts
  <2> DEFINE l == slot'[r].lease
  <2>2. l # 0 /\ l # sv'.lease /\ (l = sv.lease => ~ Discard)
    <3>1. CASE slot[r].active /\ l = slot[r].lease /\ r \in Registered
      BY <1>1, <2>1, <3>1, LeaseMoves, FreshFacts DEF LeasesApart
    <3>2. CASE Grant /\ r = sv.r /\ l = sv.lease
      BY <3>2, LeaseMoves DEF Grant, ClaimInFlight, Discard
    <3>3. QED
      BY <1>2, <2>1, <3>1, <3>2, ActiveMoves
  <2>3. /\ \A t \in Threads : l # yv[t].lease
        /\ \A q \in Regs : l # mon[q].lease
        /\ \A q \in Regs : q # r => l # slot[q].lease
        /\ \A q \in Regs : ~ slot'[q].active => l # slot[q].lease
    <3>1. CASE slot[r].active /\ l = slot[r].lease /\ r \in Registered
      BY <1>2, <3>1 DEF LeasesApart
    <3>2. CASE Grant /\ r = sv.r /\ l = sv.lease
      BY <2>2, <3>2 DEF LeasesApart
    <3>3. QED
      BY <1>2, <2>1, <3>1, <3>2, ActiveMoves
  <2>4. \A t \in Threads : l # yv'[t].lease
    BY <2>2, <2>3, LeaseMoves
  <2>5. \A q \in Regs : l # mon'[q].lease
    BY <2>2, <2>3, LeaseMoves
  <2>6. ASSUME NEW q \in Regs, q # r PROVE l # slot'[q].lease
    <3>1. slot'[q].lease \in {0, slot[q].lease} \/ (Grant /\ q = sv.r /\ slot'[q].lease = sv.lease)
      BY SlotMoves DEF SlotKept, SlotGivenUp, SlotGranted, SlotResumed
    <3>2. Grant /\ q = sv.r => slot[r].active /\ l = slot[r].lease /\ r \in Registered
      BY <1>2, <2>1, <2>6, ActiveMoves
    <3>3. CASE Grant /\ q = sv.r /\ slot'[q].lease = sv.lease
      BY <3>2, <3>3 DEF LeasesApart
    <3>4. CASE slot'[q].lease \in {0, slot[q].lease}
      BY <2>2, <2>3, <2>6, <3>4
    <3>5. QED
      BY <3>1, <3>3, <3>4
  <2>7. QED
    BY <2>2, <2>4, <2>5, <2>6
<1>3. ASSUME sv'.lease # 0
      PROVE  /\ \A t \in Threads : sv'.lease # yv'[t].lease
             /\ \A q \in Regs : sv'.lease # mon'[q].lease /\ sv'.lease # slot'[q].lease
  <2>1. ~ Discard /\ ~ Grant
    BY <1>3, LeaseMoves
  <2>2. /\ \A t \in Threads : sv'.lease # yv[t].lease
        /\ \A q \in Regs : sv'.lease # mon[q].lease /\ sv'.lease # slot[q].lease
    <3>1. CASE sv'.lease = sv.lease
      BY <1>3, <3>1 DEF LeasesApart
    <3>2. CASE FreshId(sv'.lease)
      BY <3>2, FreshFacts
    <3>3. QED
      BY <1>3, <3>1, <3>2, LeaseMoves
  <2>3. \A q \in Regs : slot'[q].lease \in {0, slot[q].lease}
    BY <2>1, SlotMoves DEF SlotKept, SlotGivenUp, SlotGranted, SlotResumed
  <2>4. QED
    BY <1>3, <2>1, <2>2, <2>3, LeaseMoves
<1>4. ASSUME NEW r \in Regs, pc'[r] \in Yielding PROVE yv'[r].lease # 0
  <2>0. r \in Threads /\ r # Sched /\ r # App
    BY ThreadsApart
  <2>1. CASE pc[r] \in Yielding
    BY <1>4, <2>0, <2>1, YieldingThread DEF LeasesApart
  <2>2. CASE pc[r] \notin Yielding
    <3>1. UnregisterYield(r)
      BY <1>4, <2>0, <2>2, ThreadMoves DEF ControlMoves, Start, Stop, UnregisterPop, KillDetach, KillWait,
         YieldStep, OnYield, OnYieldKilled, YieldRelease, Goto, Places, Yielding
    <3>2. Owner[r] \in Callers /\ SlotOf(Owner[r]) = r /\ r \in Registered /\ SlotOf(Owner[r]) # None /\ slot[r].active
      BY <3>1, GivingUp, SlotOfFacts DEF UnregisterYield
    <3>3. yv' = [yv EXCEPT ![r] = [r |-> r, lease |-> slot[r].lease]]
      BY <3>1, <3>2 DEF UnregisterYield, DoYield
    <3>4. QED
      BY <1>1, <2>0, <3>2, <3>3 DEF LocalTypes
  <2>3. QED
    BY <2>1, <2>2
<1>5. QED
  BY <1>2, <1>3, <1>4 DEF LeasesApart

LEMMA RunningWriters ==
    ASSUME [Next]_vars
    PROVE  running' = running \/ (StopScheduler /\ ~ running')
<1>1. CASE SchedStep
  BY <1>1 DEF SchedStep, schedVars, plugVars, Loop, EvaluateKeep, EvaluateWindowEnd, EvaluateAcquire,
     EvaluatePreflight, ClaimDevice, PreflightStop, PreflightHandoff, AfterYield,
     AcquireCheck, ReleaseStale, OnAcquire, LaunchOk, LaunchFail, LaunchSuspend, LaunchRetry,
     LaunchRelease, LaunchBack, Discard, Grant
<1>2. CASE \E t \in Threads : YieldStep(t)
  BY <1>2 DEF YieldStep, schedVars, plugVars, OnYield, OnYieldKilled, YieldRelease
<1>3. CASE \E r \in Regs : ControlStep(r)
  BY <1>3 DEF ControlStep, schedVars, plugVars, Start, Stop, UnregisterYield, UnregisterPop, KillDetach, KillWait, Lock,
     Unlock, AddWindow, RemoveWindows, WindowOpens, WindowCloses, SetWindow
<1>4. CASE \E r \in Regs : MonitorStep(r) \/ WorkerStep(r) \/ RestartForgotten(r)
  BY <1>4 DEF MonitorStep, WorkerStep, schedVars, plugVars, PipelineFails, FailureHook, CaptureDone,
     MonitorRelease, MonitorLease, MonitorRetry, MonitorExhaust, WorkerWakes, Resume,
     RestartForgotten
<1>5. CASE Shutdown \/ StopScheduler \/ SliceElapses \/ Replug \/ UNCHANGED vars
  BY <1>5 DEF vars, schedVars, plugVars, Shutdown, StopScheduler, SliceElapses, Replug
<1>6. CASE \E o \in Outsiders : OutsiderClaims(o) \/ OutsiderReleases(o)
  BY <1>6 DEF schedVars, plugVars, OutsiderClaims, OutsiderReleases
<1>7. QED
  BY <1>1, <1>2, <1>3, <1>4, <1>5, <1>6 DEF Next

(* Only a grant names a holder. *)
LEMMA HolderMoves ==
    ASSUME [Next]_vars, SdrTypes, SlotTypes, Places, LocalsKnown, Registration
    PROVE  holder' \in {holder, None} \/ Grant
<1>1. CASE LaunchSuspend
  BY <1>1, ReleaseSlotFacts DEF LaunchSuspend, LocalsKnown, Acquiring, Callers
<1>2. ASSUME NEW r \in Regs, MonitorRelease(r) PROVE holder' \in {holder, None}
  BY <1>2, ReleaseSlotFacts, GivingUp DEF MonitorRelease
<1>3. CASE EvaluateWindowEnd \/ PreflightHandoff \/ StopScheduler
  BY <1>3 DEF EvaluateWindowEnd, PreflightHandoff, StopScheduler, DoYield
<1>4. ASSUME NEW r \in Regs, UnregisterYield(r) PROVE holder' = None
  BY <1>4 DEF UnregisterYield, DoYield
<1>5. QED
  BY <1>1, <1>2, <1>3, <1>4, HolderWriters

(* While a registered slot stays active its plugin stays the holder. *)
LEMMA HolderStays ==
    ASSUME [Next]_vars, SdrTypes, SlotTypes, LocalTypes, Places, LocalsKnown, Registration, RotationExact,
           NobodyHolds, ActiveSlotHasClaim,
           NEW r \in Registered, slot[r].active, slot'[r].active
    PROVE  holder' = holder
<1>1. r \in Regs /\ SlotOf(Owner[r]) = r /\ holder = Owner[r] /\ holder \in Callers /\ holder # None /\ SlotOf(holder) # None
  <2>1. r \in Regs /\ SlotOf(Owner[r]) = r /\ holder = Owner[r]
    BY SlotOfFacts DEF ActiveSlotHasClaim
  <2>2. Owner[r] \in Callers /\ None \notin Regs /\ None \notin Callers
    BY <2>1, NoneAssumption DEF Callers
  <2>3. QED
    BY <2>1, <2>2
<1>2. ASSUME NEW t, NEW p, DoYield(t, holder, p) PROVE FALSE
  BY <1>1, <1>2, DoYieldFacts
<1>3. CASE EvaluateWindowEnd \/ PreflightHandoff \/ StopScheduler
  BY <1>1, <1>2, <1>3 DEF EvaluateWindowEnd, PreflightHandoff, StopScheduler
<1>4. ASSUME NEW s \in Regs, UnregisterYield(s) PROVE FALSE
  <2>1. s \in Registered /\ slot[s].active /\ DoYield(s, Owner[s], FALSE)
    BY <1>4, GivingUp DEF UnregisterYield
  <2>2. Owner[s] = holder
    BY <2>1 DEF ActiveSlotHasClaim
  <2>3. QED
    BY <1>2, <2>1, <2>2
<1>5. ASSUME NEW c \in Callers, NEW g, NEW s \in BOOLEAN, ReleaseSlot(c, g, s) PROVE holder' = holder
  BY <1>1, <1>5, ReleaseSlotFacts
<1>6. CASE LaunchSuspend
  BY <1>5, <1>6 DEF LaunchSuspend, LocalsKnown, Acquiring, Callers
<1>7. ASSUME NEW s \in Regs, MonitorRelease(s) PROVE holder' = holder
  BY <1>5, <1>7, GivingUp DEF MonitorRelease
<1>8. CASE Grant
  BY <1>1, <1>8 DEF Grant, NobodyHolds, Acquiring
<1>9. QED
  BY <1>3, <1>4, <1>6, <1>7, <1>8, HolderWriters

(* Who gives a claim back *)
LEMMA ClaimMoves ==
    ASSUME [Next]_vars, NEW k \in claimed, k \notin claimed'
    PROVE  \/ pc[Sched] \in {"pfclaim", "claim"} /\ k.caller = sv.c
           \/ pc[Sched] \in {"pfback", "stalerel", "lrelease"} /\ k.id = sv.lease
           \/ \E t \in Threads : YieldRelease(t) /\ pc[t] \in Yielding /\ (yv[t].lease = 0 \/ k.id = yv[t].lease)
           \/ \E r \in Regs : k.id = mon[r].lease
           \/ k.caller \in Outsiders
<1>1. CASE ClaimDevice
  BY <1>1 DEF ClaimDevice, ReleasedBy
<1>2. CASE PreflightStop \/ PreflightHandoff \/ ReleaseStale \/ LaunchRelease
  BY <1>2 DEF PreflightStop, PreflightHandoff, ReleaseStale, LaunchRelease, Released
<1>3. ASSUME NEW t \in Threads, YieldRelease(t) PROVE pc[t] \in Yielding /\ (yv[t].lease = 0 \/ k.id = yv[t].lease)
  BY <1>3 DEF YieldRelease, Released, Yielding
<1>4. ASSUME NEW r \in Regs, MonitorLease(r) PROVE k.id = mon[r].lease
  BY <1>4 DEF MonitorLease, Released
<1>5. ASSUME NEW o \in Outsiders, OutsiderClaims(o) \/ OutsiderReleases(o) PROVE k.caller \in Outsiders
  BY <1>5 DEF OutsiderClaims, OutsiderReleases, ReleasedBy
<1>6. QED
  BY <1>1, <1>2, <1>3, <1>4, <1>5, ClaimWriters

(* The releases of a lease that is not known are those of the threads that found nothing active. *)
LEMMA EmptyYields ==
    ASSUME SdrTypes, NobodyHolds, LeasesApart, ActiveSlotHasClaim,
           NEW t \in Threads, pc[t] \in Yielding, yv[t].lease = 0
    PROVE  t = Sched \/ (t = App /\ ~ running)
BY DEF Threads, LeasesApart, NobodyHolds

LEMMA ActiveKeep ==
    ASSUME [Next]_vars, SdrTypes, SlotTypes, LocalTypes, Places, LocalsKnown, Registration, RotationExact,
           NobodyHolds, LeasesApart, ClaimInFlight, FreshSlot, ActiveSlotHasClaim
    PROVE  ActiveSlotHasClaim'
<1>1. SUFFICES ASSUME NEW r \in Registered', slot'[r].active
               PROVE  holder' = Owner[r] /\ [id |-> slot'[r].lease, caller |-> Owner[r]] \in claimed'
  BY DEF ActiveSlotHasClaim
<1>2. r \in Regs /\ Owner[r] \in Callers /\ Owner[r] # None /\ Owner[r] \notin Outsiders
  <2>1. r \in Regs
    BY RegistrationKeep
  <2>2. Owner[r] \in Callers
    BY <2>1 DEF Callers
  <2>3. QED
    BY <2>1, <2>2, NoneAssumption, OutsiderAssumption
<1>3. CASE slot[r].active /\ slot'[r].lease = slot[r].lease /\ r \in Registered
  <2> DEFINE k == [id |-> slot[r].lease, caller |-> Owner[r]]
  <2>1. holder = Owner[r] /\ holder' = Owner[r] /\ k \in claimed
    BY <1>1, <1>3, HolderStays DEF ActiveSlotHasClaim
  <2>2. k.id = slot[r].lease /\ k.caller = Owner[r]
    OBVIOUS
  <2>3. ~ (pc[Sched] \in {"pfclaim", "claim"} /\ k.caller = sv.c)
    BY <1>2, <2>1, <2>2 DEF NobodyHolds, Preflight, Acquiring
  <2>4. ~ (pc[Sched] \in {"pfback", "stalerel", "lrelease"} /\ k.id = sv.lease)
    BY <1>3, <2>2 DEF LeasesApart
  <2>5. ASSUME NEW t \in Threads, pc[t] \in Yielding, yv[t].lease = 0 \/ k.id = yv[t].lease PROVE FALSE
    <3>1. k.id # yv[t].lease
      BY <1>3, <2>2 DEF LeasesApart
    <3>2. t = Sched \/ (t = App /\ ~ running)
      BY <2>5, <3>1, EmptyYields
    <3>3. QED
      BY <1>2, <1>3, <2>1, <2>5, <3>2 DEF NobodyHolds
  <2>6. \A q \in Regs : k.id # mon[q].lease
    BY <1>3, <2>2 DEF LeasesApart
  <2> HIDE DEF k
  <2>7. k \in claimed'
    BY <1>2, <2>1, <2>2, <2>3, <2>4, <2>5, <2>6, ClaimMoves
  <2>8. QED
    BY <1>3, <2>1, <2>7 DEF k
<1>4. CASE Grant /\ r = sv.r /\ slot'[r].lease = sv.lease /\ r \in Registered /\ running /\ holder' = Owner[r]
  BY <1>4 DEF Grant, ClaimInFlight, LocalsKnown, Acquiring, plugVars
<1>5. QED
  BY <1>1, <1>2, <1>3, <1>4, ActiveMoves

LEMMA ClaimInFlightKeep ==
    ASSUME [Next]_vars, SdrTypes, SlotTypes, LocalTypes, Places, LocalsKnown, Registration, RotationExact,
           NobodyHolds, LeasesApart, ClaimInFlight, ActiveSlotHasClaim
    PROVE  ClaimInFlight'
<1> DEFINE Flying == pc[Sched] \in {"cb", "launch", "cbback"} \/ (pc[Sched] = "claimed" /\ sv.res = "ok")
<1>1. SUFFICES ASSUME Flying'
               PROVE  sv'.lease # 0 /\ (running' => [id |-> sv'.lease, caller |-> sv'.c] \in claimed')
  BY DEF ClaimInFlight
<1>2. \/ Flying /\ sv' = sv
      \/ /\ FreshId(sv'.lease) /\ sv'.c = sv.c
         /\ claimed' = ReleasedBy(sv.c) \cup {[id |-> sv'.lease, caller |-> sv.c]}
  BY <1>1, SchedMoves DEF Acquiring, Yielding
<1>3. CASE Flying /\ sv' = sv
  <2>1. sv.lease # 0 /\ (running => [id |-> sv.lease, caller |-> sv.c] \in claimed) /\ sv.c \in Callers
    BY <1>3 DEF ClaimInFlight, LocalsKnown, Acquiring, Callers
  <2>2. SUFFICES ASSUME running' PROVE [id |-> sv.lease, caller |-> sv.c] \in claimed'
    BY <1>3, <2>1
  <2> DEFINE k == [id |-> sv.lease, caller |-> sv.c]
  <2>3. running /\ k \in claimed /\ k.id = sv.lease /\ k.caller = sv.c /\ sv.c \notin Outsiders
    BY <2>1, <2>2, RunningWriters, OutsiderAssumption
  <2>4. pc[Sched] \notin {"pfclaim", "claim", "pfback", "stalerel", "lrelease"} \cup Yielding
    BY <1>3 DEF Yielding
  <2>5. ASSUME NEW t \in Threads, pc[t] \in Yielding, yv[t].lease = 0 \/ sv.lease = yv[t].lease PROVE FALSE
    <3>1. sv.lease # yv[t].lease
      BY <2>1 DEF LeasesApart
    <3>2. QED
      BY <2>3, <2>4, <2>5, <3>1, EmptyYields
  <2>6. \A q \in Regs : sv.lease # mon[q].lease
    BY <2>1 DEF LeasesApart
  <2> HIDE DEF k
  <2>7. k \in claimed'
    BY <2>3, <2>4, <2>5, <2>6, ClaimMoves
  <2>8. QED
    BY <2>7 DEF k
<1>4. CASE /\ FreshId(sv'.lease) /\ sv'.c = sv.c
           /\ claimed' = ReleasedBy(sv.c) \cup {[id |-> sv'.lease, caller |-> sv.c]}
  BY <1>4, FreshFacts, TokenAssumption
<1>5. QED
  BY <1>2, <1>3, <1>4

LEMMA NobodyHoldsKeep ==
    ASSUME [Next]_vars, SdrTypes, SlotTypes, LocalTypes, Places, LocalsKnown, Registration, RotationExact,
           NobodyHolds, FreshSlot, ActiveSlotHasClaim
    PROVE  NobodyHolds'
<1>1. ASSUME pc'[Sched] \in Acquiring \cup Yielding \cup {"yback"} PROVE holder' = None
  <2>1. ~ Grant
    BY <1>1, ThreadsApart DEF Grant, SchedIdle, Goto, Places, Acquiring, Yielding
  <2>2. CASE pc[Sched] \in Acquiring \cup Yielding \cup {"yback"}
    BY <2>1, <2>2, HolderMoves DEF NobodyHolds
  <2>3. CASE pc[Sched] \notin Acquiring \cup Yielding \cup {"yback"}
    <3>1. EvaluateWindowEnd \/ EvaluateAcquire \/ PreflightHandoff
      BY <1>1, <2>3, SchedMoves DEF Acquiring, Yielding, AfterYield, ClaimDevice, LaunchSuspend, Discard
    <3>2. QED
      BY <3>1 DEF EvaluateWindowEnd, EvaluateAcquire, PreflightHandoff, DoYield
  <2>4. QED
    BY <2>2, <2>3
<1>2. ASSUME pc'[Sched] \in Preflight
      PROVE  /\ holder' \in {sv'.hold, None} /\ sv'.hold \notin {sv'.c, None}
             /\ sv'.lock = sv'.hold => Override /\ Prio[sv'.c] = 0
  <2>1. CASE EvaluatePreflight /\ sv'.hold = holder /\ sv'.lock = lockedBy /\ sv'.c # holder /\ holder # None /\ CanPreempt(sv'.c)
    BY <2>1 DEF EvaluatePreflight, CanPreempt
  <2>2. CASE /\ pc[Sched] \in Preflight
             /\ sv'.c = sv.c /\ sv'.hold = sv.hold /\ sv'.lock = sv.lock
    <3>1. ~ Grant
      BY <2>2 DEF Grant, Preflight
    <3>2. QED
      BY <2>2, <3>1, HolderMoves DEF NobodyHolds
  <2>3. QED
    BY <1>2, <2>1, <2>2, SchedMoves DEF Preflight, Acquiring, Yielding
<1>3. ASSUME ~ running', NEW r \in Registered', slot'[r].active PROVE FALSE
  <2>1. (slot[r].active /\ r \in Registered /\ r \in Regs) \/ running
    BY <1>3, RegistrationKeep, ActiveMoves
  <2>2. CASE ~ running
    BY <2>1, <2>2 DEF NobodyHolds
  <2>3. CASE running
    <3>1. StopScheduler
      BY <1>3, <2>3, RunningWriters
    <3>2. slot[r].active /\ r \in Registered
      <4>1. ~ Grant
        BY <1>3, <2>3 DEF Grant
      <4>2. QED
        BY <1>3, <4>1, RegistrationKeep, ActiveMoves
    <3>3. holder = Owner[r] /\ SlotOf(holder) = r /\ holder \in Callers /\ r # None /\ holder # None
      <4>1. holder = Owner[r] /\ SlotOf(holder) = r /\ r \in Regs
        BY <3>2, SlotOfFacts DEF ActiveSlotHasClaim
      <4>2. QED
        BY <4>1, NoneAssumption DEF Callers
    <3>4. QED
      BY <1>3, <3>1, <3>3, DoYieldFacts DEF StopScheduler
  <2>4. QED
    BY <2>2, <2>3
<1>4. pc'[App] \in Yielding \cup {"down"} <=> ~ running'
  <2>1. CASE StopScheduler
    BY <2>1, ThreadsApart DEF StopScheduler, Goto, Places, Yielding
  <2>2. CASE ~ StopScheduler
    <3>1. running' = running
      BY <2>2, RunningWriters
    <3>2. pc'[App] \in Yielding \cup {"down"} <=> pc[App] \in Yielding \cup {"down"}
      BY <2>2, ThreadMoves, ThreadsApart DEF Shutdown, YieldStep, OnYield, OnYieldKilled, YieldRelease, Goto, Places, Yielding
    <3>3. QED
      BY <3>1, <3>2 DEF NobodyHolds
  <2>3. QED
    BY <2>1, <2>2
<1>5. QED
  BY <1>1, <1>2, <1>3, <1>4 DEF NobodyHolds

LEMMA FlagsKeep ==
    ASSUME [Next]_vars, Flags
    PROVE  Flags'
<1>1. CASE SchedStep
  BY <1>1 DEF Flags, SchedStep, schedVars, plugVars, Loop, EvaluateKeep, EvaluateWindowEnd, EvaluateAcquire,
     EvaluatePreflight, ClaimDevice, PreflightStop, PreflightHandoff, AfterYield,
     AcquireCheck, ReleaseStale, OnAcquire, LaunchOk, LaunchFail, LaunchSuspend, LaunchRetry,
     LaunchRelease, LaunchBack, Discard, Grant
<1>2. CASE \E t \in Threads : YieldStep(t)
  BY <1>2 DEF Flags, YieldStep, schedVars, plugVars, OnYield, OnYieldKilled, YieldRelease
<1>3. CASE \E r \in Regs : ControlStep(r)
  BY <1>3 DEF Flags, ControlStep, schedVars, plugVars, Start, Stop, UnregisterYield, UnregisterPop, KillDetach, KillWait, Lock,
     Unlock, AddWindow, RemoveWindows, WindowOpens, WindowCloses, SetWindow
<1>4. CASE \E r \in Regs : MonitorStep(r) \/ WorkerStep(r) \/ RestartForgotten(r)
  BY <1>4 DEF Flags, MonitorStep, WorkerStep, schedVars, plugVars, PipelineFails, FailureHook, CaptureDone,
     MonitorRelease, MonitorLease, MonitorRetry, MonitorExhaust, WorkerWakes, Resume,
     RestartForgotten
<1>5. CASE Shutdown \/ StopScheduler \/ SliceElapses \/ Replug \/ UNCHANGED vars
  BY <1>5 DEF Flags, vars, schedVars, plugVars, Shutdown, StopScheduler, SliceElapses, Replug
<1>6. CASE \E o \in Outsiders : OutsiderClaims(o) \/ OutsiderReleases(o)
  BY <1>6 DEF Flags, schedVars, plugVars, OutsiderClaims, OutsiderReleases
<1>7. QED
  BY <1>1, <1>2, <1>3, <1>4, <1>5, <1>6 DEF Next

-----------------------------------------------------------------------------
(* The invariant *)

LEMMA InitInv ==
    ASSUME Init
    PROVE  Flags /\ SdrInv
<1>1. Flags /\ SdrTypes /\ Registered = {}
  BY DEF Init, Flags, SdrTypes, Registered
<1>2. SlotTypes /\ SuspendedIsIdle /\ FreshSlot
  BY DEF Init, SlotTypes, SuspendedIsIdle, FreshSlot, NewSlot
<1>3. PlugTypes
  BY RestartAssumption DEF Init, PlugTypes, NewPlugin
<1>4. MonTypes
  BY DEF Init, MonTypes, IdleMonitor
<1>5. LocalTypes
  BY IdleSchedTyped DEF Init, LocalTypes, IdleYield
<1>6. /\ pc[Sched] = "idle" /\ pc[App] = "up" /\ \A r \in Regs : pc[r] = "new"
      /\ pc \in [Threads -> {"idle", "up", "new"}]
  BY ThreadsApart DEF Init
<1>7. Places
  BY <1>6 DEF Places, SchedPlaces, AppPlaces, ControlPlaces
<1>8. sv.lease = 0 /\ \A t \in Threads : yv[t].lease = 0 /\ pc[t] \notin Yielding
  BY <1>6, IdleSchedTyped, ThreadsApart DEF Init, IdleYield, Yielding
<1>9. LocalsKnown
  BY <1>6, <1>8 DEF LocalsKnown, Preflight, Acquiring, Yielding
<1>10. Registration
  BY <1>1, <1>6 DEF Registration, Init, Once, Yielding
<1>11. RotationExact
  BY <1>1 DEF RotationExact, BgOrderExact, Init, Once
<1>12. NobodyHolds
  BY <1>6 DEF NobodyHolds, Init, Preflight, Acquiring, Yielding
<1>13. LeasesApart
  BY <1>1, <1>8, ThreadsApart DEF LeasesApart
<1>14. ClaimInFlight /\ SuspendedIsStale /\ ActiveSlotHasClaim
  BY <1>1, <1>6 DEF ClaimInFlight, SuspendedIsStale, ActiveSlotHasClaim, Acquiring
<1>15. QED
  BY <1>1, <1>2, <1>3, <1>4, <1>5, <1>7, <1>9, <1>10, <1>11, <1>12, <1>13, <1>14 DEF SdrInv

LEMMA SdrInvKeep ==
    ASSUME [Next]_vars, SdrInv
    PROVE  SdrInv'
<1>1. SdrTypes' /\ SlotTypes'
  BY SdrTypesKeep, SlotTypesKeep DEF SdrInv
<1>2. PlugTypes' /\ MonTypes'
  BY PlugTypesKeep, MonTypesKeep DEF SdrInv
<1>3. LocalTypes' /\ LocalsKnown'
  BY LocalTypesKeep, LocalsKnownKeep DEF SdrInv
<1>4. Places' /\ Registration' /\ RotationExact'
  BY PlacesKeep, RegistrationKeep, RotationKeep DEF SdrInv
<1>5. NobodyHolds' /\ ClaimInFlight'
  BY NobodyHoldsKeep, ClaimInFlightKeep DEF SdrInv
<1>6. LeasesApart' /\ FreshSlot'
  BY LeasesApartKeep, FreshSlotKeep DEF SdrInv
<1>7. ActiveSlotHasClaim'
  BY ActiveKeep DEF SdrInv
<1>8. SuspendedIsStale' /\ SuspendedIsIdle'
  BY SuspendedKeep DEF SdrInv
<1>9. QED
  BY <1>1, <1>2, <1>3, <1>4, <1>5, <1>6, <1>7, <1>8 DEF SdrInv

-----------------------------------------------------------------------------
(* Theorems *)

(* Between any two critical sections of the scheduler, with its lock released
   around claims, callbacks and lease releases, its tables and the locals of
   the threads inside it fit together as SdrInv says.                      *)
THEOREM SchedulerInvariant == Spec => [](Flags /\ SdrInv)
<1>1. Init => Flags /\ SdrInv
  BY InitInv
<1>2. Flags /\ SdrInv /\ [Next]_vars => (Flags /\ SdrInv)'
  BY FlagsKeep, SdrInvKeep
<1>3. QED
  BY <1>1, <1>2, PTL DEF Spec

(* Every variable of the scheduler and of the plugins keeps its type. *)
THEOREM SchedulerTyped == Spec => []TypeOK
<1>1. Flags /\ SdrInv => TypeOK
  <2>1. ASSUME SdrTypes
        PROVE  Registered \subseteq Regs /\ {bgOrder[k] : k \in DOMAIN bgOrder} \subseteq Callers
    BY <2>1 DEF SdrTypes, Registered
  <2>2. QED
    BY <2>1 DEF Flags, SdrInv, SdrTypes, SlotTypes, PlugTypes, MonTypes, LocalTypes, TypeOK
<1>2. QED
  BY <1>1, SchedulerInvariant, PTL

(* An active slot is the holder's and owns a claim of the dongle, and bg_order
   lists exactly the registered background callers, oldest first.          *)
THEOREM SlotsStayExact == Spec => []SlotsExact
<1>1. SdrInv => SlotsExact
  BY DEF SdrInv, RotationExact, SlotsExact
<1>2. QED
  BY <1>1, SchedulerInvariant, PTL

(* A suspended slot neither holds the dongle nor keeps a lease, even when the
   failure was reported while the scheduler was granting it.               *)
THEOREM SuspendedStaysIdle == Spec => []SuspendedIsIdle
<1>1. SdrInv => SuspendedIsIdle
  BY DEF SdrInv
<1>2. QED
  BY <1>1, SchedulerInvariant, PTL

(* After SdrScheduler.stop has cleared _running no acquisition in flight
   becomes a grant.                                                        *)
THEOREM StopIsFinal == Spec => NoGrantAfterStop
<1>1. SdrInv /\ [Next]_vars => [~ running => \A r \in Regs : slot'[r].active => slot[r].active]_vars
  <2>1. SUFFICES ASSUME SdrInv, [Next]_vars, ~ running, NEW r \in Regs, slot'[r].active PROVE slot[r].active
    OBVIOUS
  <2>2. QED
    BY <2>1, ActiveMoves DEF SdrInv
<1>2. QED
  BY <1>1, SchedulerInvariant, PTL DEF Spec, NoGrantAfterStop

(* A suspended slot becomes eligible again only through the retry worker of the
   instance that registered it.                                            *)
THEOREM RevivalIsOwn == Spec => RevivedByOwnWorker
<1>1. SdrInv /\ [Next]_vars => [\A r \in Regs : slot[r].susp /\ ~ slot'[r].susp => "resume" \in worker[r]]_vars
  <2>1. SUFFICES ASSUME SdrInv, [Next]_vars, NEW r \in Regs, slot[r].susp, ~ slot'[r].susp PROVE "resume" \in worker[r]
    OBVIOUS
  <2>2. SlotKept(r) \/ SlotGivenUp(r) \/ SlotGranted(r) \/ SlotResumed(r)
    BY <2>1, SlotMoves DEF SdrInv
  <2>3. SlotResumed(r)
    BY <2>1, <2>2 DEF SlotKept, SlotGivenUp, SlotGranted
  <2>4. QED
    BY <2>3 DEF SlotResumed, Resume
<1>2. QED
  BY <1>1, SchedulerInvariant, PTL DEF Spec, RevivedByOwnWorker

(* What a handoff finds when the lock is back *)
LEMMA HandoffFinds ==
    ASSUME [Next]_vars, SdrInv, HandoffStep
    PROVE  /\ PreflightCurrent /\ SlotOf(holder) # None
           /\ sv.c \in Callers /\ sv.c # None /\ sv.c # holder
           /\ sv.lock = sv.hold => Override /\ Prio[sv.c] = 0
<1>1. pc[Sched] = "pfback" /\ pc'[Sched] = "ycb"
  BY DEF HandoffStep
<1>2. PreflightHandoff
  BY <1>1, SchedMoves DEF SdrInv, EvaluateWindowEnd, Discard, Yielding, Acquiring
<1>3. ASSUME BeginAcquire(sv.c) PROVE pc'[Sched] \in {"idle", "claim"}
  BY <1>3, ThreadsApart, BeginAcquireLocals DEF SdrInv, Places
<1>4. PreflightCurrent /\ SlotOf(holder) # None
  BY <1>1, <1>2, <1>3 DEF PreflightHandoff
<1>5. sv.r \in Regs /\ sv.c = Owner[sv.r]
  BY <1>1 DEF SdrInv, LocalsKnown, Preflight
<1>6. sv.c \in Callers /\ sv.c # None
  BY <1>5, NoneAssumption DEF Callers
<1>7. sv.hold # sv.c /\ (sv.lock = sv.hold => Override /\ Prio[sv.c] = 0)
  BY <1>1 DEF SdrInv, NobodyHolds, Preflight
<1>8. QED
  BY <1>4, <1>6, <1>7 DEF PreflightCurrent

(* What _peek_winner names is eligible; a background plugin takes the dongle
   from another one only when its slice is over.                           *)
LEMMA PeekedIsEligible ==
    ASSUME SdrInv, NEW c \in Callers, c = PeekWinner, c # holder, c # None
    PROVE  /\ ~ Suspended(c)
           /\ Prio[c] = 1 => slot[SlotOf(c)].win = "open"
           /\ Prio[c] = 2 /\ SlotOf(holder) # None /\ Prio[holder] = 2 => sliceOver
<1>1. SdrTypes /\ Registration /\ RotationExact
  BY DEF SdrInv
<1>2. CASE Foreground # {}
  <2>1. PICK i \in Foreground : c = Owner[slots[i]] /\ slots[i] \in Registered
    BY <1>1, <1>2, FirstForegroundFacts DEF SdrTypes, PeekWinner
  <2>2. SlotOf(c) = slots[i]
    BY <1>1, <2>1, SlotOfFacts
  <2>3. PICK p \in {0, 1} : i \in Urgent(p)
    BY DEF Foreground
  <2>4. Prio[c] = p /\ ~ slot[slots[i]].susp /\ (p = 1 => slot[slots[i]].win = "open")
    BY <2>1, <2>3 DEF Urgent
  <2>5. QED
    BY <2>2, <2>4 DEF Suspended
<1>3. CASE Foreground = {}
  <2>1. c = PeekBackground
    BY <1>3 DEF PeekWinner
  <2>2. bgOrder # <<>> /\ ~ (HolderInBg /\ ~ sliceOver) /\ BgSkips(bgIndex) # {}
        /\ c = BgAt(bgIndex + FirstSkip(bgIndex))
    BY <2>1 DEF PeekBackground
  <2>3. (\E i \in DOMAIN bgOrder : c = bgOrder[i]) /\ ~ Suspended(c)
    BY <1>1, <2>2, BgSkipFacts DEF SdrTypes
  <2>4. \A d : d \in {bgOrder[k] : k \in DOMAIN bgOrder}
                <=> \E r \in Registered : Prio[Owner[r]] = 2 /\ d = Owner[r]
    BY <1>1 DEF RotationExact, BgOrderExact
  <2>5. Prio[c] = 2
    BY <2>3, <2>4
  <2>6. ASSUME SlotOf(holder) # None, Prio[holder] = 2 PROVE HolderInBg
    BY <1>1, <2>4, <2>6, SlotOfFacts DEF HolderInBg
  <2>7. QED
    BY <2>2, <2>3, <2>5, <2>6
<1>4. QED
  BY <1>2, <1>3

(* The dongle is taken from its holder only for a plugin that is still eligible
   when the preflight's lock is back, and a locked one only for a critical
   plugin that may override locks.                                         *)
THEOREM HandoffsRespectRules == Spec => ArbitrationRules
<1>1. SdrInv /\ [Next]_vars => [HandoffStep /\ lockedBy = holder => Override /\ Prio[sv.c] = 0]_vars
  BY HandoffFinds DEF PreflightCurrent
<1>2. SdrInv /\ [Next]_vars => [HandoffStep =>
                                  /\ ~ Suspended(sv.c)
                                  /\ Prio[sv.c] = 1 => slot[SlotOf(sv.c)].win = "open"
                                  /\ Prio[sv.c] = 2 /\ Prio[holder] = 2 => sliceOver]_vars
  BY HandoffFinds, PeekedIsEligible DEF PreflightCurrent
<1>3. QED
  BY <1>1, <1>2, SchedulerInvariant, PTL DEF Spec, ArbitrationRules, LockRespected, HandoffToEligible

-----------------------------------------------------------------------------
(* Pipelines.  While decoders do not fail and no capture ends by itself, the
   monitors stay idle; while the application is up, it stops no scheduler.   *)

Going(r) == pc[r] \in {"new", "run"}

Pipelines ==
    /\ pc[App] = "up"
    /\ \A r \in Regs : /\ mon[r].pc = "idle" /\ mon[r].lease = 0
                       /\ pc[r] \in Yielding => yv[r].r = r
                       /\ plug[r].act => Going(r)
    /\ \A r \in Regs : Going(r) /\ plug[r].grp =>
          \/ slot[r].active
          \/ pc[Sched] = "cbback" /\ sv.r = r
          \/ pc[Sched] = "ycb" /\ yv[Sched].r = r
    /\ \A r \in Regs : Going(r) /\ plug[r].open =>
          plug[r].grp \/ (pc[Sched] = "ykill" /\ yv[Sched].r = r)

LEMMA AppStaysUp ==
    ASSUME [Next]_vars, Places, NobodyHolds, Shutdowns = FALSE, pc[App] = "up"
    PROVE  running /\ pc'[App] = "up"
<1>1. running
  BY DEF NobodyHolds, Yielding
<1>2. ~ YieldStep(App)
  BY DEF YieldStep, OnYield, OnYieldKilled, YieldRelease
<1>3. ~ Shutdown /\ ~ StopScheduler
  BY DEF Shutdown, StopScheduler
<1>4. QED
  BY <1>1, <1>2, <1>3, ThreadMoves, ThreadsApart

LEMMA CallbackEnds ==
    ASSUME [Next]_vars, SdrTypes, SlotTypes, LocalTypes, Places, LocalsKnown, Registration, RotationExact,
           pc[Sched] = "cbback"
    PROVE  (pc'[Sched] = "cbback" /\ sv' = sv) \/ Discard \/ Grant
<1>1. CASE pc'[Sched] = "cbback"
  BY <1>1, SchedMoves DEF Yielding
<1>2. CASE pc'[Sched] # "cbback"
  <2>1. ~ YieldStep(Sched)
    BY DEF YieldStep, OnYield, OnYieldKilled, YieldRelease
  <2>2. SchedStep
    BY <1>2, <2>1, ThreadMoves, ThreadsApart
  <2>3. QED
    BY <2>2 DEF SchedStep, Loop, EvaluateKeep, EvaluateWindowEnd, EvaluateAcquire, EvaluatePreflight,
       ClaimDevice, PreflightStop, PreflightHandoff, AfterYield, AcquireCheck, ReleaseStale, OnAcquire,
       LaunchOk, LaunchFail, LaunchSuspend, LaunchRetry, LaunchRelease, LaunchBack
<1>3. QED
  BY <1>1, <1>2

LEMMA YieldEnds ==
    ASSUME [Next]_vars, SdrTypes, SlotTypes, LocalTypes, Places, LocalsKnown, Registration, RotationExact,
           NEW t \in Threads, pc[t] \in {"ycb", "ykill"}
    PROVE  /\ yv'[t] = yv[t]
           /\ \/ pc'[t] = pc[t]
              \/ pc[t] = "ycb" /\ OnYield(t)
              \/ pc[t] = "ykill" /\ OnYieldKilled(t)
<1>1. yv'[t] = yv[t]
  <2>1. pc[t] \in Yielding /\ ~ YieldRelease(t)
    BY DEF Yielding, YieldRelease
  <2>2. QED
    BY <2>1, YieldingThread
<1>2. ~ SchedStep \/ t # Sched
  BY DEF SchedStep, Loop, EvaluateKeep, EvaluateWindowEnd, EvaluateAcquire, EvaluatePreflight,
     ClaimDevice, PreflightStop, PreflightHandoff, AfterYield, AcquireCheck, ReleaseStale, OnAcquire,
     LaunchOk, LaunchFail, LaunchSuspend, LaunchRetry, LaunchRelease, LaunchBack, Discard, Grant
<1>3. ~ (t = App /\ (Shutdown \/ StopScheduler)) /\ ~ ControlMoves(t)
  BY DEF Shutdown, StopScheduler, ControlMoves, Start, Stop, UnregisterYield, UnregisterPop, KillDetach, KillWait
<1>4. YieldStep(t) => (pc[t] = "ycb" /\ OnYield(t)) \/ (pc[t] = "ykill" /\ OnYieldKilled(t))
  BY DEF YieldStep, OnYield, OnYieldKilled, YieldRelease
<1>5. QED
  BY <1>1, <1>2, <1>3, <1>4, ThreadMoves

(* What a step does to the pipeline of a plugin *)
LEMMA PipelineMoves ==
    ASSUME [Next]_vars, PlugTypes, LocalTypes, LocalsKnown, NEW r \in Regs
    PROVE  \/ plug'[r].grp = plug[r].grp /\ plug'[r].open = plug[r].open
           \/ LaunchOk /\ r = sv.r /\ plug'[r].grp /\ plug'[r].open
           \/ LaunchSuspend /\ r = sv.r /\ ~ plug'[r].grp /\ plug'[r].open = plug[r].open
           \/ \E t \in Threads : OnYield(t) /\ r = yv[t].r /\ ~ plug'[r].grp /\ plug'[r].open = plug[r].open
           \/ \E t \in Threads : OnYieldKilled(t) /\ r = yv[t].r /\ ~ plug'[r].open /\ plug'[r].grp = plug[r].grp
           \/ KillDetach(r) \/ KillWait(r)
           \/ PipelineFails(r) \/ FailureHook(r) \/ CaptureDone(r)
<1>1. CASE OnAcquire
  BY <1>1 DEF OnAcquire, PlugTypes
<1>2. CASE LaunchOk
  BY <1>2 DEF LaunchOk, PlugTypes
<1>3. CASE LaunchFail
  BY <1>3 DEF LaunchFail, PlugTypes
<1>4. CASE LaunchSuspend
  BY <1>4 DEF LaunchSuspend, PlugTypes
<1>5. CASE LaunchRetry
  BY <1>5 DEF LaunchRetry, ScheduleRetry, PlugTypes
<1>6. ASSUME NEW t \in Threads, OnYield(t)
      PROVE  \/ plug'[r].grp = plug[r].grp /\ plug'[r].open = plug[r].open
             \/ r = yv[t].r /\ ~ plug'[r].grp /\ plug'[r].open = plug[r].open
  <2> DEFINE v == yv[t].r
  <2>1. plug' = [plug EXCEPT ![v].dact = FALSE, ![v].dgen = NoGen, ![v].grp = FALSE]
    BY <1>6 DEF OnYield
  <2>2. \/ plug'[r].grp = plug[r].grp /\ plug'[r].open = plug[r].open
        \/ r = v /\ ~ plug'[r].grp /\ plug'[r].open = plug[r].open
    <3> HIDE DEF v
    <3>1. CASE r = v
      BY <2>1, <3>1 DEF PlugTypes
    <3>2. CASE r # v
      BY <2>1, <3>2 DEF PlugTypes
    <3>3. QED
      BY <3>1, <3>2
  <2>3. QED
    BY <2>2
<1>7. ASSUME NEW t \in Threads, OnYieldKilled(t)
      PROVE  \/ plug'[r].grp = plug[r].grp /\ plug'[r].open = plug[r].open
             \/ r = yv[t].r /\ ~ plug'[r].open /\ plug'[r].grp = plug[r].grp
  <2> DEFINE v == yv[t].r
  <2>1. plug' = [plug EXCEPT ![v].open = FALSE]
    BY <1>7 DEF OnYieldKilled
  <2>2. \/ plug'[r].grp = plug[r].grp /\ plug'[r].open = plug[r].open
        \/ r = v /\ ~ plug'[r].open /\ plug'[r].grp = plug[r].grp
    <3> HIDE DEF v
    <3>1. QED
      BY <2>1 DEF PlugTypes
  <2>3. QED
    BY <2>2
<1>8. ASSUME NEW s \in Regs, Start(s) \/ Stop(s) \/ MonitorLease(s) \/ MonitorRetry(s) \/ MonitorExhaust(s) \/ RestartForgotten(s)
      PROVE  plug'[r].grp = plug[r].grp /\ plug'[r].open = plug[r].open
  BY <1>8 DEF Start, Stop, MonitorLease, MonitorRetry, ScheduleRetry, MonitorExhaust, RestartForgotten, PlugTypes
<1>9. ASSUME NEW s \in Regs, s # r, KillDetach(s) \/ KillWait(s) \/ PipelineFails(s) \/ FailureHook(s) \/ CaptureDone(s)
      PROVE  plug'[r].grp = plug[r].grp /\ plug'[r].open = plug[r].open
  BY <1>9 DEF KillDetach, KillWait, PipelineFails, FailureHook, CaptureDone, PlugTypes
<1>10. QED
  BY <1>1, <1>2, <1>3, <1>4, <1>5, <1>6, <1>7, <1>8, <1>9, PlugWriters

(* Only the scheduler's own _do_yield deactivates a slot whose plugin goes on. *)
LEMMA GivenToYield ==
    ASSUME [Next]_vars, SdrTypes, SlotTypes, LocalTypes, Places, LocalsKnown, Registration, RotationExact,
           NobodyHolds, ActiveSlotHasClaim, pc[App] = "up",
           NEW r \in Registered, pc[r] = "run", slot[r].active, ~ slot'[r].active
    PROVE  \/ pc'[Sched] = "ycb" /\ yv'[Sched] = [r |-> r, lease |-> slot[r].lease]
           \/ \E s \in Regs : MonitorRelease(s)
<1>1. /\ r \in Regs /\ holder = Owner[r] /\ SlotOf(Owner[r]) = r
      /\ holder \in Callers /\ holder # None /\ SlotOf(holder) # None
  <2>1. r \in Regs /\ holder = Owner[r] /\ SlotOf(Owner[r]) = r
    BY SlotOfFacts DEF ActiveSlotHasClaim
  <2>2. QED
    BY <2>1, NoneAssumption DEF Callers
<1>2. ASSUME NEW t, NEW c \in Callers, NEW p, SlotOf(c) # None, DoYield(t, c, p)
      PROVE  SlotOf(c) = r /\ yv' = [yv EXCEPT ![t] = [r |-> r, lease |-> slot[r].lease]]
  BY <1>1, <1>2, DoYieldFacts
<1>3. CASE EvaluateWindowEnd
  <2>1. DoYield(Sched, holder, FALSE) /\ Goto(Sched, "ycb")
    BY <1>3 DEF EvaluateWindowEnd
  <2>2. yv' = [yv EXCEPT ![Sched] = [r |-> r, lease |-> slot[r].lease]]
    <3>1. SlotOf(holder) # None /\ holder \in Callers /\ DoYield(Sched, holder, FALSE)
      BY <1>1, <2>1
    <3>2. QED
      BY <1>2, <3>1
  <2>3. QED
    BY <2>1, <2>2, ThreadsApart DEF Goto, Places, LocalTypes
<1>4. ASSUME NEW c, BeginAcquire(c) PROVE FALSE
  BY <1>1, <1>4, BeginAcquireFacts
<1>5. CASE PreflightHandoff
  <2>1. DoYield(Sched, holder, TRUE) /\ Goto(Sched, "ycb")
    BY <1>1, <1>5 DEF PreflightHandoff
  <2>2. yv' = [yv EXCEPT ![Sched] = [r |-> r, lease |-> slot[r].lease]]
    <3>1. SlotOf(holder) # None /\ holder \in Callers /\ DoYield(Sched, holder, TRUE)
      BY <1>1, <2>1
    <3>2. QED
      BY <1>2, <3>1
  <2>3. QED
    BY <2>1, <2>2, ThreadsApart DEF Goto, Places, LocalTypes
<1>6. CASE EvaluateAcquire \/ AfterYield
  BY <1>4, <1>6 DEF EvaluateAcquire, AfterYield
<1>7. CASE AcquireCheck \/ LaunchBack \/ Discard
  BY <1>1, <1>7 DEF AcquireCheck, LaunchBack, Discard, SlotTypes
<1>8. CASE LaunchSuspend
  BY <1>1, <1>8 DEF LaunchSuspend, NobodyHolds, Acquiring
<1>9. CASE Grant
  BY <1>1, <1>9 DEF Grant, SlotTypes
<1>10. CASE StopScheduler
  BY <1>10 DEF StopScheduler
<1>11. ASSUME NEW s \in Regs, UnregisterYield(s) PROVE FALSE
  <2>1. Owner[s] \in Callers /\ SlotOf(Owner[s]) = s /\ SlotOf(Owner[s]) # None /\ DoYield(s, Owner[s], FALSE)
    BY <1>11, GivingUp, SlotOfFacts DEF UnregisterYield
  <2>2. s = r
    BY <1>2, <2>1
  <2>3. QED
    BY <1>11, <2>2 DEF UnregisterYield
<1>12. ASSUME NEW s \in Regs, AddWindow(s) \/ RemoveWindows(s) \/ WindowOpens(s) \/ WindowCloses(s) PROVE FALSE
  BY <1>1, <1>12 DEF AddWindow, RemoveWindows, WindowOpens, WindowCloses, SetWindow, SlotTypes
<1>13. ASSUME NEW s \in Regs, Resume(s) PROVE FALSE
  BY <1>1, <1>13 DEF Resume, SlotTypes
<1>14. QED
  BY <1>3, <1>5, <1>6, <1>7, <1>8, <1>9, <1>10, <1>11, <1>12, <1>13, SlotWriters

(* Who goes on was going on before; who is active is so, or has just started. *)
LEMMA GoingMoves ==
    ASSUME [Next]_vars, Places, PlugTypes, LocalTypes, LocalsKnown, NEW r \in Regs
    PROVE  /\ Going(r)' => Going(r)
           /\ plug'[r].act => plug[r].act \/ Going(r)'
           /\ Going(r) /\ ~ Going(r)' => ~ plug'[r].act
<1>1. pc'[r] = pc[r] \/ YieldStep(r) \/ ControlMoves(r)
  BY ThreadMoves, ThreadsApart
<1>2. Going(r)' => Going(r)
  <2>1. ASSUME YieldStep(r) PROVE ~ Going(r)'
    BY <2>1, ThreadsApart DEF YieldStep, OnYield, OnYieldKilled, YieldRelease, Goto, Going, Places
  <2>2. ASSUME ControlMoves(r), ~ Going(r) PROVE ~ Going(r)'
    BY <2>2, ThreadsApart DEF ControlMoves, Start, Stop, UnregisterYield, UnregisterPop, KillDetach, KillWait, Goto, Going, Places
  <2>3. QED
    BY <1>1, <2>1, <2>2 DEF Going
<1>3. plug'[r].act => plug[r].act \/ Start(r)
  <2>1. CASE OnAcquire \/ LaunchOk \/ LaunchFail \/ LaunchSuspend
    <3>1. CASE OnAcquire
      BY <3>1 DEF OnAcquire, PlugTypes
    <3>2. CASE LaunchOk
      BY <3>2 DEF LaunchOk, PlugTypes
    <3>3. CASE LaunchFail
      BY <3>3 DEF LaunchFail, PlugTypes
    <3>4. CASE LaunchSuspend
      BY <3>4 DEF LaunchSuspend, PlugTypes
    <3>5. QED
      BY <2>1, <3>1, <3>2, <3>3, <3>4
  <2>2. CASE LaunchRetry
    BY <2>2 DEF LaunchRetry, ScheduleRetry, PlugTypes
  <2>3. ASSUME NEW t \in Threads, OnYield(t) \/ OnYieldKilled(t) PROVE plug'[r].act => plug[r].act
    BY <2>3 DEF OnYield, OnYieldKilled, PlugTypes
  <2>4. ASSUME NEW s \in Regs, Start(s) \/ Stop(s) \/ KillDetach(s) \/ KillWait(s) \/ RestartForgotten(s)
        PROVE  plug'[r].act => plug[r].act \/ Start(r)
    BY <2>4 DEF Start, Stop, KillDetach, KillWait, RestartForgotten, PlugTypes
  <2>5. ASSUME NEW s \in Regs, PipelineFails(s) \/ FailureHook(s) \/ CaptureDone(s) \/ MonitorLease(s) \/ MonitorRetry(s) \/ MonitorExhaust(s)
        PROVE  plug'[r].act => plug[r].act
    BY <2>5 DEF PipelineFails, FailureHook, CaptureDone, MonitorLease, MonitorRetry, ScheduleRetry, MonitorExhaust, PlugTypes
  <2>6. QED
    BY <2>1, <2>2, <2>3, <2>4, <2>5, PlugWriters
<1>4. Start(r) => Going(r)'
  BY ThreadsApart DEF Start, Goto, Going, Places
<1>5. ASSUME Going(r), ~ Going(r)' PROVE ~ plug'[r].act
  <2>1. Stop(r)
    <3>1. pc[r] \in {"new", "run"} /\ pc'[r] # pc[r]
      BY <1>5 DEF Going
    <3>2. ~ YieldStep(r)
      BY <3>1 DEF YieldStep, OnYield, OnYieldKilled, YieldRelease
    <3>3. QED
      BY <1>1, <1>4, <1>5, <3>1, <3>2 DEF ControlMoves, UnregisterYield, UnregisterPop, KillDetach, KillWait
  <2>2. QED
    BY <2>1 DEF Stop, PlugTypes
<1>6. QED
  BY <1>2, <1>3, <1>4, <1>5

LEMMA PipelinesKeep ==
    ASSUME [Next]_vars, SdrInv, Pipelines, Failing = {}, Capturing = {}, Shutdowns = FALSE
    PROVE  Pipelines'
<1>0. /\ SdrTypes /\ SlotTypes /\ PlugTypes /\ MonTypes /\ LocalTypes /\ Places /\ LocalsKnown /\ Registration
      /\ RotationExact /\ NobodyHolds /\ ActiveSlotHasClaim /\ FreshSlot
      /\ \A r \in Regs : mon[r].pc = "idle" /\ mon[r].lease = 0
      /\ pc[App] = "up"
  BY DEF SdrInv, Pipelines
<1>1. pc'[App] = "up"
  BY <1>0, AppStaysUp
<1>2. \A s \in Regs : /\ ~ PipelineFails(s) /\ ~ FailureHook(s) /\ ~ CaptureDone(s) /\ ~ MonitorRelease(s)
                      /\ ~ MonitorLease(s) /\ ~ MonitorRetry(s) /\ ~ MonitorExhaust(s)
  BY <1>0 DEF PipelineFails, FailureHook, CaptureDone, MonitorRelease, MonitorLease, MonitorRetry, MonitorExhaust
<1>3. \A r \in Regs : mon'[r].pc = "idle" /\ mon'[r].lease = 0
  <2>1. mon' = mon \/ LaunchOk
    BY <1>2, MonWriters
  <2>2. CASE LaunchOk
    BY <1>0, <2>2 DEF LaunchOk, MonTypes
  <2>3. QED
    BY <1>0, <2>1, <2>2
<1>4. ASSUME NEW r \in Regs, pc'[r] \in Yielding PROVE yv'[r].r = r
  <2>1. r \in Threads /\ r # Sched /\ r # App
    BY ThreadsApart
  <2>2. CASE pc[r] \in Yielding
    BY <1>0, <1>4, <2>1, <2>2, YieldingThread DEF Pipelines
  <2>3. CASE pc[r] \notin Yielding
    <3>1. UnregisterYield(r)
      <4>1. ~ YieldStep(r)
        BY <2>3 DEF YieldStep, OnYield, OnYieldKilled, YieldRelease, Yielding
      <4>2. ControlMoves(r)
        BY <1>0, <1>4, <2>1, <2>3, <4>1, ThreadMoves
      <4>3. QED
        BY <1>0, <1>4, <2>1, <4>2 DEF ControlMoves, Start, Stop, UnregisterPop, KillDetach, KillWait, Goto, Yielding, Places
    <3>2. Owner[r] \in Callers /\ SlotOf(Owner[r]) = r /\ SlotOf(Owner[r]) # None
      BY <1>0, <3>1, GivingUp, SlotOfFacts
    <3>3. yv' = [yv EXCEPT ![r] = [r |-> r, lease |-> slot[r].lease]]
      BY <1>0, <3>1, <3>2, DoYieldFacts DEF UnregisterYield
    <3>4. QED
      BY <1>0, <2>1, <3>3 DEF LocalTypes
  <2>4. QED
    BY <2>2, <2>3
<1>5. ASSUME NEW r \in Regs, plug'[r].act PROVE Going(r)'
  BY <1>0, <1>5, GoingMoves DEF Pipelines
<1>6. ASSUME NEW r \in Regs, Going(r), ~ LaunchOk \/ r # sv.r
      PROVE  \/ plug'[r].grp = plug[r].grp /\ plug'[r].open = plug[r].open
             \/ LaunchSuspend /\ r = sv.r /\ ~ plug'[r].grp /\ plug'[r].open = plug[r].open
             \/ OnYield(Sched) /\ r = yv[Sched].r /\ ~ plug'[r].grp /\ plug'[r].open = plug[r].open
             \/ OnYieldKilled(Sched) /\ r = yv[Sched].r /\ ~ plug'[r].open /\ plug'[r].grp = plug[r].grp
  <2>1. ASSUME NEW t \in Threads, OnYield(t) \/ OnYieldKilled(t), r = yv[t].r PROVE t = Sched
    <3>1. pc[t] \in Yielding
      BY <2>1 DEF OnYield, OnYieldKilled, Yielding
    <3>2. t # App
      BY <1>0, <3>1 DEF Yielding
    <3>3. t \notin Regs
      BY <1>6, <2>1, <3>1 DEF Pipelines, Going, Yielding
    <3>4. QED
      BY <3>2, <3>3 DEF Threads
  <2>2. ~ KillDetach(r) /\ ~ KillWait(r)
    BY <1>6 DEF Going, KillDetach, KillWait
  <2>3. QED
    BY <1>0, <1>2, <1>6, <2>1, <2>2, PipelineMoves
<1>7. ASSUME NEW r \in Regs, Going(r), slot[r].active
      PROVE  slot'[r].active \/ (pc'[Sched] = "ycb" /\ yv'[Sched].r = r)
  <2>1. pc[r] = "run"
    BY <1>0, <1>7 DEF Going, FreshSlot
  <2>2. r \in Registered
    BY <1>0, <2>1 DEF Registration
  <2>3. SUFFICES ASSUME ~ slot'[r].active PROVE pc'[Sched] = "ycb" /\ yv'[Sched].r = r
    OBVIOUS
  <2>4. pc'[Sched] = "ycb" /\ yv'[Sched] = [r |-> r, lease |-> slot[r].lease]
    BY <1>0, <1>2, <1>7, <2>1, <2>2, <2>3, GivenToYield
  <2>5. QED
    BY <2>4
<1>8. ASSUME NEW r \in Regs, Going(r)', plug'[r].grp
      PROVE  \/ slot'[r].active
             \/ pc'[Sched] = "cbback" /\ sv'.r = r
             \/ pc'[Sched] = "ycb" /\ yv'[Sched].r = r
  <2>1. Going(r)
    BY <1>0, <1>8, GoingMoves
  <2>2. CASE LaunchOk /\ r = sv.r
    BY <1>0, <2>2, ThreadsApart DEF LaunchOk, Goto, Places
  <2>3. CASE ~ LaunchOk \/ r # sv.r
    <3>1. plug[r].grp /\ ~ (OnYield(Sched) /\ r = yv[Sched].r)
      BY <1>0, <1>6, <1>8, <2>1, <2>3 DEF OnYield, PlugTypes
    <3>2. CASE slot[r].active
      BY <1>7, <2>1, <3>2
    <3>3. CASE pc[Sched] = "cbback" /\ sv.r = r
      <4>1. CASE Discard
        BY <1>0, <3>3, <4>1, ThreadsApart DEF Discard, Goto, Places, LocalTypes
      <4>2. CASE Grant
        BY <1>0, <3>3, <4>2 DEF Grant, SlotTypes
      <4>3. QED
        BY <1>0, <3>3, <4>1, <4>2, CallbackEnds
    <3>4. CASE pc[Sched] = "ycb" /\ yv[Sched].r = r
      BY <1>0, <3>1, <3>4, YieldEnds, ThreadsApart
    <3>5. QED
      BY <2>1, <3>1, <3>2, <3>3, <3>4 DEF Pipelines
  <2>4. QED
    BY <2>2, <2>3
<1>9. ASSUME NEW r \in Regs, Going(r)', plug'[r].open
      PROVE  plug'[r].grp \/ (pc'[Sched] = "ykill" /\ yv'[Sched].r = r)
  <2>1. Going(r)
    BY <1>0, <1>9, GoingMoves
  <2>2. CASE LaunchOk /\ r = sv.r
    BY <1>0, <2>2 DEF LaunchOk, PlugTypes
  <2>3. CASE OnYield(Sched) /\ r = yv[Sched].r /\ ~ plug'[r].grp /\ plug'[r].open = plug[r].open
    <3>1. pc[Sched] = "ycb" /\ plug[r].open
      BY <1>9, <2>3 DEF OnYield
    <3>2. plug[r].grp
      BY <2>1, <3>1 DEF Pipelines
    <3>3. pc'[Sched] = "ykill"
      BY <1>0, <2>3, <3>2, ThreadsApart DEF OnYield, Goto, Places
    <3>4. QED
      BY <1>0, <2>3, <3>1, <3>3, YieldEnds, ThreadsApart
  <2>4. CASE OnYieldKilled(Sched) /\ r = yv[Sched].r /\ ~ plug'[r].open
    BY <1>9, <2>4
  <2>5. CASE LaunchSuspend /\ r = sv.r /\ plug'[r].open = plug[r].open
    <3>1. pc[Sched] = "lsuspend" /\ plug[r].open
      BY <1>9, <2>5 DEF LaunchSuspend
    <3>2. slot[r].active
      BY <2>1, <3>1 DEF Pipelines
    <3>3. pc[r] = "run" /\ r \in Registered
      BY <1>0, <2>1, <3>2 DEF Going, FreshSlot, Registration
    <3>4. holder = Owner[r] /\ holder = None /\ Owner[r] \in Callers
      BY <1>0, <3>1, <3>2, <3>3 DEF ActiveSlotHasClaim, NobodyHolds, Acquiring, Callers
    <3>5. QED
      BY <3>4, NoneAssumption
  <2>6. CASE plug'[r].grp = plug[r].grp /\ plug'[r].open = plug[r].open /\ ~ (OnYieldKilled(Sched) /\ r = yv[Sched].r)
    <3>1. plug[r].grp \/ (pc[Sched] = "ykill" /\ yv[Sched].r = r)
      BY <1>9, <2>1, <2>6 DEF Pipelines
    <3>2. CASE pc[Sched] = "ykill" /\ yv[Sched].r = r
      BY <1>0, <2>6, <3>2, YieldEnds, ThreadsApart
    <3>3. QED
      BY <2>6, <3>1, <3>2
  <2>7. ASSUME OnYieldKilled(Sched), r = yv[Sched].r PROVE ~ plug'[r].open
    BY <1>0, <2>7 DEF OnYieldKilled, PlugTypes
  <2>8. QED
    BY <1>6, <2>1, <2>2, <2>3, <2>4, <2>5, <2>6, <2>7, <1>9
<1>10. QED
  BY <1>1, <1>3, <1>4, <1>5, <1>8, <1>9 DEF Pipelines

LEMMA PipelinesInit ==
    ASSUME Init
    PROVE  Pipelines
<1>1. pc[App] = "up" /\ \A r \in Regs : pc[r] = "new"
  BY ThreadsApart DEF Init
<1>2. \A r \in Regs : mon[r].pc = "idle" /\ mon[r].lease = 0 /\ ~ plug[r].act /\ ~ plug[r].grp /\ ~ plug[r].open
  BY DEF Init, IdleMonitor, NewPlugin
<1>3. QED
  BY <1>1, <1>2 DEF Pipelines, Yielding

(* A pipeline that is open while its plugin goes on belongs to the holder, to the
   acquisition in its callback, or to the yield the scheduler is about to finish. *)
OpenFor(r) ==
    \/ slot[r].active /\ r \in Registered
    \/ pc[Sched] = "cbback" /\ sv.r = r
    \/ pc[Sched] \in {"ycb", "ykill"} /\ yv[Sched].r = r

LEMMA OpenPipelines ==
    ASSUME SdrInv, Pipelines, NEW r \in Regs, Going(r), plug[r].open
    PROVE  OpenFor(r)
<1>1. plug[r].grp \/ (pc[Sched] = "ykill" /\ yv[Sched].r = r)
  BY DEF Pipelines
<1>2. ASSUME slot[r].active PROVE r \in Registered
  BY <1>2 DEF SdrInv, Going, FreshSlot, Registration
<1>3. QED
  BY <1>1, <1>2 DEF Pipelines, OpenFor

LEMMA OpenForOne ==
    ASSUME SdrInv, NEW q \in Regs, NEW r \in Regs, OpenFor(q), OpenFor(r)
    PROVE  q = r
<1>1. ASSUME NEW s \in Registered, slot[s].active
      PROVE  holder = Owner[s] /\ pc[Sched] \notin {"cbback", "ycb", "ykill"}
  <2>1. holder = Owner[s] /\ s \in Regs
    BY <1>1, SlotOfFacts DEF SdrInv, ActiveSlotHasClaim
  <2>2. holder # None
    BY <2>1, NoneAssumption DEF Callers
  <2>3. QED
    BY <2>1, <2>2 DEF SdrInv, NobodyHolds, Acquiring, Yielding
<1>2. QED
  BY <1>1 DEF OpenFor, SdrInv, Registration

(* Two plugins that are both running never have pipelines open together, however
   many others are being stopped meanwhile: for decoders that do not fail, no
   capture that ends by itself, and while the application is not shut down.   *)
THEOREM RunningPipelinesApart ==
    Failing = {} /\ Capturing = {} /\ Shutdowns = FALSE => (Spec => []RunningPipelinesExclusive)
<1>1. SUFFICES ASSUME Failing = {}, Capturing = {}, Shutdowns = FALSE PROVE Spec => []RunningPipelinesExclusive
  OBVIOUS
<1>2. Init => SdrInv /\ Pipelines
  BY InitInv, PipelinesInit
<1>3. SdrInv /\ Pipelines /\ [Next]_vars => (SdrInv /\ Pipelines)'
  BY <1>1, SdrInvKeep, PipelinesKeep
<1>4. SdrInv /\ Pipelines => RunningPipelinesExclusive
  BY OpenPipelines, OpenForOne DEF Pipelines, RunningPipelinesExclusive
<1>5. QED
  BY <1>2, <1>3, <1>4, PTL DEF Spec

-----------------------------------------------------------------------------
(* Claims.  While nothing is stopped every plugin goes on once it is started. *)

AllGoing == pc[App] = "up" /\ \A r \in Regs : Going(r)

LEMMA AllGoingKeep ==
    ASSUME [Next]_vars, Places, NobodyHolds, AllGoing, Stopping = {}, Shutdowns = FALSE
    PROVE  AllGoing' /\ running
<1>1. running /\ pc'[App] = "up"
  BY AppStaysUp DEF AllGoing
<1>2. ASSUME NEW r \in Regs PROVE Going(r)'
  <2>1. pc[r] \in {"new", "run"} /\ pc[App] = "up"
    BY DEF AllGoing, Going
  <2>2. ~ YieldStep(r)
    BY <2>1 DEF YieldStep, OnYield, OnYieldKilled, YieldRelease
  <2>3. ControlMoves(r) => Start(r)
    BY <2>1 DEF ControlMoves, Stop, UnregisterYield, UnregisterPop, KillDetach, KillWait
  <2>4. Start(r) => pc'[r] = "run"
    BY ThreadsApart DEF Start, Goto, Places
  <2>5. QED
    BY <2>1, <2>2, <2>3, <2>4, ThreadMoves, ThreadsApart DEF Going
<1>3. QED
  BY <1>1, <1>2 DEF AllGoing

(* What the scheduler takes from the holder is still claimed while the holder's
   pipeline is being killed.                                               *)
YieldHasClaim ==
    (pc[Sched] = "ycb" /\ plug[yv[Sched].r].grp) \/ pc[Sched] = "ykill" =>
        [id |-> yv[Sched].lease, caller |-> Owner[yv[Sched].r]] \in claimed

LEMMA YieldClaimKeep ==
    ASSUME [Next]_vars, SdrInv, Pipelines, AllGoing, YieldHasClaim,
           Failing = {}, Capturing = {}, Stopping = {}, Shutdowns = FALSE
    PROVE  YieldHasClaim'
<1>0. /\ SdrTypes /\ SlotTypes /\ PlugTypes /\ LocalTypes /\ Places /\ LocalsKnown /\ Registration
      /\ RotationExact /\ NobodyHolds /\ LeasesApart /\ ClaimInFlight /\ ActiveSlotHasClaim
      /\ Sched \in Threads
  BY ThreadsApart DEF SdrInv
<1>1. running /\ AllGoing'
  BY <1>0, AllGoingKeep
<1>2. SUFFICES ASSUME (pc'[Sched] = "ycb" /\ plug'[yv'[Sched].r].grp) \/ pc'[Sched] = "ykill"
               PROVE  [id |-> yv'[Sched].lease, caller |-> Owner[yv'[Sched].r]] \in claimed'
  BY DEF YieldHasClaim
<1>3. CASE pc[Sched] \in {"ycb", "ykill"}
  <2> DEFINE r == yv[Sched].r
             k == [id |-> yv[Sched].lease, caller |-> Owner[yv[Sched].r]]
  <2>1. r \in Regs /\ Owner[r] \in Callers /\ yv'[Sched] = yv[Sched]
    BY <1>0, <1>3, YieldEnds DEF LocalsKnown, Yielding, Callers
  <2>2. pc[Sched] = "ykill" \/ plug[r].grp
    <3>1. CASE OnYield(Sched)
      BY <1>0, <1>2, <3>1 DEF OnYield, Goto, Places
    <3>2. CASE pc'[Sched] = "ycb" /\ plug'[r].grp
      <4>1. ~ LaunchOk /\ ~ KillDetach(r) /\ ~ KillWait(r)
        BY <1>3, <2>1 DEF LaunchOk, KillDetach, KillWait, AllGoing, Going
      <4>2. ~ PipelineFails(r) /\ ~ FailureHook(r) /\ ~ CaptureDone(r)
        BY <2>1 DEF PipelineFails, FailureHook, CaptureDone, Pipelines
      <4>3. plug'[r].grp = plug[r].grp \/ ~ plug'[r].grp
        BY <1>0, <2>1, <4>1, <4>2, PipelineMoves
      <4>4. QED
        BY <3>2, <4>3
    <3>3. QED
      BY <1>0, <1>2, <1>3, <2>1, <3>1, <3>2, YieldEnds
  <2>3. k \in claimed
    BY <1>3, <2>2 DEF YieldHasClaim
  <2>4. k.id = yv[Sched].lease /\ k.caller = Owner[r] /\ k.id # 0 /\ k.caller \notin Outsiders
    BY <1>0, <2>1, <2>3, TokenAssumption, OutsiderAssumption DEF SdrTypes
  <2>5. ASSUME NEW t \in Threads, YieldRelease(t) PROVE FALSE
    <3>1. pc[t] = "yrelease"
      BY <2>5 DEF YieldRelease
    <3>2. QED
      BY <1>3, <3>1 DEF Threads, AllGoing, Going
  <2>6. \A q \in Regs : mon[q].lease = 0
    BY DEF Pipelines
  <2> HIDE DEF k
  <2>7. k \in claimed'
    BY <1>3, <2>3, <2>4, <2>5, <2>6, ClaimMoves
  <2>8. QED
    BY <2>1, <2>7 DEF k
<1>4. CASE pc[Sched] \notin {"ycb", "ykill"}
  <2>1. EvaluateWindowEnd \/ PreflightHandoff \/ Discard
    <3>1. YieldStep(Sched) => pc'[Sched] = "yback"
      BY <1>0, <1>4, ThreadsApart DEF YieldStep, OnYield, OnYieldKilled, YieldRelease, Goto, Places
    <3>2. QED
      BY <1>0, <1>2, <1>4, <3>1, SchedMoves DEF Acquiring, Yielding
  <2>2. CASE Discard
    <3>1. yv'[Sched] = [r |-> sv.r, lease |-> sv.lease] /\ claimed' = claimed
      BY <1>0, <2>2 DEF Discard, LocalTypes
    <3>2. sv.c = Owner[sv.r] /\ [id |-> sv.lease, caller |-> sv.c] \in claimed
      BY <1>0, <1>1, <2>2 DEF Discard, ClaimInFlight, LocalsKnown, Acquiring
    <3>3. QED
      BY <3>1, <3>2
  <2>3. ASSUME NEW p, DoYield(Sched, holder, p), SlotOf(holder) # None,
               plug' = plug, pc[Sched] \in {"eval", "pfback"}, pc'[Sched] = "ycb",
               claimed' = claimed \/ claimed' = Released(sv.lease)
        PROVE  [id |-> yv'[Sched].lease, caller |-> Owner[yv'[Sched].r]] \in claimed'
    <3> DEFINE q == SlotOf(holder)
    <3>1. q \in Registered /\ q \in Regs /\ holder \in Callers
      BY <1>0, <2>3, SlotOfFacts, GivingUp
    <3>2. yv'[Sched] = [r |-> q, lease |-> slot[q].lease]
      BY <1>0, <2>3, <3>1, DoYieldFacts DEF LocalTypes
    <3>3. plug[q].grp
      BY <1>2, <2>3, <3>2
    <3> HIDE DEF q
    <3>4. slot[q].active
      BY <2>3, <3>1, <3>3 DEF Pipelines, AllGoing
    <3>5. [id |-> slot[q].lease, caller |-> Owner[q]] \in claimed /\ slot[q].lease # sv.lease
      BY <1>0, <3>1, <3>4 DEF ActiveSlotHasClaim, LeasesApart
    <3>6. [id |-> slot[q].lease, caller |-> Owner[q]] \in claimed'
      BY <2>3, <3>5 DEF Released
    <3>7. QED
      BY <3>2, <3>6
  <2>4. CASE EvaluateWindowEnd
    <3>1. DoYield(Sched, holder, FALSE) /\ SlotOf(holder) # None /\ plug' = plug /\ claimed' = claimed /\ pc[Sched] = "eval"
      BY <2>4 DEF EvaluateWindowEnd
    <3>2. pc'[Sched] = "ycb"
      BY <1>0, <2>4 DEF EvaluateWindowEnd, Goto, Places
    <3>3. QED
      BY <2>3, <3>1, <3>2
  <2>5. CASE PreflightHandoff
    <3>1. ASSUME BeginAcquire(sv.c) PROVE pc'[Sched] \in {"idle", "claim"}
      BY <1>0, <3>1, BeginAcquireLocals DEF Places
    <3>2. DoYield(Sched, holder, TRUE) /\ SlotOf(holder) # None /\ plug' = plug /\ claimed' = Released(sv.lease)
          /\ pc[Sched] = "pfback"
      BY <1>2, <2>5, <3>1 DEF PreflightHandoff, plugVars
    <3>3. pc'[Sched] = "ycb"
      BY <1>0, <2>5, <3>2 DEF PreflightHandoff, Goto, Places
    <3>4. QED
      BY <2>3, <3>2, <3>3
  <2>6. QED
    BY <2>1, <2>2, <2>4, <2>5
<1>5. QED
  BY <1>3, <1>4

(* At most one pipeline has the dongle open, and its plugin owns a claim of the
   dongle: for decoders that do not fail, no capture that ends by itself, and
   while nothing is stopped.                                               *)
THEOREM PipelinesClaimed ==
    Failing = {} /\ Capturing = {} /\ Stopping = {} /\ Shutdowns = FALSE => (Spec => []PipelinesAreClaimed)
<1> DEFINE PInv == SdrInv /\ Pipelines /\ AllGoing /\ YieldHasClaim
<1>1. SUFFICES ASSUME Failing = {}, Capturing = {}, Stopping = {}, Shutdowns = FALSE
               PROVE  Spec => []PipelinesAreClaimed
  OBVIOUS
<1>2. Init => PInv
  <2>1. Init => pc[Sched] = "idle" /\ pc[App] = "up" /\ \A r \in Regs : pc[r] = "new"
    BY ThreadsApart DEF Init
  <2>2. QED
    BY <2>1, InitInv, PipelinesInit DEF AllGoing, Going, YieldHasClaim
<1>3. PInv /\ [Next]_vars => PInv'
  BY <1>1, SdrInvKeep, PipelinesKeep, AllGoingKeep, YieldClaimKeep DEF SdrInv
<1>4. PInv => PipelinesAreClaimed
  <2>1. SUFFICES ASSUME PInv PROVE PipelinesAreClaimed
    OBVIOUS
  <2>2. \A r \in Regs : plug[r].open => OpenFor(r)
    BY <2>1, OpenPipelines DEF AllGoing
  <2>3. OneOpenPipeline
    BY <2>1, <2>2, OpenForOne DEF OneOpenPipeline
  <2>4. ASSUME NEW r \in Regs, plug[r].open PROVE \E k \in claimed : k.caller = Owner[r]
    <3>1. CASE slot[r].active /\ r \in Registered
      BY <2>1, <3>1 DEF SdrInv, ActiveSlotHasClaim
    <3>2. CASE pc[Sched] = "cbback" /\ sv.r = r
      <4>1. running
        BY <2>1 DEF SdrInv, NobodyHolds, AllGoing, Yielding
      <4>2. [id |-> sv.lease, caller |-> Owner[r]] \in claimed
        BY <2>1, <3>2, <4>1 DEF SdrInv, ClaimInFlight, LocalsKnown, Acquiring
      <4>3. QED
        BY <4>2
    <3>3. CASE pc[Sched] \in {"ycb", "ykill"} /\ yv[Sched].r = r
      <4>1. plug[r].grp \/ pc[Sched] = "ykill"
        BY <2>1, <2>4 DEF Pipelines, AllGoing
      <4>2. [id |-> yv[Sched].lease, caller |-> Owner[r]] \in claimed
        BY <2>1, <3>3, <4>1 DEF YieldHasClaim
      <4>3. QED
        BY <4>2
    <3>4. QED
      BY <2>2, <2>4, <3>1, <3>2, <3>3 DEF OpenFor
  <2>5. QED
    BY <2>3, <2>4 DEF PipelinesAreClaimed, OpenPipelineHasClaim
<1> HIDE DEF PInv
<1>5. QED
  BY <1>2, <1>3, <1>4, PTL DEF Spec

-----------------------------------------------------------------------------
(* Leaks *)

(* A slot's lease goes with its activity, a monitor's with its release, and when
   the scheduler forgets a lease it has returned it.                        *)
LeasesReturned ==
    /\ \A r \in Regs : slot[r].lease # 0 => slot[r].active
    /\ \A r \in Regs : mon[r].lease # 0 => mon[r].pc \in {"lease", "lastlease"}
    /\ pc[Sched] = "lback" => \A k \in claimed : k.id # sv.lease

LEMMA MonLeaseEnds ==
    ASSUME [Next]_vars, MonTypes, LocalTypes, LocalsKnown, NEW r \in Regs,
           mon[r].lease # 0 => mon[r].pc \in {"lease", "lastlease"}
    PROVE  /\ mon'[r].lease # 0 => mon'[r].pc \in {"lease", "lastlease"}
           /\ mon'[r].lease = mon[r].lease \/ mon[r].lease = 0 \/ claimed' = Released(mon[r].lease)
<1>1. CASE mon' = mon
  BY <1>1
<1>2. CASE LaunchOk
  BY <1>2 DEF LaunchOk, MonTypes
<1>3. ASSUME NEW s \in Regs, s # r, PipelineFails(s) \/ FailureHook(s) \/ CaptureDone(s) \/ MonitorRelease(s)
                                     \/ MonitorLease(s) \/ MonitorRetry(s) \/ MonitorExhaust(s)
      PROVE  mon'[r] = mon[r]
  <2>1. CASE PipelineFails(s) \/ FailureHook(s) \/ CaptureDone(s)
    BY <1>3, <2>1 DEF PipelineFails, FailureHook, CaptureDone, MonGoto, MonTypes
  <2>2. CASE MonitorRelease(s)
    <3>1. PICK a, b, c, d : mon' = [mon EXCEPT ![s].pc = a, ![s].gen = b, ![s].lease = c, ![s].reg = d]
      BY <2>2 DEF MonitorRelease
    <3>2. QED
      BY <1>3, <3>1 DEF MonTypes
  <2>3. CASE MonitorLease(s) \/ MonitorRetry(s) \/ MonitorExhaust(s)
    BY <1>3, <2>3 DEF MonitorLease, MonitorRetry, MonitorExhaust, MonTypes
  <2>4. QED
    BY <1>3, <2>1, <2>2, <2>3
<1>4. CASE PipelineFails(r) \/ FailureHook(r) \/ CaptureDone(r)
  <2>1. mon[r].lease = 0
    BY <1>4 DEF PipelineFails, FailureHook, CaptureDone, MonTypes
  <2>2. mon'[r].lease = mon[r].lease
    BY <1>4 DEF PipelineFails, FailureHook, CaptureDone, MonGoto, MonTypes
  <2>3. QED
    BY <2>1, <2>2
<1>5. CASE MonitorRelease(r)
  <2>1. mon[r].lease = 0
    BY <1>5 DEF MonitorRelease, MonTypes
  <2>2. PICK a \in {"lease", "lastlease"} : \E b, c, d : mon' = [mon EXCEPT ![r].pc = a, ![r].gen = b, ![r].lease = c, ![r].reg = d]
    BY <1>5 DEF MonitorRelease
  <2>3. mon'[r].pc = a
    BY <2>2 DEF MonTypes
  <2>4. QED
    BY <2>1, <2>3
<1>6. CASE MonitorLease(r)
  <2>1. claimed' = Released(mon[r].lease)
    BY <1>6 DEF MonitorLease
  <2>2. mon'[r].lease = 0
    BY <1>6 DEF MonitorLease, MonTypes, IdleMonitor
  <2>3. QED
    BY <2>1, <2>2
<1>7. CASE MonitorRetry(r)
  <2>1. mon[r].lease = 0
    BY <1>7 DEF MonitorRetry, MonTypes
  <2>2. mon'[r].lease = 0
    BY <1>7 DEF MonitorRetry, MonTypes, IdleMonitor
  <2>3. QED
    BY <2>1, <2>2
<1>8. CASE MonitorExhaust(r)
  <2>1. mon[r].lease = 0
    BY <1>8 DEF MonitorExhaust, MonTypes
  <2>2. mon'[r].lease = 0
    BY <1>8, <2>1 DEF MonitorExhaust, MonTypes, IdleMonitor
  <2>3. QED
    BY <2>1, <2>2
<1>9. QED
  BY <1>1, <1>2, <1>3, <1>4, <1>5, <1>6, <1>7, <1>8, MonWriters

LEMMA ClaimAdds ==
    ASSUME [Next]_vars, NEW k \in claimed', k \notin claimed
    PROVE  (k.id = sv'.lease \/ k.caller \in Outsiders) /\ FreshId(k.id)
<1>1. CASE ClaimDevice
  <2>1. PICK i \in Ids : FreshId(i) /\ sv' = [sv EXCEPT !.res = "ok", !.lease = i]
                         /\ claimed' = ReleasedBy(sv.c) \cup {[id |-> i, caller |-> sv.c]}
    BY <1>1 DEF ClaimDevice
  <2>2. k = [id |-> i, caller |-> sv.c]
    BY <2>1 DEF ReleasedBy
  <2>3. FreshId(k.id) /\ k.id = i
    BY <2>1, <2>2
  <2>4. QED
    BY <2>1, <2>3
<1>2. ASSUME NEW o \in Outsiders, OutsiderClaims(o) PROVE k.caller \in Outsiders /\ FreshId(k.id)
  BY <1>2 DEF OutsiderClaims
<1>3. QED
  BY <1>1, <1>2, ClaimWriters DEF PreflightStop, PreflightHandoff, ReleaseStale, LaunchRelease, YieldRelease,
     MonitorLease, OutsiderReleases, Released, ReleasedBy

(* When the scheduler forgets a lease it has returned it, or handed it on. *)
LEMMA SchedLeaseEnds ==
    ASSUME [Next]_vars, LocalTypes, Places, LocalsKnown, sv.lease # 0
    PROVE  \/ sv'.lease = sv.lease
           \/ claimed' = Released(sv.lease)
           \/ pc[Sched] = "lback"
           \/ Discard
           \/ Grant
<1>1. ASSUME NEW l PROVE [sv EXCEPT !.res = l].lease = sv.lease /\ [sv EXCEPT !.hold = l].lease = sv.lease
  BY DEF LocalTypes, SchedLocals
<1>2. CASE Loop \/ EvaluateKeep \/ OnAcquire \/ LaunchOk \/ LaunchFail \/ LaunchRetry \/ LaunchRelease
  BY <1>2 DEF Loop, EvaluateKeep, OnAcquire, LaunchOk, LaunchFail, LaunchRetry, LaunchRelease
<1>3. CASE EvaluateWindowEnd \/ EvaluateAcquire \/ EvaluatePreflight \/ AfterYield
  BY <1>3 DEF EvaluateWindowEnd, EvaluateAcquire, EvaluatePreflight, AfterYield, LocalsKnown
<1>4. CASE ClaimDevice
  BY <1>1, <1>4 DEF ClaimDevice, LocalsKnown
<1>5. CASE PreflightStop \/ PreflightHandoff \/ ReleaseStale
  BY <1>5 DEF PreflightStop, PreflightHandoff, ReleaseStale
<1>6. CASE AcquireCheck
  BY <1>6 DEF AcquireCheck
<1>7. CASE LaunchSuspend
  BY <1>1, <1>7 DEF LaunchSuspend
<1>8. CASE LaunchBack
  BY <1>8 DEF LaunchBack
<1>9. CASE SchedStep
  BY <1>2, <1>3, <1>4, <1>5, <1>6, <1>7, <1>8, <1>9 DEF SchedStep
<1>10. CASE \E t \in Threads : YieldStep(t)
  BY <1>10 DEF YieldStep, OnYield, OnYieldKilled, YieldRelease
<1>11. CASE \E r \in Regs : ControlStep(r)
  BY <1>11 DEF ControlStep, Start, Stop, UnregisterYield, UnregisterPop, KillDetach, KillWait, Lock,
     Unlock, AddWindow, RemoveWindows, WindowOpens, WindowCloses, SetWindow
<1>12. CASE \E r \in Regs : MonitorStep(r) \/ WorkerStep(r) \/ RestartForgotten(r)
  BY <1>12 DEF MonitorStep, WorkerStep, PipelineFails, FailureHook, CaptureDone,
     MonitorRelease, MonitorLease, MonitorRetry, MonitorExhaust, WorkerWakes, Resume, RestartForgotten
<1>13. CASE Shutdown \/ StopScheduler \/ SliceElapses \/ Replug \/ UNCHANGED vars
  BY <1>13 DEF vars, Shutdown, StopScheduler, SliceElapses, Replug
<1>14. CASE \E o \in Outsiders : OutsiderClaims(o) \/ OutsiderReleases(o)
  BY <1>14 DEF OutsiderClaims, OutsiderReleases
<1>15. QED
  BY <1>9, <1>10, <1>11, <1>12, <1>13, <1>14 DEF Next

LEMMA FailedLaunchReturns ==
    ASSUME [Next]_vars, SdrTypes, SlotTypes, LocalTypes, Places, LocalsKnown, Registration, RotationExact,
           pc'[Sched] = "lback"
    PROVE  sv' = sv /\ (pc[Sched] = "lback" \/ claimed' = Released(sv.lease))
<1>1. sv' = sv /\ (pc[Sched] = "lback" \/ pc[Sched] \in Acquiring)
  BY SchedMoves DEF Yielding
<1>2. ASSUME pc[Sched] # "lback" PROVE LaunchRelease
  <2>1. ~ YieldStep(Sched)
    BY <1>1, <1>2 DEF YieldStep, OnYield, OnYieldKilled, YieldRelease, Acquiring
  <2>2. SchedStep
    BY <1>2, <2>1, ThreadMoves, ThreadsApart
  <2>3. \A l : pc' = [pc EXCEPT ![Sched] = l] => l = "lback"
    BY ThreadsApart DEF Places
  <2>4. QED
    BY <1>1, <2>2, <2>3 DEF SchedStep, Goto, SchedIdle, Loop, EvaluateKeep, EvaluateWindowEnd, EvaluateAcquire, EvaluatePreflight,
       ClaimDevice, PreflightStop, PreflightHandoff, AfterYield, AcquireCheck, ReleaseStale, OnAcquire,
       LaunchOk, LaunchFail, LaunchSuspend, LaunchRetry, LaunchBack, Discard, Grant, Acquiring
<1>3. QED
  BY <1>1, <1>2 DEF LaunchRelease

LEMMA LeasesReturnedKeep ==
    ASSUME [Next]_vars, SdrInv, LeasesReturned
    PROVE  LeasesReturned'
<1>0. /\ SdrTypes /\ SlotTypes /\ PlugTypes /\ MonTypes /\ LocalTypes /\ Places /\ LocalsKnown /\ Registration
      /\ RotationExact
  BY DEF SdrInv
<1>1. ASSUME NEW r \in Regs, slot'[r].lease # 0 PROVE slot'[r].active
  <2>1. SlotKept(r) \/ SlotGivenUp(r) \/ SlotGranted(r) \/ SlotResumed(r)
    BY <1>0, SlotMoves
  <2>2. QED
    BY <1>1, <2>1 DEF LeasesReturned, SlotKept, SlotGivenUp, SlotGranted, SlotResumed
<1>2. \A r \in Regs : mon'[r].lease # 0 => mon'[r].pc \in {"lease", "lastlease"}
  BY <1>0, MonLeaseEnds DEF LeasesReturned
<1>3. ASSUME pc'[Sched] = "lback", NEW k \in claimed' PROVE k.id # sv'.lease
  <2>1. sv' = sv /\ (pc[Sched] = "lback" \/ claimed' = Released(sv.lease))
    BY <1>0, <1>3, FailedLaunchReturns
  <2>2. CASE k \notin claimed
    <3>1. FreshId(k.id)
      BY <1>3, <2>2, ClaimAdds
    <3>2. k.id # sv.lease
      BY <3>1 DEF FreshId, IdsUsed
    <3>3. QED
      BY <2>1, <3>2
  <2>3. CASE k \in claimed
    BY <1>3, <2>1, <2>3 DEF LeasesReturned, Released
  <2>4. QED
    BY <2>2, <2>3
<1>4. QED
  BY <1>1, <1>2, <1>3 DEF LeasesReturned

Remembered(i) ==
    \/ i = sv.lease
    \/ \E t \in Threads : i = yv[t].lease
    \/ \E r \in Regs : i = mon[r].lease \/ (r \in Registered /\ i = slot[r].lease)

LEMMA RememberedKeep ==
    ASSUME [Next]_vars, SdrInv, LeasesReturned, AllGoing, Stopping = {}, Shutdowns = FALSE,
           NEW k \in claimed, k \in claimed', k.id # 0, Remembered(k.id)
    PROVE  Remembered(k.id)'
<1>0. /\ SdrTypes /\ SlotTypes /\ PlugTypes /\ MonTypes /\ LocalTypes /\ Places /\ LocalsKnown /\ Registration
      /\ RotationExact /\ NobodyHolds /\ ActiveSlotHasClaim /\ FreshSlot
  BY DEF SdrInv
<1>1. Registered \subseteq Regs /\ Registered \subseteq Registered' /\ Sched \in Threads
  <2>1. \A r \in Regs : ~ UnregisterPop(r)
    BY DEF UnregisterPop, AllGoing, Going
  <2>2. QED
    BY <1>0, <2>1, RegistrationKeep, SlotOfFacts, ThreadsApart
<1>2. CASE k.id = sv.lease
  <2>1. claimed' # Released(sv.lease) /\ pc[Sched] # "lback"
    BY <1>2 DEF Released, LeasesReturned
  <2>2. CASE sv'.lease = sv.lease
    BY <1>2, <2>2 DEF Remembered
  <2>3. CASE Discard
    <3>1. yv'[Sched].lease = sv.lease
      BY <1>0, <1>1, <2>3 DEF Discard, LocalTypes
    <3>2. QED
      BY <1>1, <1>2, <3>1 DEF Remembered
  <2>4. CASE Grant
    <3>1. sv.r \in Regs /\ sv.c = Owner[sv.r] /\ SlotOf(sv.c) = sv.r
      BY <1>0, <2>4 DEF Grant, GrantStale, LocalsKnown, Acquiring
    <3>2. sv.r \in Registered
      BY <1>0, <3>1, SlotOfFacts
    <3>3. slot'[sv.r].lease = sv.lease
      BY <1>0, <2>4, <3>1 DEF Grant, SlotTypes
    <3>4. QED
      BY <1>1, <1>2, <3>1, <3>2, <3>3 DEF Remembered
  <2>5. QED
    BY <1>0, <1>2, <2>1, <2>2, <2>3, <2>4, SchedLeaseEnds
<1>3. ASSUME NEW t \in Threads, k.id = yv[t].lease PROVE Remembered(k.id)'
  <2>1. pc[t] \in Yielding
    BY <1>0, <1>3 DEF LocalsKnown
  <2>2. ~ YieldRelease(t)
    BY <1>3 DEF YieldRelease, Released
  <2>3. yv'[t] = yv[t]
    BY <1>0, <2>1, <2>2, YieldingThread
  <2>4. QED
    BY <1>3, <2>3 DEF Remembered
<1>4. ASSUME NEW r \in Regs, k.id = mon[r].lease PROVE Remembered(k.id)'
  <2>1. claimed' # Released(mon[r].lease)
    BY <1>4 DEF Released
  <2>2. mon'[r].lease = mon[r].lease
    BY <1>0, <1>4, <2>1, MonLeaseEnds DEF LeasesReturned
  <2>3. QED
    BY <1>4, <2>2 DEF Remembered
<1>5. ASSUME NEW r \in Registered, k.id = slot[r].lease PROVE Remembered(k.id)'
  <2>1. r \in Regs /\ r \in Registered' /\ pc[r] = "run" /\ slot[r].active
    BY <1>0, <1>1, <1>5 DEF Registration, AllGoing, Going, LeasesReturned, Yielding
  <2>2. holder # None
    BY <1>0, <1>5, <2>1, NoneAssumption DEF ActiveSlotHasClaim, Callers
  <2>3. ~ Grant
    BY <1>0, <2>2 DEF Grant, NobodyHolds, Acquiring
  <2>4. SlotKept(r) \/ SlotGivenUp(r) \/ SlotGranted(r) \/ SlotResumed(r)
    BY <1>0, <2>1, SlotMoves
  <2>5. CASE slot'[r].lease = slot[r].lease
    BY <1>5, <2>1, <2>5 DEF Remembered
  <2>6. CASE ~ slot'[r].active
    <3>1. CASE yv'[Sched] = [r |-> r, lease |-> slot[r].lease]
      <4>1. yv'[Sched].lease = k.id
        BY <1>5, <3>1
      <4>2. QED
        BY <1>1, <4>1 DEF Remembered
    <3>2. ASSUME NEW s \in Regs, MonitorRelease(s) PROVE Remembered(k.id)'
      <4>1. ReleaseSlot(Owner[s], mon[s].gen, mon[s].pc # "released") /\ (mon[s].pc # "released") \in BOOLEAN
            /\ Owner[s] \in Callers
        BY <1>0, <3>2, GivingUp DEF MonitorRelease
      <4>2. slot'[r] = slot[r] \/ ReleasedLease(Owner[s], mon[s].gen) = slot[r].lease
        <5> DEFINE c == Owner[s]
                   g == mon[s].gen
                   suspend == mon[s].pc # "released"
        <5>1. c \in Callers /\ suspend \in BOOLEAN /\ ReleaseSlot(c, g, suspend)
          BY <4>1
        <5> HIDE DEF c, g, suspend
        <5>2. \/ slot' = slot
              \/ /\ ReleasedLease(c, g) = slot[SlotOf(c)].lease
                 /\ \A q \in Regs \ {SlotOf(c)} : slot'[q] = slot[q]
          BY <1>0, <5>1, ReleaseSlotFacts
        <5>3. slot'[r] = slot[r] \/ ReleasedLease(c, g) = slot[r].lease
          BY <2>1, <5>2
        <5>4. QED
          BY <5>3 DEF c, g
      <4>3. ReleasedLease(Owner[s], mon[s].gen) = slot[r].lease
        BY <2>1, <2>6, <4>2
      <4> DEFINE l == ReleasedLease(Owner[s], mon[s].gen)
      <4>4. PICK a, b, d : mon' = [mon EXCEPT ![s].pc = a, ![s].gen = b, ![s].lease = l, ![s].reg = d]
        BY <3>2 DEF MonitorRelease
      <4> HIDE DEF l
      <4>5. mon'[s].lease = l
        BY <1>0, <3>2, <4>4 DEF MonTypes
      <4>6. mon'[s].lease = k.id
        BY <1>5, <4>3, <4>5 DEF l
      <4>7. QED
        BY <3>2, <4>6 DEF Remembered
    <3>3. QED
      BY <1>0, <1>5, <2>1, <2>6, <3>1, <3>2, GivenToYield DEF AllGoing
  <2>7. QED
    BY <2>3, <2>4, <2>5, <2>6 DEF SlotKept, SlotGivenUp, SlotGranted, SlotResumed
<1>6. QED
  BY <1>2, <1>3, <1>4, <1>5 DEF Remembered

(* After failures, exhausted retries and unplugging every claim is known to whoever
   must return it, and a suspended slot neither holds the dongle nor keeps a lease:
   as long as nothing is stopped.  (Stopping a plugin can leave a claim behind.)  *)
THEOREM FaultsStayContained ==
    Stopping = {} /\ Shutdowns = FALSE => (Spec => []FaultsContained)
<1> DEFINE LInv == SdrInv /\ LeasesReturned /\ AllGoing
                   /\ \A k \in claimed : k.caller \in Callers => Remembered(k.id)
<1>1. SUFFICES ASSUME Stopping = {}, Shutdowns = FALSE PROVE Spec => []FaultsContained
  OBVIOUS
<1>2. Init => LInv
  <2>1. Init => pc[Sched] = "idle" /\ pc[App] = "up" /\ \A r \in Regs : pc[r] = "new"
    BY ThreadsApart DEF Init
  <2>2. Init => LeasesReturned
    BY <2>1 DEF Init, LeasesReturned, NewSlot, IdleMonitor
  <2>3. Init => claimed = {}
    BY DEF Init
  <2>4. QED
    BY <2>1, <2>2, <2>3, InitInv DEF AllGoing, Going
<1>3. LInv /\ [Next]_vars => LInv'
  <2>1. SUFFICES ASSUME LInv, [Next]_vars PROVE LInv'
    OBVIOUS
  <2>2. SdrInv' /\ LeasesReturned' /\ AllGoing'
    BY <1>1, <2>1, SdrInvKeep, LeasesReturnedKeep, AllGoingKeep DEF SdrInv
  <2>3. ASSUME NEW k \in claimed', k.caller \in Callers PROVE Remembered(k.id)'
    <3>1. k.caller \notin Outsiders
      BY <2>3, OutsiderAssumption
    <3>2. CASE k \notin claimed
      <4>1. k.id = sv'.lease
        BY <2>1, <2>3, <3>1, <3>2, ClaimAdds
      <4>2. QED
        BY <4>1 DEF Remembered
    <3>3. CASE k \in claimed
      <4>1. k.id # 0
        BY <2>1, <3>3, TokenAssumption DEF SdrInv, SdrTypes
      <4>2. QED
        BY <1>1, <2>1, <2>3, <3>3, <4>1, RememberedKeep
    <3>4. QED
      BY <3>2, <3>3
  <2>4. QED
    BY <2>2, <2>3
<1>4. LInv => FaultsContained
  BY DEF Remembered, SdrInv, FaultsContained, NoLeakedClaim
<1> HIDE DEF LInv
<1>5. QED
  BY <1>2, <1>3, <1>4, PTL DEF Spec

=============================================================================
