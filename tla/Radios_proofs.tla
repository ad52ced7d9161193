---------------------------- MODULE Radios_proofs ----------------------------
(***************************************************************************)
(* Proofs about what the daemon holds of its radios: the registry of       *)
(* serial devices, the Meshtastic packet ids, the two links of the         *)
(* Meshtastic gateway (the clients of the MQTT broker, and the serial      *)
(* radio in listener mode), and the MeshCore gateway with its observer.    *)
(***************************************************************************)
EXTENDS SerialRegistry, PacketIds, MqttLink, MeshtasticSerial, MeshCoreObserver, FiniteSetTheorems, TLAPS

-----------------------------------------------------------------------------
(***************************************************************************)
(* Proofs about the registry of serial devices, for any number of paths,   *)
(* endpoints and callers.  A claim is decided on what was resolved before  *)
(* the lock was taken: the inductive invariant says what a caller may      *)
(* still hold then, and that an intent covers the endpoint it saw last.    *)
(***************************************************************************)

SrEnds == SrEndpoints \cup {"missing"}
SrAllKeys == UNION {SrKeys[e] : e \in SrEndpoints}

SrClaimType == [id : 1..SrMax, path : SrPaths, end : SrEndpoints, group : 1..SrMax, ext : BOOLEAN]
SrIntentType == [id : 1..SrMax, path : SrPaths, end : SrEnds, keys : SUBSET SrAllKeys]
SrThreadType == [pc : {"idle", "claim", "reserve", "revalidate"}, path : SrPaths \cup {"none"},
                 end : SrEnds, want : {"local", "external", "share"}, id : 0..SrMax]

(* What a caller brings to the lock *)
SrThreadOK(th) ==
    /\ th \in SrThreadType
    /\ th.pc \in {"claim", "reserve"} => th.path \in SrPaths
    /\ th.pc = "claim" => th.end \in SrEndpoints /\ (th.want = "share" => th.id \in 1..SrMax)

IdsFresh == \A x \in srClaims \cup srIntents : x.id < srNext

IntentsCoverEnd == \A i \in srIntents : Keys(i.end) \subseteq i.keys

SrInv ==
    /\ SrTypeOK
    /\ srIntents \subseteq SrIntentType
    /\ srTokens \subseteq 1..SrMax
    /\ srNext \in 1..(SrMax + 1)
    /\ srThread \in [SrThreads -> SrThreadType] /\ \A t \in SrThreads : SrThreadOK(srThread[t])
    /\ IdsFresh
    /\ IntentsCoverEnd
    /\ ClaimsExclusive

-----------------------------------------------------------------------------
(* The keys of what a path resolves to are keys of the endpoints. *)
LEMMA KeysType ==
    ASSUME NEW e \in SrEnds
    PROVE  Keys(e) \subseteq SrAllKeys
BY SrAssumption DEF Keys, SrEnds, SrAllKeys

LEMMA IdleOK == SrThreadOK(SrIdle)
BY SrAssumption DEF SrThreadOK, SrThreadType, SrIdle, SrEnds

(* A refreshed intent is the same intent: it forgets no key, and covers what
   its path names now.                                                      *)
LEMMA RefreshedKeeps ==
    ASSUME SrInv, NEW i \in srIntents
    PROVE  /\ Refreshed(i) \in SrIntentType
           /\ Refreshed(i).id = i.id /\ Refreshed(i).path = i.path
           /\ i.keys \cup Keys(srLink[i.path]) \cup Keys(Refreshed(i).end) \subseteq Refreshed(i).keys
<1>1. i \in SrIntentType
  BY DEF SrInv
<1>2. srLink[i.path] \in SrEnds
  BY <1>1 DEF SrInv, SrTypeOK, SrEnds, SrIntentType
<1>3. Keys(i.end) \subseteq i.keys
  BY DEF SrInv, IntentsCoverEnd
<1>4. Keys(srLink[i.path]) \subseteq SrAllKeys
  BY <1>2, KeysType
<1>5. CASE srLink[i.path] = "missing" \/ srLink[i.path] = i.end
  BY <1>1, <1>3, <1>5 DEF Refreshed, Keys
<1>6. CASE ~ (srLink[i.path] = "missing" \/ srLink[i.path] = i.end)
  BY <1>1, <1>2, <1>3, <1>4, <1>6 DEF Refreshed, SrIntentType
<1>7. QED
  BY <1>5, <1>6

(* A claim and an intent are different things, so they never share an id. *)
LEMMA IntentsAreNoClaims ==
    ASSUME SrInv, NEW i \in srIntents, NEW c \in srClaims
    PROVE  i.id # c.id
<1>1. SUFFICES ASSUME i.id = c.id PROVE FALSE
  OBVIOUS
<1>2. i = c
  BY <1>1 DEF SrInv, SrTypeOK
<1>3. i \in SrIntentType /\ c \in SrClaimType
  BY DEF SrInv, SrTypeOK, SrClaimType
<1>4. DOMAIN i = {"id", "path", "end", "keys"} /\ DOMAIN c = {"id", "path", "end", "group", "ext"}
  BY <1>3 DEF SrIntentType, SrClaimType
<1>5. QED
  BY <1>2, <1>4

(* _refresh_intents_locked keeps what the invariant says of the intents. *)
LEMMA RefreshKeeps ==
    ASSUME SrInv
    PROVE  /\ RefreshedIntents \subseteq SrIntentType
           /\ \A i \in RefreshedIntents : Keys(i.end) \subseteq i.keys /\ i.id < srNext
           /\ \A i, j \in RefreshedIntents : i.id = j.id => i = j
           /\ \A i \in RefreshedIntents, c \in srClaims : i.id # c.id
<1>1. \A r \in RefreshedIntents : \E i \in srIntents :
         r = Refreshed(i) /\ r \in SrIntentType /\ r.id = i.id /\ Keys(r.end) \subseteq r.keys
  BY RefreshedKeeps DEF RefreshedIntents
<1>2. \A i \in srIntents : i.id < srNext
  BY DEF SrInv, IdsFresh
<1>3. \A i, j \in srIntents : i.id = j.id => i = j
  BY DEF SrInv, SrTypeOK
<1>4. QED
  BY <1>1, <1>2, <1>3, IntentsAreNoClaims

LEMMA SrInitInv == SrInit => SrInv
BY SrAssumption
   DEF SrInit, SrInv, SrTypeOK, IdsFresh, IntentsCoverEnd, ClaimsExclusive, SrThreadOK, SrIdle,
       SrThreadType, SrEnds

(* What the invariant says of the claims and intents is untouched by a step
   that changes neither them nor the tokens.                               *)
LEMMA ThreadStepKeeps ==
    ASSUME SrInv, UNCHANGED <<srClaims, srTokens, srNext>>,
           srLink' \in [SrPaths -> SrEnds],
           srIntents' = srIntents \/ srIntents' = RefreshedIntents,
           NEW t \in SrThreads, NEW th, SrThreadOK(th),
           srThread' = [srThread EXCEPT ![t] = th]
    PROVE  SrInv'
<1>1. /\ srIntents' \subseteq SrIntentType
      /\ IntentsCoverEnd'
      /\ \A i \in srIntents' : i.id < srNext
      /\ \A i, j \in srIntents' : i.id = j.id => i = j
      /\ \A i \in srIntents', c \in srClaims : i.id # c.id
  <2>1. CASE srIntents' = RefreshedIntents
    BY <2>1, RefreshKeeps DEF IntentsCoverEnd
  <2>2. CASE srIntents' = srIntents
    <3>1. \A i \in srIntents, c \in srClaims : i.id # c.id
      BY IntentsAreNoClaims
    <3>2. QED
      BY <2>2, <3>1 DEF SrInv, SrTypeOK, IdsFresh, IntentsCoverEnd
  <2>3. QED
    BY <2>1, <2>2
<1>2. SrTypeOK'
  BY <1>1 DEF SrInv, SrTypeOK, SrIntentType, SrEnds
<1>3. IdsFresh'
  BY <1>1 DEF SrInv, IdsFresh
<1>4. srThread' \in [SrThreads -> SrThreadType] /\ \A u \in SrThreads : SrThreadOK(srThread'[u])
  BY DEF SrInv, SrThreadOK
<1>5. QED
  BY <1>1, <1>2, <1>3, <1>4 DEF SrInv, ClaimsExclusive

-----------------------------------------------------------------------------
(* The decision of _claim keeps the invariant, and a claim that is granted
   collides with no path of an external owner: the intents were refreshed
   under the lock.                                                          *)
LEMMA ClaimKeeps ==
    ASSUME SrInv, NEW t \in SrThreads, SrClaim(t)
    PROVE  /\ SrInv'
           /\ \A c \in srClaims' \ srClaims, i \in srIntents :
                 c.path # i.path /\ Keys(c.end) \cap (i.keys \cup Keys(srLink[i.path])) = {}
<1> DEFINE th == srThread[t]
           g == IF th.want = "share" THEN th.id ELSE srNext
           new == [id |-> srNext, path |-> th.path, end |-> th.end,
                   group |-> g, ext |-> th.want = "external"]
<1>1. SrThreadOK(th) /\ th.pc = "claim" /\ th \in SrThreadType
  BY DEF SrInv, SrClaim, SrThreadOK
<1>2. SrThreadOK(SrIdle) /\ srThread' = [srThread EXCEPT ![t] = SrIdle]
  BY IdleOK DEF SrClaim, SrDone
<1>3. CASE ~ Grants(t)
  <2>1. UNCHANGED <<srClaims, srTokens, srNext, srLink>> /\ srIntents' = RefreshedIntents
    BY <1>3 DEF SrClaim
  <2>2. srLink' \in [SrPaths -> SrEnds]
    BY <2>1 DEF SrInv, SrTypeOK, SrEnds
  <2>3. SrInv'
    BY <1>2, <2>1, <2>2, ThreadStepKeeps
  <2>4. QED
    BY <2>1, <2>3
<1>4. CASE Grants(t)
  <2>1. /\ srClaims' = srClaims \cup {new} /\ srNext' = srNext + 1 /\ srNext \in 1..SrMax
        /\ srIntents' = RefreshedIntents /\ UNCHANGED <<srLink, srTokens>>
    BY <1>4 DEF SrClaim, SrInv
  <2>2. new \in SrClaimType
    BY <1>1, <2>1 DEF SrThreadOK, SrThreadType, SrClaimType
  <2>3. \A c \in srClaims : c \in SrClaimType /\ c.id < srNext
    BY DEF SrInv, SrTypeOK, SrClaimType, IdsFresh
  <2>4. \A i \in RefreshedIntents : i.id < srNext /\ i \in SrIntentType
    BY RefreshKeeps
  <2>5. SrTypeOK'
    <3>1. \A x, y \in srClaims' \cup srIntents' : x.id = y.id => x = y
      <4>1. \A x \in srClaims \cup RefreshedIntents : x.id < srNext /\ x.id \in 1..SrMax
        BY <2>3, <2>4 DEF SrClaimType, SrIntentType
      <4>2. \A x, y \in srClaims \cup RefreshedIntents : x.id = y.id => x = y
        BY RefreshKeeps DEF SrInv, SrTypeOK
      <4>3. new.id = srNext
        OBVIOUS
      <4>4. QED
        BY <2>1, <4>1, <4>2, <4>3
    <3>2. QED
      BY <2>1, <2>2, <2>3, <2>4, <3>1 DEF SrInv, SrTypeOK, SrClaimType, SrIntentType, SrEnds
  <2>6. IdsFresh'
    BY <2>1, <2>2, <2>3, <2>4 DEF IdsFresh, SrClaimType, SrIntentType
  <2>7. ClaimsExclusive'
    <3>1. \A d \in srClaims : Keys(new.end) \cap Keys(d.end) # {} =>
             d.group = g /\ d.end = new.end /\ ~ d.ext /\ ~ new.ext
      <4>1. SUFFICES ASSUME NEW d \in srClaims, Keys(new.end) \cap Keys(d.end) # {}
                     PROVE  d.group = g /\ d.end = new.end /\ ~ d.ext /\ ~ new.ext
        OBVIOUS
      <4>2. d \in ClaimsOn(th.end)
        BY <4>1 DEF ClaimsOn
      <4>3. th.want = "share" /\ TokenHolds(th.id, th.end)
        BY <1>4, <4>2 DEF Grants
      <4>4. d.group = th.id
        BY <4>2, <4>3 DEF TokenHolds
      <4>5. QED
        BY <4>3, <4>4 DEF TokenHolds
    <3>2. QED
      BY <2>1, <3>1 DEF SrInv, ClaimsExclusive
  <2>8. \A i \in srIntents :
           new.path # i.path /\ Keys(new.end) \cap (i.keys \cup Keys(srLink[i.path])) = {}
    <3>1. SUFFICES ASSUME NEW i \in srIntents
                   PROVE  /\ th.path # i.path
                          /\ Keys(th.end) \cap (i.keys \cup Keys(srLink[i.path])) = {}
      OBVIOUS
    <3>2. Refreshed(i) \in RefreshedIntents
      BY DEF RefreshedIntents
    <3>3. Refreshed(i).path # th.path /\ Refreshed(i).keys \cap Keys(th.end) = {}
      BY <1>4, <3>2 DEF Grants, IntentsAt, IntentsOn
    <3>4. QED
      BY <3>3, RefreshedKeeps
  <2>9. SrInv'
    <3>1. IntentsCoverEnd' /\ srIntents' \subseteq SrIntentType
      BY <2>1, RefreshKeeps DEF IntentsCoverEnd
    <3>2. srThread' \in [SrThreads -> SrThreadType] /\ \A u \in SrThreads : SrThreadOK(srThread'[u])
      BY <1>2 DEF SrInv, SrThreadOK
    <3>3. srTokens' \subseteq 1..SrMax /\ srNext' \in 1..(SrMax + 1)
      BY <2>1, SrAssumption DEF SrInv
    <3>4. QED
      BY <2>5, <2>6, <2>7, <3>1, <3>2, <3>3 DEF SrInv
  <2>10. QED
    BY <2>1, <2>8, <2>9
<1>5. QED
  BY <1>3, <1>4

(* reserve_external_intent keeps the invariant and forgets no key. *)
LEMMA SrReserveKeeps ==
    ASSUME SrInv, NEW t \in SrThreads, ReserveIntent(t)
    PROVE  SrInv'
<1> DEFINE th == srThread[t]
           new == [id |-> srNext, path |-> th.path, end |-> th.end, keys |-> Keys(th.end)]
<1>1. SrThreadOK(th) /\ th.pc = "reserve" /\ th \in SrThreadType
  BY DEF SrInv, ReserveIntent, SrThreadOK
<1>2. SrThreadOK(SrIdle) /\ srThread' = [srThread EXCEPT ![t] = SrIdle]
  BY IdleOK DEF ReserveIntent, SrDone
<1>3. UNCHANGED <<srLink, srClaims, srTokens>>
  BY DEF ReserveIntent
<1>4. CASE srIntents' = RefreshedIntents /\ UNCHANGED srNext
  <2>1. srLink' \in [SrPaths -> SrEnds]
    BY <1>3 DEF SrInv, SrTypeOK, SrEnds
  <2>2. QED
    BY <1>2, <1>3, <1>4, <2>1, ThreadStepKeeps
<1>5. CASE srIntents' = RefreshedIntents \cup {new} /\ srNext' = srNext + 1
  <2>1. srNext \in 1..SrMax
    BY DEF ReserveIntent, SrInv
  <2>2. new \in SrIntentType
    <3>1. Keys(th.end) \subseteq SrAllKeys
      BY <1>1, KeysType DEF SrThreadType
    <3>2. QED
      BY <1>1, <2>1, <3>1 DEF SrThreadOK, SrThreadType, SrIntentType
  <2>3. \A c \in srClaims : c.id < srNext /\ c.id \in 1..SrMax
    BY DEF SrInv, SrTypeOK, IdsFresh
  <2>4. \A i \in RefreshedIntents : i.id < srNext /\ i \in SrIntentType /\ Keys(i.end) \subseteq i.keys
    BY RefreshKeeps
  <2>5. SrTypeOK'
    <3>1. \A x, y \in srClaims' \cup srIntents' : x.id = y.id => x = y
      <4>1. \A x \in srClaims \cup RefreshedIntents : x.id < srNext /\ x.id \in 1..SrMax
        BY <2>3, <2>4 DEF SrIntentType
      <4>2. \A x, y \in srClaims \cup RefreshedIntents : x.id = y.id => x = y
        BY RefreshKeeps DEF SrInv, SrTypeOK
      <4>3. new.id = srNext
        OBVIOUS
      <4>4. QED
        BY <1>3, <1>5, <4>1, <4>2, <4>3
    <3>2. \A i \in srIntents' : i \in SrIntentType
      BY <1>5, <2>2, <2>4
    <3>3. QED
      BY <1>3, <3>1, <3>2 DEF SrInv, SrTypeOK, SrIntentType, SrEnds
  <2>6. IdsFresh' /\ IntentsCoverEnd' /\ srIntents' \subseteq SrIntentType
    BY <1>3, <1>5, <2>1, <2>2, <2>3, <2>4 DEF IdsFresh, IntentsCoverEnd, SrIntentType
  <2>7. srThread' \in [SrThreads -> SrThreadType] /\ \A u \in SrThreads : SrThreadOK(srThread'[u])
    BY <1>2 DEF SrInv, SrThreadOK
  <2>8. srTokens' \subseteq 1..SrMax /\ srNext' \in 1..(SrMax + 1)
    BY <1>3, <1>5, <2>1, SrAssumption DEF SrInv
  <2>9. QED
    BY <1>3, <2>5, <2>6, <2>7, <2>8 DEF SrInv, ClaimsExclusive
<1>6. QED
  BY <1>4, <1>5 DEF ReserveIntent

(* revalidate_intent adds the keys of the endpoint resolved outside the lock
   to what the intent knew, whatever became of the path meanwhile.          *)
LEMMA RevalidateKeeps ==
    ASSUME SrInv, NEW t \in SrThreads, Revalidate(t)
    PROVE  SrInv'
<1> DEFINE th == srThread[t]
           Upd(i) == IF i.id = th.id /\ i.end # th.end
                     THEN [i EXCEPT !.end = th.end, !.keys = @ \cup Keys(th.end)] ELSE i
<1>1. th \in SrThreadType /\ Keys(th.end) \subseteq SrAllKeys
  BY KeysType DEF SrInv, SrThreadType
<1>2. SrThreadOK(SrIdle) /\ srThread' = [srThread EXCEPT ![t] = SrIdle]
  <2>1. SrThreadOK(SrIdle)
    BY IdleOK
  <2>2. SrDone(t)
    BY DEF Revalidate
  <2>3. QED
    BY <2>1, <2>2 DEF SrDone
<1>3. UNCHANGED <<srLink, srClaims, srTokens, srNext>> /\ srIntents' = {Upd(i) : i \in srIntents}
  BY DEF Revalidate
<1>4. \A i \in srIntents : Upd(i) \in SrIntentType /\ Upd(i).id = i.id /\ Keys(Upd(i).end) \subseteq Upd(i).keys
  <2>1. SUFFICES ASSUME NEW i \in srIntents
                 PROVE  /\ Upd(i) \in SrIntentType /\ Upd(i).id = i.id
                        /\ Keys(Upd(i).end) \subseteq Upd(i).keys
    OBVIOUS
  <2>2. i \in SrIntentType /\ Keys(i.end) \subseteq i.keys
    BY DEF SrInv, IntentsCoverEnd
  <2>3. CASE i.id = th.id /\ i.end # th.end
    BY <1>1, <2>2, <2>3 DEF SrIntentType, SrThreadType
  <2>4. CASE ~ (i.id = th.id /\ i.end # th.end)
    BY <2>2, <2>4
  <2>5. QED
    BY <2>3, <2>4
<1>5. \A i \in srIntents, c \in srClaims : i.id # c.id
  BY IntentsAreNoClaims
<1>6. SrTypeOK'
  <2>1. \A x, y \in srClaims' \cup srIntents' : x.id = y.id => x = y
    <3> HIDE DEF Upd
    <3>1. \A x \in srIntents' : \E i \in srIntents : x = Upd(i) /\ x.id = i.id
      BY <1>3, <1>4
    <3>2. \A i, j \in srIntents : i.id = j.id => i = j
      BY DEF SrInv, SrTypeOK
    <3>3. \A c, d \in srClaims : c.id = d.id => c = d
      BY DEF SrInv, SrTypeOK
    <3>4. \A x, y \in srIntents' : x.id = y.id => x = y
      BY <3>1, <3>2
    <3>5. \A x \in srIntents', c \in srClaims : x.id # c.id
      BY <3>1, <1>5
    <3>6. QED
      BY <1>3, <3>3, <3>4, <3>5
  <2>2. \A i \in srIntents' : i \in SrIntentType
    BY <1>3, <1>4
  <2>3. QED
    BY <1>3, <2>1, <2>2 DEF SrInv, SrTypeOK, SrIntentType, SrEnds
<1>7. IdsFresh' /\ IntentsCoverEnd' /\ srIntents' \subseteq SrIntentType
  BY <1>3, <1>4 DEF SrInv, IdsFresh, IntentsCoverEnd
<1>8. srThread' \in [SrThreads -> SrThreadType] /\ \A u \in SrThreads : SrThreadOK(srThread'[u])
  BY <1>2 DEF SrInv, SrThreadOK
<1>9. QED
  BY <1>3, <1>6, <1>7, <1>8 DEF SrInv, ClaimsExclusive

(* The callers' steps before the lock only note what they resolved. *)
LEMMA BeginKeeps ==
    ASSUME SrInv, NEW t \in SrThreads,
           \/ \E p \in SrPaths :
                \/ \E want \in {"local", "external"} : BeginClaim(t, p, want, 0)
                \/ \E g \in srTokens : BeginClaim(t, p, "share", g)
                \/ BeginIntent(t, p)
           \/ \E i \in srIntents : BeginRevalidate(t, i)
    PROVE  SrInv' /\ UNCHANGED <<srClaims, srIntents, srLink>>
<1>1. \E th : SrThreadOK(th) /\ srThread' = [srThread EXCEPT ![t] = th]
  <2>1. ASSUME NEW p \in SrPaths, NEW want \in {"local", "external", "share"}, NEW g \in 0..SrMax,
               want = "share" => g \in 1..SrMax, BeginClaim(t, p, want, g)
        PROVE  \E th : SrThreadOK(th) /\ srThread' = [srThread EXCEPT ![t] = th]
    <3>1. srLink[p] \in SrEndpoints
      BY <2>1 DEF BeginClaim, SrInv, SrTypeOK
    <3>2. SrThreadOK([pc |-> "claim", path |-> p, end |-> srLink[p], want |-> want, id |-> g])
      BY <2>1, <3>1 DEF SrThreadOK, SrThreadType, SrEnds
    <3>3. QED
      BY <2>1, <3>2 DEF BeginClaim
  <2>2. ASSUME NEW p \in SrPaths, BeginIntent(t, p)
        PROVE  \E th : SrThreadOK(th) /\ srThread' = [srThread EXCEPT ![t] = th]
    <3>1. srLink[p] \in SrEnds
      BY DEF SrInv, SrTypeOK, SrEnds
    <3>2. SrThreadOK([pc |-> "reserve", path |-> p, end |-> srLink[p], want |-> "local", id |-> 0])
      BY <3>1, SrAssumption DEF SrThreadOK, SrThreadType
    <3>3. QED
      BY <2>2, <3>2 DEF BeginIntent
  <2>3. ASSUME NEW i \in srIntents, BeginRevalidate(t, i)
        PROVE  \E th : SrThreadOK(th) /\ srThread' = [srThread EXCEPT ![t] = th]
    <3>1. i.id \in 1..SrMax /\ i.path \in SrPaths /\ srLink[i.path] \in SrEnds
      BY DEF SrInv, SrTypeOK, SrEnds
    <3>2. SrThreadOK([pc |-> "revalidate", path |-> i.path, end |-> srLink[i.path],
                      want |-> "local", id |-> i.id])
      BY <3>1 DEF SrThreadOK, SrThreadType
    <3>3. QED
      BY <2>3, <3>2 DEF BeginRevalidate
  <2>4. srTokens \subseteq 1..SrMax /\ 0 \in 0..SrMax
    BY SrAssumption DEF SrInv
  <2>5. QED
    BY <2>1, <2>2, <2>3, <2>4
<1>2. UNCHANGED <<srLink, srClaims, srIntents, srTokens, srNext>>
  BY DEF BeginClaim, BeginIntent, BeginRevalidate
<1>3. srLink' \in [SrPaths -> SrEnds]
  BY <1>2 DEF SrInv, SrTypeOK, SrEnds
<1>4. QED
  BY <1>1, <1>2, <1>3, ThreadStepKeeps

(* Renamed devices, issued tokens and released claims and intents *)
LEMMA OtherKeeps ==
    ASSUME SrInv,
           \/ \E p \in SrPaths, e \in SrEnds : Relink(p, e)
           \/ \E c \in srClaims : IssueToken(c) \/ Release(c)
           \/ \E i \in srIntents : ReleaseIntent(i)
    PROVE  SrInv' /\ srClaims' \subseteq srClaims /\ srIntents' \subseteq srIntents
<1>1. CASE \E p \in SrPaths, e \in SrEnds : Relink(p, e)
  BY <1>1 DEF Relink, SrInv, SrTypeOK, SrEnds, IdsFresh, IntentsCoverEnd, ClaimsExclusive
<1>2. CASE \E c \in srClaims : IssueToken(c)
  <2>1. \A c \in srClaims : c.group \in 1..SrMax
    BY DEF SrInv, SrTypeOK
  <2>2. QED
    BY <1>2, <2>1 DEF IssueToken, SrInv, SrTypeOK, IdsFresh, IntentsCoverEnd, ClaimsExclusive
<1>3. CASE \E c \in srClaims : Release(c)
  BY <1>3 DEF Release, SrInv, SrTypeOK, IdsFresh, IntentsCoverEnd, ClaimsExclusive
<1>4. CASE \E i \in srIntents : ReleaseIntent(i)
  BY <1>4 DEF ReleaseIntent, SrInv, SrTypeOK, IdsFresh, IntentsCoverEnd, ClaimsExclusive
<1>5. QED
  BY <1>1, <1>2, <1>3, <1>4

-----------------------------------------------------------------------------
(* Every step keeps the invariant. *)
LEMMA SrStepKeeps == SrInv /\ [SrNext]_srVars => SrInv'
<1> SUFFICES ASSUME SrInv, [SrNext]_srVars PROVE SrInv'
  OBVIOUS
<1>1. ASSUME NEW t \in SrThreads, CallerStep(t) PROVE SrInv'
  BY <1>1, ClaimKeeps, SrReserveKeeps, RevalidateKeeps, BeginKeeps DEF CallerStep
<1>2. CASE UNCHANGED srVars
  BY <1>2 DEF srVars, SrInv, SrTypeOK, IdsFresh, IntentsCoverEnd, ClaimsExclusive
<1>3. QED
  BY <1>1, <1>2, OtherKeeps DEF SrNext, SrEnds

(* The invariant holds throughout. *)
THEOREM Invariance == SrSpec => []SrInv
<1>1. SrInit => SrInv
  BY SrInitInv
<1>2. SrInv /\ [SrNext]_srVars => SrInv'
  BY SrStepKeeps
<1>3. QED
  BY <1>1, <1>2, PTL DEF SrSpec

(* Only the decision of _claim grants a claim, and it has refreshed the
   intents of external owners.                                            *)
LEMMA StepYields ==
    ASSUME SrInv, [SrNext]_srVars
    PROVE  [\A c \in srClaims' \ srClaims, i \in srIntents :
              c.path # i.path /\ Keys(c.end) \cap (i.keys \cup Keys(srLink[i.path])) = {}]_srVars
<1>1. ASSUME NEW t \in SrThreads, CallerStep(t)
      PROVE  \A c \in srClaims' \ srClaims, i \in srIntents :
                c.path # i.path /\ Keys(c.end) \cap (i.keys \cup Keys(srLink[i.path])) = {}
  <2>1. CASE SrClaim(t)
    BY <2>1, ClaimKeeps
  <2>2. CASE ~ SrClaim(t)
    <3>1. srClaims' = srClaims
      BY <1>1, <2>2, BeginKeeps DEF CallerStep, ReserveIntent, Revalidate
    <3>2. QED
      BY <3>1
  <2>3. QED
    BY <2>1, <2>2
<1>2. ASSUME \/ \E p \in SrPaths, e \in SrEnds : Relink(p, e)
             \/ \E c \in srClaims : IssueToken(c) \/ Release(c)
             \/ \E i \in srIntents : ReleaseIntent(i)
      PROVE  srClaims' \ srClaims = {}
  BY <1>2, OtherKeeps
<1>3. QED
  BY <1>1, <1>2 DEF SrNext, SrEnds

(* No step takes a key from an intent it leaves alive. *)
LEMMA StepRemembers ==
    ASSUME SrInv, [SrNext]_srVars
    PROVE  [\A i \in srIntents, j \in srIntents' :
              i.id = j.id => i.keys \cup Keys(j.end) \subseteq j.keys]_srVars
<1>1. \A i, j \in srIntents : i.id = j.id => i = j
  BY DEF SrInv, SrTypeOK
<1>2. SrInv'
  BY SrStepKeeps
<1>3. \A j \in srIntents' : Keys(j.end) \subseteq j.keys
  BY <1>2 DEF SrInv, IntentsCoverEnd
<1> DEFINE Remembered == \A j \in srIntents' :
              \A i \in srIntents : i.id = j.id => i.keys \subseteq j.keys
<1>4. CASE srIntents' \subseteq srIntents
  BY <1>1, <1>3, <1>4
<1>5. ASSUME NEW j \in RefreshedIntents
      PROVE  \A i \in srIntents : i.id = j.id => i.keys \subseteq j.keys
  <2>1. PICK k \in srIntents : j = Refreshed(k)
    BY <1>5 DEF RefreshedIntents
  <2>2. QED
    BY <2>1, <1>1, RefreshedKeeps
<1>6. ASSUME NEW t \in SrThreads, SrClaim(t) PROVE Remembered
  BY <1>6, <1>5 DEF SrClaim
<1>7. ASSUME NEW t \in SrThreads, ReserveIntent(t) PROVE Remembered
  <2>1. \A i \in srIntents : i.id < srNext /\ i.id \in Nat /\ srNext \in Nat
    BY DEF SrInv, IdsFresh, SrTypeOK
  <2>2. \A j \in srIntents' : j \in RefreshedIntents \/ j.id = srNext
    BY <1>7 DEF ReserveIntent
  <2>3. QED
    BY <1>5, <2>1, <2>2
<1>8. ASSUME NEW t \in SrThreads, Revalidate(t) PROVE Remembered
  <2>1. SUFFICES ASSUME NEW j \in srIntents', NEW i \in srIntents, i.id = j.id
                 PROVE  i.keys \subseteq j.keys
    OBVIOUS
  <2> DEFINE th == srThread[t]
             Upd(k) == [k EXCEPT !.end = th.end, !.keys = @ \cup Keys(th.end)]
  <2>2. PICK k \in srIntents : j = IF k.id = th.id /\ k.end # th.end THEN Upd(k) ELSE k
    BY <1>8, <2>1 DEF Revalidate
  <2>3. k \in SrIntentType
    BY DEF SrInv
  <2>4. Upd(k).id = k.id /\ k.keys \subseteq Upd(k).keys
    BY <2>3 DEF SrIntentType
  <2>5. QED
    BY <2>1, <2>2, <2>4, <1>1
<1>9. ASSUME NEW t \in SrThreads, CallerStep(t)
      PROVE  Remembered \/ srIntents' \subseteq srIntents
  BY <1>6, <1>7, <1>8, <1>9, BeginKeeps DEF CallerStep
<1>10. QED
  BY <1>3, <1>4, <1>9, OtherKeeps DEF SrNext, SrEnds

(* Claims of serial devices exclude each other, yield to an owner outside, and
   intents remember the device they were made for: for every registry.        *)
THEOREM RegistrySafe == SrSpec => SerialClaimsHold
<1>1. SrInv => SrTypeOK /\ ClaimsExclusive
  BY DEF SrInv
<1>2. SrInv /\ [SrNext]_srVars =>
        [\A c \in srClaims' \ srClaims, i \in srIntents :
           c.path # i.path /\ Keys(c.end) \cap (i.keys \cup Keys(srLink[i.path])) = {}]_srVars
  BY StepYields
<1>3. SrInv /\ [SrNext]_srVars =>
        [\A i \in srIntents, j \in srIntents' :
           i.id = j.id => i.keys \cup Keys(j.end) \subseteq j.keys]_srVars
  BY StepRemembers
<1>4. QED
  BY <1>1, <1>2, <1>3, Invariance, PTL
     DEF SrSpec, SerialClaimsHold, ExternalOwnerWins, IntentsRemember

-----------------------------------------------------------------------------
(***************************************************************************)
(* Proofs about the packet-id allocator, for any number of processes, any  *)
(* block size and any id space.  The inductive invariant says where the    *)
(* ids lie: what was sent and what is reserved is below the watermark of   *)
(* the state file, under its node number, and no two reservations overlap. *)
(***************************************************************************)

Locked == {"init", "num", "complete", "reserve", "more"}

AllocType == [pc : {"off", "ready"} \cup Locked, node : NodeNums \cup {0}, next : Nat,
              left : 0..BlockSize]

AllocOK ==
    /\ alloc \in [Procs -> AllocType]
    /\ \A p \in Procs :
        /\ alloc[p].pc \in Locked <=> flock = {p}
        /\ alloc[p].pc \in {"off", "init"} => alloc[p].next = 0
        /\ alloc[p].pc \in {"off", "init", "reserve", "more"} => alloc[p].left = 0

(* How far a process may trust the files *)
FilesOK ==
    /\ idFile.node = 0 => idFile = NoIdFile
    /\ \A p \in Procs :
        /\ alloc[p].pc \in {"num", "complete", "reserve", "more", "ready"} =>
              idFile.node = alloc[p].node /\ idFile # NoIdFile
        /\ alloc[p].pc \in {"complete", "reserve", "more", "ready"} => numFile = alloc[p].node
        /\ alloc[p].pc \in {"reserve", "more", "ready"} => ~ idFile.pending

(* The ids sent and reserved, against the watermark and each other *)
BelowWatermark ==
    /\ \A x \in emitted : \E i \in 1..idFile.high : x = <<idFile.node, i>>
    /\ idFile = NoIdFile => emitted = {}
    /\ \A p \in Procs : alloc[p].left > 0 =>
          alloc[p].next >= 1 /\ alloc[p].next + alloc[p].left - 1 <= idFile.high

Apart ==
    /\ \A p \in Procs : \A i \in alloc[p].next..(alloc[p].next + alloc[p].left - 1) :
          <<alloc[p].node, i>> \notin emitted
    /\ \A p, q \in Procs : p # q /\ alloc[p].left > 0 /\ alloc[q].left > 0 =>
          \/ alloc[p].next + alloc[p].left <= alloc[q].next
          \/ alloc[q].next + alloc[q].left <= alloc[p].next

IdInv == IdTypeOK /\ AllocOK /\ FilesOK /\ BelowWatermark /\ Apart

-----------------------------------------------------------------------------

LEMMA IdInitInv == IdInit => IdInv
BY PacketIdsAssumption
   DEF IdInit, IdInv, IdTypeOK, AllocOK, FilesOK, BelowWatermark, Apart, NoIdFile, NoAlloc,
       AllocType, Locked

(* The invariant is what the properties need. *)
LEMMA InvImplies == IdInv => PacketIdsSafe
<1> SUFFICES ASSUME IdInv PROVE PacketIdsSafe
  OBVIOUS
<1>1. IdentityIsDurable
  BY DEF IdInv, FilesOK, IdentityIsDurable
<1>2. ASSUME NEW p \in Procs, NEW x \in Reserved(p)
      PROVE  /\ alloc[p].left > 0 /\ idFile.node = alloc[p].node
             /\ \E i \in alloc[p].next..(alloc[p].next + alloc[p].left - 1) :
                   x = <<alloc[p].node, i>>
  <2>1. PICK i \in alloc[p].next..(alloc[p].next + alloc[p].left - 1) : x = <<alloc[p].node, i>>
    BY <1>2 DEF Reserved
  <2>2. alloc[p] \in AllocType
    BY DEF IdInv, AllocOK
  <2>3. alloc[p].left > 0
    BY <2>1, <2>2 DEF AllocType
  <2>4. alloc[p].pc \in {"num", "complete", "ready"}
    BY <2>2, <2>3 DEF IdInv, AllocOK, AllocType, Locked
  <2>5. QED
    BY <2>1, <2>3, <2>4 DEF IdInv, FilesOK
<1>3. NonceNeverReused
  <2>1. SUFFICES ASSUME NEW p \in Procs
                 PROVE  /\ Reserved(p) \cap emitted = {}
                        /\ \A q \in Procs \ {p} : Reserved(p) \cap Reserved(q) = {}
                        /\ \A x \in Reserved(p) : x[2] \in 1..MaxPacketId
    BY DEF NonceNeverReused
  <2>2. Reserved(p) \cap emitted = {}
    BY <1>2 DEF IdInv, Apart
  <2>3. ASSUME NEW q \in Procs \ {p}, NEW x \in Reserved(p), x \in Reserved(q)
        PROVE  FALSE
    <3>1. PICK i \in alloc[p].next..(alloc[p].next + alloc[p].left - 1) : x = <<alloc[p].node, i>>
      BY <1>2
    <3>2. PICK j \in alloc[q].next..(alloc[q].next + alloc[q].left - 1) : x = <<alloc[q].node, j>>
      BY <1>2, <2>3
    <3>3. i = j
      BY <3>1, <3>2
    <3>4. alloc[p].left > 0 /\ alloc[q].left > 0
      BY <1>2, <2>3
    <3>5. alloc[p] \in AllocType /\ alloc[q] \in AllocType
      BY DEF IdInv, AllocOK
    <3>6. QED
      BY <3>1, <3>2, <3>3, <3>4, <3>5 DEF IdInv, Apart, AllocType
  <2>4. ASSUME NEW x \in Reserved(p) PROVE x[2] \in 1..MaxPacketId
    <3>1. PICK i \in alloc[p].next..(alloc[p].next + alloc[p].left - 1) : x = <<alloc[p].node, i>>
      BY <1>2
    <3>2. alloc[p] \in AllocType /\ alloc[p].left > 0 /\ idFile.high \in 0..MaxPacketId
      BY <1>2 DEF IdInv, AllocOK, IdTypeOK
    <3>3. alloc[p].next >= 1 /\ alloc[p].next + alloc[p].left - 1 <= idFile.high
      BY <3>2 DEF IdInv, BelowWatermark
    <3>4. QED
      BY <3>1, <3>2, <3>3, PacketIdsAssumption DEF AllocType
  <2>5. QED
    BY <2>2, <2>3, <2>4
<1>4. QED
  BY <1>1, <1>3 DEF PacketIdsSafe, IdInv

-----------------------------------------------------------------------------

(* What the holder of the file lock does to its own allocator *)
LEMMA OwnStep ==
    ASSUME IdInv, NEW p \in Procs, NEW r \in AllocType, flock = {p},
           alloc' = [alloc EXCEPT ![p] = r], flock' = IF r.pc \in Locked THEN {p} ELSE {},
           r.pc \in {"off", "init"} => r.next = 0,
           r.pc \in {"off", "init", "reserve", "more"} => r.left = 0
    PROVE  /\ AllocOK' /\ alloc'[p] = r /\ flock' \in {{}} \cup {{q} : q \in Procs}
           /\ \A q \in Procs \ {p} : alloc'[q] = alloc[q]
           /\ \A q \in Procs : alloc'[q].node \in NodeNums \cup {0} /\ alloc'[q].left \in 0..BlockSize
<1>1. alloc \in [Procs -> AllocType] /\ alloc' \in [Procs -> AllocType]
  BY DEF IdInv, AllocOK
<1>2. alloc'[p] = r /\ \A q \in Procs \ {p} : alloc'[q] = alloc[q]
  BY <1>1
<1>3. \A q \in Procs \ {p} : alloc[q].pc \notin Locked /\ flock' # {q}
  BY DEF IdInv, AllocOK
<1>4. AllocOK'
  BY <1>1, <1>2, <1>3 DEF IdInv, AllocOK
<1>5. QED
  BY <1>1, <1>2, <1>4 DEF AllocType

(* A failure leaves no allocator, or one without ids. *)
LEMMA FailIsOwnStep ==
    ASSUME IdInv, NEW p \in Procs, alloc[p].pc \in {"init", "more", "reserve"}, Fail(p)
    PROVE  /\ AllocOK' /\ flock' \in {{}} \cup {{q} : q \in Procs}
           /\ \A q \in Procs \ {p} : alloc'[q] = alloc[q]
           /\ \A q \in Procs : alloc'[q].node \in NodeNums \cup {0} /\ alloc'[q].left \in 0..BlockSize
           /\ alloc'[p].left = 0 /\ alloc'[p].pc \in {"off", "ready"}
           /\ alloc[p].pc = "init" => alloc'[p].pc = "off"
           /\ alloc'[p].pc = "ready" => alloc'[p].node = alloc[p].node
<1> DEFINE r == IF alloc[p].next = 0 THEN NoAlloc ELSE [alloc[p] EXCEPT !.pc = "ready"]
<1>1. alloc[p] \in AllocType /\ alloc[p].left = 0 /\ flock = {p} /\ (alloc[p].pc = "init" => alloc[p].next = 0)
  BY DEF IdInv, AllocOK, Locked
<1>2. r \in AllocType /\ r.left = 0 /\ r.pc \in {"off", "ready"} /\ (r.pc = "off" => r.next = 0)
  BY <1>1, PacketIdsAssumption DEF AllocType, NoAlloc
<1>3. alloc' = [alloc EXCEPT ![p] = r] /\ flock' = {} /\ r.pc \notin Locked
  BY <1>2 DEF Fail, Locked
<1>4. alloc[p].pc = "init" => r.pc = "off"
  BY <1>1 DEF NoAlloc
<1>5. r.pc = "ready" => r.node = alloc[p].node
  BY <1>1 DEF NoAlloc, AllocType
<1> HIDE DEF r
<1>6. QED
  BY <1>1, <1>2, <1>3, <1>4, <1>5, OwnStep

(* Taking the file lock reserves nothing. *)
LEMMA LockKeeps ==
    ASSUME IdInv, NEW p \in Procs, IdLock(p)
    PROVE  IdInv'
<1>1. IdTypeOK'
  BY PacketIdsAssumption DEF IdInv, IdTypeOK, AllocOK, AllocType, IdLock
<1>2. AllocOK'
  <2>1. /\ alloc \in [Procs -> AllocType] /\ alloc[p].pc \in {"off", "ready"} /\ flock = {} /\ flock' = {p}
        /\ alloc[p].pc = "off" => alloc[p].next = 0
        /\ alloc[p].left = 0 /\ \A q \in Procs : alloc[q].pc \notin Locked
    BY DEF IdInv, AllocOK, AllocType, IdLock
  <2> DEFINE pc1 == IF alloc[p].pc = "off" THEN "init" ELSE "more"
             v == [alloc[p] EXCEPT !.pc = pc1]
  <2>2. alloc' = [alloc EXCEPT ![p] = v]
    BY <2>1 DEF IdLock
  <2>3. v \in AllocType /\ v.pc = pc1 /\ v.next = alloc[p].next /\ v.left = alloc[p].left
    BY <2>1 DEF AllocType, Locked
  <2>4. pc1 \in Locked /\ (pc1 = "init" => v.next = 0)
    BY <2>1, <2>3 DEF Locked
  <2> HIDE DEF v, pc1
  <2>5. /\ alloc' \in [Procs -> AllocType] /\ alloc'[p] = v
        /\ \A q \in Procs \ {p} : alloc'[q] = alloc[q]
    BY <2>1, <2>2, <2>3
  <2>6. pc1 # "off"
    BY <2>4 DEF Locked
  <2>7. ASSUME NEW q \in Procs
        PROVE  /\ alloc'[q].pc \in Locked <=> flock' = {q}
               /\ alloc'[q].pc \in {"off", "init"} => alloc'[q].next = 0
               /\ alloc'[q].pc \in {"off", "init", "reserve", "more"} => alloc'[q].left = 0
    <3>1. CASE q = p
      BY <2>1, <2>3, <2>4, <2>5, <2>6, <3>1
    <3>2. CASE q # p
      <4>1. alloc'[q] = alloc[q] /\ alloc[q].pc \notin Locked /\ flock' # {q}
        BY <2>1, <2>5, <3>2
      <4>2. QED
        BY <4>1 DEF IdInv, AllocOK
    <3>3. QED
      BY <3>1, <3>2
  <2>8. QED
    BY <2>5, <2>7 DEF AllocOK
<1>3. FilesOK'
  BY PacketIdsAssumption DEF IdInv, IdTypeOK, FilesOK, AllocOK, AllocType, Locked, IdLock
<1>4. BelowWatermark'
  BY PacketIdsAssumption DEF IdInv, IdTypeOK, FilesOK, BelowWatermark, AllocOK, AllocType, Locked, IdLock
<1>5. Apart'
  BY PacketIdsAssumption DEF IdInv, IdTypeOK, FilesOK, BelowWatermark, Apart, AllocOK, AllocType, Locked, IdLock
<1>6. QED
  BY <1>1, <1>2, <1>3, <1>4, <1>5 DEF IdInv

(* A new identity reserves its first block while nobody has one. *)
LEMMA EnrollKeeps ==
    ASSUME IdInv, NEW p \in Procs, Enroll(p)
    PROVE  IdInv'
<1>1. IdTypeOK'
  BY PacketIdsAssumption DEF IdInv, IdTypeOK, AllocOK, AllocType, Enroll, NewNodeNum, NoIdFile
<1>2. AllocOK'
  BY PacketIdsAssumption DEF IdInv, IdTypeOK, AllocOK, AllocType, Locked, Enroll, NewNodeNum, NoIdFile
<1>3. FilesOK'
  BY PacketIdsAssumption DEF IdInv, IdTypeOK, FilesOK, AllocOK, AllocType, Locked, Enroll, NewNodeNum, NoIdFile
<1>4. BelowWatermark'
  BY PacketIdsAssumption DEF IdInv, IdTypeOK, FilesOK, BelowWatermark, AllocOK, AllocType, Locked, Enroll, NewNodeNum, NoIdFile
<1>5. Apart'
  BY PacketIdsAssumption DEF IdInv, IdTypeOK, FilesOK, BelowWatermark, Apart, AllocOK, AllocType, Locked, Enroll, NewNodeNum, NoIdFile
<1>6. QED
  BY <1>1, <1>2, <1>3, <1>4, <1>5 DEF IdInv

(* An existing identity is only taken over while the files agree. *)
LEMMA LoadKeeps ==
    ASSUME IdInv, NEW p \in Procs, LoadState(p)
    PROVE  IdInv'
<1>0. alloc[p] \in AllocType /\ alloc[p].pc = "init" /\ flock = {p}
  BY DEF IdInv, AllocOK, LoadState, Locked
<1>1. IdTypeOK' /\ AllocOK'
  <2>1. CASE Fail(p)
    BY <1>0, <2>1, FailIsOwnStep DEF IdInv, IdTypeOK, LoadState
  <2>2. CASE ~ Fail(p)
    <3> DEFINE r == [pc |-> IF idFile.pending THEN "num" ELSE "reserve",
                     node |-> idFile.node, next |-> 0, left |-> 0]
    <3>1. r \in AllocType /\ r.pc \in Locked /\ r.pc \notin {"off", "init"} /\ r.left = 0
      BY PacketIdsAssumption DEF IdInv, IdTypeOK, AllocType, Locked
    <3>2. alloc' = [alloc EXCEPT ![p] = r] /\ flock' = flock
      BY <2>2 DEF LoadState
    <3> HIDE DEF r
    <3>3. QED
      BY <1>0, <3>1, <3>2, OwnStep DEF IdInv, IdTypeOK, LoadState
  <2>3. QED
    BY <2>1, <2>2
<1>3. FilesOK'
  <2>1. alloc[p] \in AllocType /\ alloc[p].next = 0 /\ idFile # NoIdFile
    BY DEF IdInv, AllocOK, LoadState
  <2>2. UNCHANGED <<idFile, numFile>> /\ \A q \in Procs \ {p} : alloc'[q] = alloc[q]
    BY DEF IdInv, AllocOK, LoadState, Fail
  <2>3. CASE Fail(p)
    <3>1. alloc'[p].pc = "off"
      BY <2>1, <2>3 DEF IdInv, AllocOK, Fail, NoAlloc
    <3>2. QED
      BY <2>2, <3>1 DEF IdInv, FilesOK
  <2>4. CASE ~ Fail(p)
    <3>1. /\ alloc'[p].node = idFile.node
          /\ alloc'[p].pc = IF idFile.pending THEN "num" ELSE "reserve"
          /\ idFile.pending \/ numFile = idFile.node
      BY <2>4 DEF IdInv, AllocOK, LoadState
    <3>2. QED
      BY <2>1, <2>2, <3>1 DEF IdInv, FilesOK, IdTypeOK
  <2>5. QED
    BY <2>3, <2>4
<1>4. BelowWatermark'
  BY PacketIdsAssumption DEF IdInv, IdTypeOK, FilesOK, BelowWatermark, AllocOK, AllocType, Locked, LoadState, Fail, NoAlloc, NoIdFile
<1>5. Apart'
  BY PacketIdsAssumption DEF IdInv, IdTypeOK, FilesOK, BelowWatermark, Apart, AllocOK, AllocType, Locked, LoadState, Fail, NoAlloc, NoIdFile
<1>6. QED
  BY <1>1, <1>3, <1>4, <1>5 DEF IdInv

(* The node number file gets the node of the state file. *)
LEMMA NodeNumKeeps ==
    ASSUME IdInv, NEW p \in Procs, WriteNodeNum(p)
    PROVE  IdInv'
<1>1. IdTypeOK'
  BY PacketIdsAssumption DEF IdInv, IdTypeOK, AllocOK, AllocType, WriteNodeNum, NoIdFile
<1>2. AllocOK'
  BY PacketIdsAssumption DEF IdInv, IdTypeOK, AllocOK, AllocType, Locked, WriteNodeNum, NoIdFile
<1>3. FilesOK'
  BY PacketIdsAssumption DEF IdInv, IdTypeOK, FilesOK, AllocOK, AllocType, Locked, WriteNodeNum, NoIdFile
<1>4. BelowWatermark'
  BY PacketIdsAssumption DEF IdInv, IdTypeOK, FilesOK, BelowWatermark, AllocOK, AllocType, Locked, WriteNodeNum, NoIdFile
<1>5. Apart'
  BY PacketIdsAssumption DEF IdInv, IdTypeOK, FilesOK, BelowWatermark, Apart, AllocOK, AllocType, Locked, WriteNodeNum, NoIdFile
<1>6. QED
  BY <1>1, <1>2, <1>3, <1>4, <1>5 DEF IdInv

(* Completing the state file moves no watermark. *)
LEMMA CompleteKeeps ==
    ASSUME IdInv, NEW p \in Procs, WriteComplete(p)
    PROVE  IdInv'
<1>0. alloc[p] \in AllocType /\ alloc[p].pc = "complete" /\ flock = {p}
  BY DEF IdInv, AllocOK, WriteComplete, Locked
<1>1. /\ idFile'.node = idFile.node /\ ~ idFile'.pending /\ idFile'.high = idFile.high
      /\ idFile' \in [node : NodeNums \cup {0}, high : 0..MaxPacketId, pending : BOOLEAN]
      /\ idFile' # NoIdFile /\ UNCHANGED <<numFile, emitted>>
  BY <1>0 DEF IdInv, IdTypeOK, FilesOK, WriteComplete, NoIdFile
<1>2. /\ IdTypeOK' /\ AllocOK' /\ \A q \in Procs \ {p} : alloc'[q] = alloc[q]
      /\ alloc'[p].node = alloc[p].node /\ alloc'[p].next = alloc[p].next /\ alloc'[p].left = alloc[p].left
  <2> DEFINE r == [alloc[p] EXCEPT !.pc = IF alloc[p].left > 0 THEN "ready" ELSE "reserve"]
  <2>1. /\ r \in AllocType /\ (r.pc \in Locked <=> alloc[p].left = 0)
        /\ r.pc \in {"ready", "reserve"} /\ r.left = alloc[p].left /\ r.node = alloc[p].node
        /\ r.next = alloc[p].next /\ (r.pc = "reserve" => r.left = 0)
    BY <1>0, PacketIdsAssumption DEF AllocType, Locked
  <2>2. alloc' = [alloc EXCEPT ![p] = r] /\ flock' = IF r.pc \in Locked THEN {p} ELSE {}
    BY <1>0, <2>1, PacketIdsAssumption DEF WriteComplete, AllocType
  <2> HIDE DEF r
  <2>3. QED
    BY <1>0, <1>1, <2>1, <2>2, OwnStep DEF IdInv, IdTypeOK
<1>3. FilesOK'
  <2>1. ASSUME NEW q \in Procs, alloc[q].pc \in {"num", "complete", "reserve", "more", "ready"}
        PROVE  idFile.node = alloc[q].node
    BY <2>1 DEF IdInv, FilesOK
  <2>2. numFile = alloc[p].node /\ idFile.node = alloc[p].node
    BY <1>0 DEF IdInv, FilesOK
  <2>3. QED
    BY <1>0, <1>1, <1>2, <2>2 DEF IdInv, FilesOK
<1>4. BelowWatermark'
  <2>1. \A q \in Procs : alloc'[q].next = alloc[q].next /\ alloc'[q].left = alloc[q].left
    BY <1>2
  <2>2. QED
    BY <1>1, <2>1 DEF IdInv, BelowWatermark
<1>5. Apart'
  <2>1. \A q \in Procs : /\ alloc'[q].next = alloc[q].next /\ alloc'[q].left = alloc[q].left
                         /\ alloc'[q].node = alloc[q].node
    BY <1>2
  <2>2. QED
    BY <1>1, <2>1 DEF IdInv, Apart
<1>6. QED
  BY <1>1, <1>2, <1>3, <1>4, <1>5 DEF IdInv

(* _reserve_more goes on only under the identity it knows. *)
LEMMA CheckKeeps ==
    ASSUME IdInv, NEW p \in Procs, CheckIdentity(p)
    PROVE  IdInv'
<1>0. alloc[p] \in AllocType /\ alloc[p].pc = "more" /\ flock = {p} /\ alloc[p].left = 0
  BY DEF IdInv, AllocOK, CheckIdentity, Locked
<1>1. IdTypeOK' /\ AllocOK'
  <2>1. CASE Fail(p)
    BY <1>0, <2>1, FailIsOwnStep DEF IdInv, IdTypeOK, CheckIdentity
  <2>2. CASE ~ Fail(p)
    <3> DEFINE r == [alloc[p] EXCEPT !.pc = "reserve"]
    <3>1. r \in AllocType /\ r.pc \in Locked /\ r.pc \notin {"off", "init"} /\ r.left = 0
      BY <1>0, PacketIdsAssumption DEF AllocType, Locked
    <3>2. alloc' = [alloc EXCEPT ![p] = r] /\ flock' = flock
      BY <2>2 DEF CheckIdentity
    <3> HIDE DEF r
    <3>3. QED
      BY <1>0, <3>1, <3>2, OwnStep DEF IdInv, IdTypeOK, CheckIdentity
  <2>3. QED
    BY <2>1, <2>2
<1>3. FilesOK'
  BY PacketIdsAssumption DEF IdInv, IdTypeOK, FilesOK, AllocOK, AllocType, Locked, CheckIdentity, Fail, NoAlloc, NoIdFile
<1>4. BelowWatermark'
  BY PacketIdsAssumption DEF IdInv, IdTypeOK, FilesOK, BelowWatermark, AllocOK, AllocType, Locked, CheckIdentity, Fail, NoAlloc, NoIdFile
<1>5. Apart'
  BY PacketIdsAssumption DEF IdInv, IdTypeOK, FilesOK, BelowWatermark, Apart, AllocOK, AllocType, Locked, CheckIdentity, Fail, NoAlloc, NoIdFile
<1>6. QED
  BY <1>1, <1>3, <1>4, <1>5 DEF IdInv

(* What is written to the state file when a block is reserved *)
LEMMA BlockFacts ==
    ASSUME IdInv, idFile.high < MaxPacketId, idFile' = [idFile EXCEPT !.high = @ + Block]
    PROVE  /\ Block \in 1..BlockSize /\ idFile.high \in Nat
           /\ idFile'.node = idFile.node /\ idFile'.pending = idFile.pending
           /\ idFile'.high = idFile.high + Block /\ idFile' # NoIdFile
           /\ idFile' \in [node : NodeNums \cup {0}, high : 0..MaxPacketId, pending : BOOLEAN]
BY PacketIdsAssumption DEF IdInv, IdTypeOK, Block, NoIdFile

(* A block lies above every id that was sent or reserved. *)
LEMMA IdReserveKeeps ==
    ASSUME IdInv, NEW p \in Procs, Reserve(p)
    PROVE  IdInv'
<1> USE PacketIdsAssumption
<1>1. /\ Block \in 1..BlockSize /\ idFile.high \in Nat
      /\ idFile'.node = idFile.node /\ idFile'.pending = idFile.pending
      /\ idFile'.high = idFile.high + Block /\ idFile' # NoIdFile
  BY BlockFacts DEF Reserve
<1>2. /\ alloc'[p] = [pc |-> "ready", node |-> idFile.node, next |-> idFile.high + 1, left |-> Block]
      /\ UNCHANGED <<numFile, emitted>>
      /\ \A q \in Procs \ {p} : alloc'[q] = alloc[q]
  BY DEF Reserve, IdInv, AllocOK
<1>3. IdTypeOK' /\ AllocOK'
  <2> DEFINE r == [pc |-> "ready", node |-> idFile.node, next |-> idFile.high + 1, left |-> Block]
  <2>1. r \in AllocType /\ r.pc = "ready" /\ r.pc \notin Locked
    BY <1>1 DEF IdInv, IdTypeOK, AllocType, Locked
  <2>2. flock = {p} /\ flock' = {} /\ alloc' = [alloc EXCEPT ![p] = r]
    BY DEF IdInv, AllocOK, Reserve, Locked
  <2> HIDE DEF r
  <2>3. AllocOK' /\ flock' \in {{}} \cup {{q} : q \in Procs}
        /\ \A q \in Procs : alloc'[q].node \in NodeNums \cup {0} /\ alloc'[q].left \in 0..BlockSize
    BY <2>1, <2>2, OwnStep
  <2>4. QED
    BY <1>2, <2>3, BlockFacts DEF IdInv, IdTypeOK, Reserve
<1>4. alloc[p] \in AllocType /\ alloc[p].pc = "reserve" /\ \A q \in Procs : alloc[q] \in AllocType
  BY DEF IdInv, AllocOK, Reserve
<1>5. FilesOK'
  BY <1>1, <1>2, <1>4 DEF IdInv, FilesOK
<1>6. BelowWatermark'
  <2>1. \A x \in emitted' : \E i \in 1..idFile'.high : x = <<idFile'.node, i>>
    <3>1. SUFFICES ASSUME NEW x \in emitted PROVE \E i \in 1..idFile'.high : x = <<idFile'.node, i>>
      BY <1>2
    <3>2. PICK i \in 1..idFile.high : x = <<idFile.node, i>>
      BY DEF IdInv, BelowWatermark
    <3>3. QED
      BY <1>1, <3>2
  <2>2. ASSUME NEW q \in Procs, alloc'[q].left > 0
        PROVE  alloc'[q].next >= 1 /\ alloc'[q].next + alloc'[q].left - 1 <= idFile'.high
    <3>1. CASE q = p
      BY <1>1, <1>2, <3>1
    <3>2. CASE q # p
      <4>1. alloc[q] \in AllocType /\ alloc'[q] = alloc[q]
        BY <1>2, <1>4, <3>2
      <4>2. alloc[q].next >= 1 /\ alloc[q].next + alloc[q].left - 1 <= idFile.high
        BY <2>2, <4>1 DEF IdInv, BelowWatermark
      <4>3. QED
        BY <1>1, <4>1, <4>2 DEF AllocType
    <3>3. QED
      BY <3>1, <3>2
  <2>3. QED
    BY <1>1, <2>1, <2>2 DEF BelowWatermark
<1>7. Apart'
  <2>1. ASSUME NEW q \in Procs, NEW i \in alloc'[q].next..(alloc'[q].next + alloc'[q].left - 1)
        PROVE  <<alloc'[q].node, i>> \notin emitted'
    <3>1. CASE q = p
      <4>1. i > idFile.high /\ i \in Nat
        BY <1>1, <1>2, <3>1
      <4>2. \A k \in 1..idFile.high : <<alloc'[q].node, i>> # <<idFile.node, k>>
        BY <1>1, <4>1
      <4>3. QED
        BY <1>2, <4>2 DEF IdInv, BelowWatermark
    <3>2. CASE q # p
      BY <1>2, <2>1, <3>2 DEF IdInv, Apart
    <3>3. QED
      BY <3>1, <3>2
  <2>2. ASSUME NEW q \in Procs \ {p}, alloc[q].left > 0
        PROVE  alloc[q].next + alloc[q].left <= idFile.high + 1
    <3>1. alloc[q].next + alloc[q].left - 1 <= idFile.high /\ alloc[q] \in AllocType
      BY <1>4, <2>2 DEF IdInv, BelowWatermark
    <3>2. QED
      BY <1>1, <3>1 DEF AllocType
  <2>3. ASSUME NEW q \in Procs, NEW r \in Procs, q # r, alloc'[q].left > 0, alloc'[r].left > 0
        PROVE  \/ alloc'[q].next + alloc'[q].left <= alloc'[r].next
               \/ alloc'[r].next + alloc'[r].left <= alloc'[q].next
    <3>1. CASE q = p
      BY <1>2, <2>2, <2>3, <3>1
    <3>2. CASE r = p
      BY <1>2, <2>2, <2>3, <3>2
    <3>3. CASE q # p /\ r # p
      BY <1>2, <2>3, <3>3 DEF IdInv, Apart
    <3>4. QED
      BY <3>1, <3>2, <3>3
  <2>4. QED
    BY <2>1, <2>3 DEF Apart
<1>8. QED
  BY <1>3, <1>5, <1>6, <1>7 DEF IdInv

(* A failed reservation may move the watermark, never an id. *)
LEMMA ReserveFailsKeeps ==
    ASSUME IdInv, NEW p \in Procs, ReserveFails(p)
    PROVE  IdInv'
<1>1. IdTypeOK'
  BY PacketIdsAssumption DEF IdInv, IdTypeOK, AllocOK, AllocType, ReserveFails, Fail, NoAlloc, Block, NoIdFile
<1>2. AllocOK'
  BY FailIsOwnStep DEF ReserveFails
<1>3. FilesOK'
  BY PacketIdsAssumption DEF IdInv, IdTypeOK, FilesOK, AllocOK, AllocType, Locked, ReserveFails, Fail, NoAlloc, Block, NoIdFile
<1>4. BelowWatermark'
  BY PacketIdsAssumption DEF IdInv, IdTypeOK, FilesOK, BelowWatermark, AllocOK, AllocType, Locked, ReserveFails, Fail, NoAlloc, Block, NoIdFile
<1>5. Apart'
  BY PacketIdsAssumption DEF IdInv, IdTypeOK, FilesOK, BelowWatermark, Apart, AllocOK, AllocType, Locked, ReserveFails, Fail, NoAlloc, Block, NoIdFile
<1>6. QED
  BY <1>1, <1>2, <1>3, <1>4, <1>5 DEF IdInv

(* take moves one id from the reservation to the ids sent. *)
LEMMA TakeKeeps ==
    ASSUME IdInv, NEW p \in Procs, Take(p)
    PROVE  IdInv'
<1>1. IdTypeOK'
  BY PacketIdsAssumption DEF IdInv, IdTypeOK, AllocOK, AllocType, Take
<1>2. AllocOK'
  BY PacketIdsAssumption DEF IdInv, IdTypeOK, AllocOK, AllocType, Locked, Take
<1>3. FilesOK'
  BY PacketIdsAssumption DEF IdInv, IdTypeOK, FilesOK, AllocOK, AllocType, Locked, Take
<1>4. BelowWatermark'
  BY PacketIdsAssumption DEF IdInv, IdTypeOK, FilesOK, BelowWatermark, AllocOK, AllocType, Locked, Take
<1>5. Apart'
  BY PacketIdsAssumption DEF IdInv, IdTypeOK, FilesOK, BelowWatermark, Apart, AllocOK, AllocType, Locked, Take
<1>6. QED
  BY <1>1, <1>2, <1>3, <1>4, <1>5 DEF IdInv

(* A crash forgets a reservation; the watermark stays. *)
LEMMA CrashKeeps ==
    ASSUME IdInv, NEW p \in Procs, IdCrash(p)
    PROVE  IdInv'
<1>1. IdTypeOK'
  BY PacketIdsAssumption DEF IdInv, IdTypeOK, AllocOK, AllocType, IdCrash, NoAlloc
<1>2. AllocOK'
  <2>1. /\ alloc' = [alloc EXCEPT ![p] = NoAlloc] /\ flock' = flock \ {p}
        /\ alloc \in [Procs -> AllocType] /\ NoAlloc \in AllocType
    BY PacketIdsAssumption DEF IdInv, AllocOK, AllocType, IdCrash, NoAlloc
  <2>2. /\ alloc' \in [Procs -> AllocType] /\ alloc'[p] = NoAlloc
        /\ \A q \in Procs \ {p} : alloc'[q] = alloc[q]
    BY <2>1
  <2>3. /\ NoAlloc.pc = "off" /\ NoAlloc.next = 0 /\ NoAlloc.left = 0 /\ "off" \notin Locked
        /\ flock \in {{}} \cup {{q} : q \in Procs}
    BY DEF NoAlloc, Locked, IdInv, IdTypeOK
  <2>4. ASSUME NEW q \in Procs
        PROVE  /\ alloc'[q].pc \in Locked <=> flock' = {q}
               /\ alloc'[q].pc \in {"off", "init"} => alloc'[q].next = 0
               /\ alloc'[q].pc \in {"off", "init", "reserve", "more"} => alloc'[q].left = 0
    <3>1. CASE q = p
      BY <2>1, <2>2, <2>3, <3>1
    <3>2. CASE q # p
      <4>1. alloc'[q] = alloc[q] /\ (flock = {q} <=> flock' = {q})
        BY <2>1, <2>2, <2>3, <3>2
      <4>2. QED
        BY <4>1 DEF IdInv, AllocOK
    <3>3. QED
      BY <3>1, <3>2
  <2>5. QED
    BY <2>2, <2>4 DEF AllocOK
<1>3. FilesOK'
  BY PacketIdsAssumption DEF IdInv, IdTypeOK, FilesOK, AllocOK, AllocType, Locked, IdCrash, NoAlloc
<1>4. BelowWatermark'
  BY PacketIdsAssumption DEF IdInv, IdTypeOK, FilesOK, BelowWatermark, AllocOK, AllocType, Locked, IdCrash, NoAlloc
<1>5. Apart'
  BY PacketIdsAssumption DEF IdInv, IdTypeOK, FilesOK, BelowWatermark, Apart, AllocOK, AllocType, Locked, IdCrash, NoAlloc
<1>6. QED
  BY <1>1, <1>2, <1>3, <1>4, <1>5 DEF IdInv

-----------------------------------------------------------------------------

LEMMA IdStepKeeps == IdInv /\ [IdNext]_idVars => IdInv'
<1> SUFFICES ASSUME IdInv, [IdNext]_idVars PROVE IdInv'
  OBVIOUS
<1>1. CASE IdNext
  <2>1. PICK p \in Procs :
           \/ IdLock(p) \/ Enroll(p) \/ LoadState(p) \/ WriteNodeNum(p) \/ WriteComplete(p)
           \/ CheckIdentity(p) \/ Reserve(p) \/ ReserveFails(p) \/ Take(p) \/ IdCrash(p)
    BY <1>1 DEF IdNext
  <2>2. QED
    BY <2>1, LockKeeps, EnrollKeeps, LoadKeeps, NodeNumKeeps, CompleteKeeps, CheckKeeps,
       IdReserveKeeps, ReserveFailsKeeps, TakeKeeps, CrashKeeps
<1>2. CASE UNCHANGED idVars
  BY <1>2 DEF idVars, IdInv, IdTypeOK, AllocOK, FilesOK, BelowWatermark, Apart
<1>3. QED
  BY <1>1, <1>2

(* No process ever sends under a nonce that was used or reserved before, and
   whoever is ready to send finds its identity in both files: for any number
   of processes, crashes, failed writes and starts of the allocator.         *)
THEOREM NoncesUnique == IdSpec => []PacketIdsSafe
<1>1. IdInit => IdInv
  BY IdInitInv
<1>2. IdInv /\ [IdNext]_idVars => IdInv'
  BY IdStepKeeps
<1>3. IdInv => PacketIdsSafe
  BY InvImplies
<1>4. QED
  BY <1>1, <1>2, <1>3, PTL DEF IdSpec

-----------------------------------------------------------------------------
(***************************************************************************)
(* Proofs about the two links of the Meshtastic gateway: the clients of    *)
(* the MQTT broker, and the serial radio in listener mode.                 *)
(***************************************************************************)

(* The two kinds of finite set that occur: none, or one. *)
LEMMA SmallSet ==
    ASSUME NEW S, \A a, b \in S : a = b
    PROVE  Cardinality(S) \in 0..1
<1>1. CASE S = {}
  BY <1>1, FS_EmptySet
<1>2. CASE S # {}
  <2>1. PICK a : S = {a}
    BY <1>2
  <2>2. QED
    BY <2>1, FS_Singleton
<1>3. QED
  BY <1>1, <1>2

-----------------------------------------------------------------------------
(* The MQTT clients.  Whoever holds a client holds an open one, and nobody
   else does: so a close leaves the thread of no other client behind.        *)

MqSlot(s) == s = {} \/ \E c \in MqClients : s = {c}

MqTypes ==
    /\ mqPc \in {"top", "grace", "drop", "build", "connack", "publish", "refused", "backoff",
                 "suspended", "watch", "unhealthy", "ended"}
    /\ mqStop \in {"no", "set", "closing", "done"}
    /\ MqSlot(mqHeld) /\ MqSlot(mqStopHeld) /\ MqSlot(mqIface)
    /\ mqFails \in 0..MqMaxAttempts
    /\ mqSess \in [MqClients -> {"up", "down"}]
    /\ mqCall \in [MqClients -> {"none", "established", "lost"}]
    /\ mqAck \in [MqClients -> {"none", "ok", "failed"}]
    /\ mqLoops \subseteq MqClients /\ mqClosed \subseteq MqClients /\ mqFinal \subseteq MqClients

MqFlags == mqOn \in BOOLEAN /\ mqGrace \in BOOLEAN /\ mqSuspended \in BOOLEAN /\ mqNet \in BOOLEAN

HoldersApart ==
    /\ mqHeld \cap mqIface = {} /\ mqHeld \cap mqStopHeld = {} /\ mqIface \cap mqStopHeld = {}
    /\ (mqHeld \cup mqIface \cup mqStopHeld) \cap mqClosed = {}
    /\ mqFinal \subseteq mqClosed

HeldWhere ==
    /\ mqHeld # {} => mqPc \in {"drop", "unhealthy", "connack", "publish", "refused"}
    /\ mqPc \in {"drop", "unhealthy", "build", "connack", "publish", "refused"} => mqIface = {}
    /\ mqStopHeld # {} => mqStop = "closing"
    /\ mqStop \in {"closing", "done"} => mqIface = {} /\ ~ mqOn

FailuresBelowLimit == mqPc # "suspended" /\ MqMaxAttempts > 0 => mqFails < MqMaxAttempts

MqInv ==
    /\ MqTypes /\ MqFlags /\ HoldersApart /\ PahoThreadIsOwned /\ HeldWhere /\ FailuresBelowLimit

LEMMA MqInitInv == MqInit => MqInv
<1> SUFFICES ASSUME MqInit PROVE MqInv
  OBVIOUS
<1>1. MqTypes
  BY MqttLinkAssumption DEF MqInit, MqTypes, MqSlot
<1>2. MqFlags
  BY DEF MqInit, MqFlags
<1>3. HoldersApart /\ PahoThreadIsOwned /\ HeldWhere /\ FailuresBelowLimit
  BY DEF MqInit, HoldersApart, PahoThreadIsOwned, HeldWhere, FailuresBelowLimit
<1>4. QED
  BY <1>1, <1>2, <1>3 DEF MqInv

(* The invariant is what the property needs. *)
LEMMA MqInvImplies == MqInv => BrokerSessionsEnd
<1> SUFFICES ASSUME MqInv PROVE BrokerSessionsEnd
  OBVIOUS
<1>1. \A s \in {mqHeld, mqStopHeld, mqIface} : s \subseteq MqClients /\ Cardinality(s) <= 1
  <2>1. SUFFICES ASSUME NEW s, MqSlot(s) PROVE s \subseteq MqClients /\ Cardinality(s) <= 1
    BY DEF MqInv, MqTypes
  <2>2. s \subseteq MqClients /\ \A a, b \in s : a = b
    BY <2>1 DEF MqSlot
  <2>3. Cardinality(s) \in 0..1
    BY <2>2, SmallSet
  <2>4. QED
    BY <2>2, <2>3
<1>2. MqTypeOK
  BY <1>1 DEF MqInv, MqTypes, MqFlags, MqTypeOK
<1>3. StoppedLinkIsDown
  BY DEF MqInv, HoldersApart, PahoThreadIsOwned, HeldWhere, StoppedLinkIsDown
<1>4. QED
  BY <1>2, <1>3 DEF MqInv, BrokerSessionsEnd

(* close: the clients it is given are closed, and their threads end or are
   left to the finalizer.                                                    *)
LEMMA CloseEffect ==
    ASSUME MqInv, NEW cs, cs \in {mqHeld, mqStopHeld}, Close(cs)
    PROVE  /\ mqClosed' = mqClosed \cup cs /\ cs \subseteq MqClients
           /\ mqLoops' \subseteq mqLoops /\ mqFinal \subseteq mqFinal' /\ mqFinal' \subseteq mqFinal \cup cs
           /\ mqLoops' \cap cs \subseteq mqFinal'
           /\ mqSess' \in [MqClients -> {"up", "down"}] /\ mqAck' \in [MqClients -> {"none", "ok", "failed"}]
<1>1. cs \ mqClosed = cs /\ cs \subseteq MqClients
  BY DEF MqInv, MqTypes, MqSlot, HoldersApart
<1>2. QED
  BY <1>1 DEF MqInv, MqTypes, Close

(* No step gives a flag another value. *)
LEMMA MqFlagsKept ==
    ASSUME MqInv, [MqNext]_mqVars
    PROVE  MqFlags'
<1> USE DEF MqInv, MqFlags
<1>1. ASSUME NEW c \in MqClients,
             OnConnect(c) \/ SessionLost(c) \/ OnMeshConnect(c) \/ OnMeshDisconnect(c) \/ Finalize(c)
      PROVE  MqFlags'
  BY <1>1 DEF OnConnect, SessionLost, OnMeshConnect, OnMeshDisconnect, Finalize, gateVars
<1>2. CASE LoopTop \/ GraceSlept \/ Construct \/ Connack \/ Slept \/ Watch \/ GraceOver
  BY <1>2 DEF LoopTop, GraceSlept, Construct, Connack, Slept, Watch, GraceOver, gateVars
<1>3. CASE LoopCloses \/ PublishClient \/ Refused
  BY <1>3 DEF LoopCloses, PublishClient, Refused, gateVars
<1>4. CASE InternetChanges \/ MqStops \/ UNCHANGED mqVars
  BY <1>4 DEF InternetChanges, MqStops, mqVars
<1>5. QED
  BY <1>1, <1>2, <1>3, <1>4 DEF MqNext, LoopStep, Reports

(* One step of any thread *)
LEMMA MqStepKeeps == MqInv /\ [MqNext]_mqVars => MqInv'
<1> SUFFICES ASSUME MqInv, [MqNext]_mqVars PROVE MqInv'
  OBVIOUS
<1> USE MqttLinkAssumption DEF MqInv, MqTypes, MqSlot, HoldersApart, PahoThreadIsOwned, HeldWhere,
                               FailuresBelowLimit, gateVars, pahoVars, MqActive
<1>0. MqFlags'
  BY MqFlagsKept
<1>1. ASSUME NEW c \in MqClients, OnConnect(c) PROVE MqInv'
  BY <1>0, <1>1 DEF OnConnect
<1>2. ASSUME NEW c \in MqClients, SessionLost(c) PROVE MqInv'
  BY <1>0, <1>2 DEF SessionLost
<1>3. ASSUME NEW c \in MqClients, OnMeshConnect(c) PROVE MqInv'
  <2>1. MqTypes'
    BY <1>0, <1>3 DEF OnMeshConnect
  <2>2. HoldersApart'
    BY <1>0, <1>3 DEF OnMeshConnect
  <2>3. PahoThreadIsOwned'
    BY <1>0, <1>3 DEF OnMeshConnect
  <2>4. HeldWhere'
    BY <1>0, <1>3 DEF OnMeshConnect
  <2>5. FailuresBelowLimit'
    BY <1>0, <1>3 DEF OnMeshConnect
  <2>6. QED
    BY <1>0, <2>1, <2>2, <2>3, <2>4, <2>5
<1>4. ASSUME NEW c \in MqClients, OnMeshDisconnect(c) PROVE MqInv'
  <2>1. MqTypes'
    BY <1>0, <1>4 DEF OnMeshDisconnect
  <2>2. HoldersApart'
    BY <1>0, <1>4 DEF OnMeshDisconnect
  <2>3. PahoThreadIsOwned'
    BY <1>0, <1>4 DEF OnMeshDisconnect
  <2>4. HeldWhere'
    BY <1>0, <1>4 DEF OnMeshDisconnect
  <2>5. FailuresBelowLimit'
    BY <1>0, <1>4 DEF OnMeshDisconnect
  <2>6. QED
    BY <1>0, <2>1, <2>2, <2>3, <2>4, <2>5
<1>5. ASSUME NEW c \in MqClients, Finalize(c) PROVE MqInv'
  BY <1>0, <1>5 DEF Finalize
<1>6. CASE LoopTop
  <2>1. MqTypes'
    BY <1>0, <1>6 DEF LoopTop
  <2>2. HoldersApart'
    BY <1>0, <1>6 DEF LoopTop
  <2>3. PahoThreadIsOwned'
    BY <1>0, <1>6 DEF LoopTop
  <2>4. HeldWhere'
    BY <1>0, <1>6 DEF LoopTop
  <2>5. FailuresBelowLimit'
    BY <1>0, <1>6 DEF LoopTop
  <2>6. QED
    BY <1>0, <2>1, <2>2, <2>3, <2>4, <2>5
<1>7. CASE GraceSlept
  BY <1>0, <1>7 DEF GraceSlept
<1>8. CASE LoopCloses
  BY <1>0, <1>8, CloseEffect DEF LoopCloses
<1>9. CASE Construct
  BY <1>0, <1>9 DEF Construct
<1>10. CASE Connack
  BY <1>0, <1>10 DEF Connack
<1>11. CASE PublishClient
  <2>1. MqTypes'
    BY <1>0, <1>11 DEF PublishClient
  <2>2. HoldersApart'
    BY <1>0, <1>11 DEF PublishClient
  <2>3. PahoThreadIsOwned'
    BY <1>0, <1>11 DEF PublishClient
  <2>4. HeldWhere'
    BY <1>0, <1>11 DEF PublishClient
  <2>5. FailuresBelowLimit'
    BY <1>0, <1>11 DEF PublishClient
  <2>6. QED
    BY <1>0, <2>1, <2>2, <2>3, <2>4, <2>5
<1>12. CASE Refused
  <2>1. MqTypes'
    BY <1>0, <1>12, CloseEffect DEF Refused
  <2>2. HoldersApart'
    BY <1>0, <1>12, CloseEffect DEF Refused
  <2>3. PahoThreadIsOwned'
    BY <1>0, <1>12, CloseEffect DEF Refused
  <2>4. HeldWhere'
    BY <1>0, <1>12, CloseEffect DEF Refused
  <2>5. FailuresBelowLimit'
    BY <1>0, <1>12, CloseEffect DEF Refused
  <2>6. QED
    BY <1>0, <2>1, <2>2, <2>3, <2>4, <2>5
<1>13. CASE Slept
  BY <1>0, <1>13 DEF Slept
<1>14. CASE Watch
  BY <1>0, <1>14 DEF Watch
<1>15. CASE GraceOver
  <2>1. MqTypes'
    BY <1>0, <1>15 DEF GraceOver
  <2>2. HoldersApart'
    BY <1>0, <1>15 DEF GraceOver
  <2>3. PahoThreadIsOwned'
    BY <1>0, <1>15 DEF GraceOver
  <2>4. HeldWhere'
    BY <1>0, <1>15 DEF GraceOver
  <2>5. FailuresBelowLimit'
    BY <1>0, <1>15 DEF GraceOver
  <2>6. QED
    BY <1>0, <2>1, <2>2, <2>3, <2>4, <2>5
<1>16. CASE InternetChanges
  <2>1. MqTypes'
    BY <1>0, <1>16 DEF InternetChanges
  <2>2. HoldersApart'
    BY <1>0, <1>16 DEF InternetChanges
  <2>3. PahoThreadIsOwned'
    BY <1>0, <1>16 DEF InternetChanges
  <2>4. HeldWhere'
    BY <1>0, <1>16 DEF InternetChanges
  <2>5. FailuresBelowLimit'
    BY <1>0, <1>16 DEF InternetChanges
  <2>6. QED
    BY <1>0, <2>1, <2>2, <2>3, <2>4, <2>5
<1>17. CASE MqStops
  <2>1. MqTypes'
    BY <1>0, <1>17, CloseEffect DEF MqStops
  <2>2. HoldersApart'
    BY <1>0, <1>17, CloseEffect DEF MqStops
  <2>3. PahoThreadIsOwned'
    BY <1>0, <1>17, CloseEffect DEF MqStops
  <2>4. HeldWhere'
    BY <1>0, <1>17, CloseEffect DEF MqStops
  <2>5. FailuresBelowLimit'
    BY <1>0, <1>17, CloseEffect DEF MqStops
  <2>6. QED
    BY <1>0, <2>1, <2>2, <2>3, <2>4, <2>5
<1>18. CASE UNCHANGED mqVars
  BY <1>0, <1>18 DEF mqVars
<1>19. QED
  BY <1>1, <1>2, <1>3, <1>4, <1>5, <1>6, <1>7, <1>8, <1>9, <1>10, <1>11, <1>12, <1>13, <1>14, <1>15, <1>16, <1>17, <1>18 DEF MqNext, LoopStep, Reports

(* Every paho thread belongs to a client that is published, built, closed or
   left to its finalizer, and a stopped gateway has no link: for any number
   of clients and any limit of attempts.                                     *)
THEOREM BrokerLinkSafe == MqSpec => []BrokerSessionsEnd
<1>1. MqInit => MqInv
  BY MqInitInv
<1>2. MqInv /\ [MqNext]_mqVars => MqInv'
  BY MqStepKeeps
<1>3. MqInv => BrokerSessionsEnd
  BY MqInvImplies
<1>4. QED
  BY <1>1, <1>2, <1>3, PTL DEF MqSpec

-----------------------------------------------------------------------------
(* The serial radio in listener mode.  An open interface belongs to the owner
   or to the worker that opened it, and while a constructor runs there is no
   other; the lease goes only when nothing is left.                          *)

SerGen0 == SerGens \cup {0}

SerTypes ==
    /\ openGen \in Nat
    /\ activeGen \in SerGen0 /\ candidate \in SerGen0 /\ published \in SerGen0 /\ poisoner \in SerGen0
    /\ handle \in [SerGens -> {"none", "open", "closing", "closed", "quarantined"}]
    /\ opener \in [pc : {"none", "constructing", "returned", "raised", "decided"}, gen : SerGen0,
                   cancelled : BOOLEAN]
    /\ command \in [pc : {"none", "running", "orphan"}, gen : SerGen0, by : {"none", "owner", "api"}]
    /\ owner \in [pc : {"idle", "opening", "check", "live"}, gen : SerGen0]
    /\ stopper \in {"no", "detach", "join", "deferred", "retained", "done"}

(* A constructor runs, and its result is waited for, beside nothing else. *)
OpenerAlone ==
    /\ owner.pc = "opening" =>
          opener.pc \in {"constructing", "returned", "raised"} /\ owner.gen = opener.gen
    /\ opener.pc # "none" => opener.gen \in SerGens /\ opener.gen <= openGen
    /\ opener.pc # "none" /\ opener.cancelled => owner.pc = "idle"
    /\ opener.pc \in {"constructing", "returned", "raised"} =>
          /\ candidate = 0 /\ published = 0 /\ command.pc = "none"
          /\ owner.pc \in {"idle", "opening"} /\ poisoner # opener.gen
    /\ opener.pc = "constructing" => AtDevice = {}
    /\ opener.pc = "returned" => handle[opener.gen] = "open"

(* Whoever works with an interface, and what it knows of it *)
OwnerOfInterface ==
    /\ owner.pc \in {"check", "live"} => owner.gen \in SerGens /\ owner.gen <= openGen
    /\ published # 0 => owner.pc = "live" /\ owner.gen = published /\ activeGen = published
    /\ candidate # 0 => owner.pc = "check" /\ owner.gen = candidate /\ activeGen = candidate
    /\ owner.pc = "check" => candidate = owner.gen \/ handle[owner.gen] # "open"
    /\ serActive /\ published # 0 => openGen = published /\ handle[published] = "open"
    /\ serActive /\ candidate # 0 /\ candidate = openGen => handle[candidate] = "open"

CommandOfInterface ==
    /\ command.pc # "none" => command.gen \in SerGens /\ command.gen <= openGen
    /\ command.pc = "running" <=> command.by # "none"
    /\ command.by = "owner" => owner.pc \in {"check", "live"} /\ owner.gen = command.gen
    /\ owner.pc = "check" => command.pc = "none" \/ command.by = "owner"
    /\ poisoner # 0 => /\ poisoner <= openGen /\ poisoner # candidate /\ poisoner # published
                       /\ owner.pc = "check" => owner.gen # poisoner

(* An open interface is somebody's, and there is one. *)
OpenIsOwned ==
    /\ \A g \in SerGens : handle[g] = "open" =>
          \/ opener.gen = g /\ opener.pc = "returned"
          \/ opener.gen = g /\ opener.pc = "decided" /\ opener.cancelled
          \/ owner.gen = g /\ owner.pc \in {"check", "live"}
    /\ \A g, h \in AtDevice : g = h

(* What stop has done so far, and when the lease may be gone *)
StopProgress ==
    /\ serActive <=> stopper = "no"
    /\ stopper \notin {"no", "detach"} => candidate = 0 /\ published = 0
    /\ stopper \in {"deferred", "retained", "done"} => owner.pc # "live"
    /\ ~ lease => AtDevice = {} /\ opener.pc # "constructing" /\ command.pc = "none"

SerInv ==
    /\ SerTypes /\ OpenerAlone /\ OwnerOfInterface /\ CommandOfInterface /\ OpenIsOwned /\ StopProgress

LEMMA SerInitInv == SerInit => SerInv
BY SerialAssumption DEF SerInit, SerInv, SerGen0, SerGens, SerTypes, OpenerAlone, OwnerOfInterface,
       CommandOfInterface, OpenIsOwned, StopProgress, AtDevice, NoOpener, NoCommand

(* The steps that change the record of a worker, seen field by field *)
LEMMA OpenTimesOutTypes ==
    ASSUME SerTypes, OpenTimesOut
    PROVE  SerTypes'
<1>1. opener' = [opener EXCEPT !.cancelled = TRUE] /\ owner' = [pc |-> "idle", gen |-> 0]
  BY DEF OpenTimesOut, OwnerAt
<1>2. opener' \in [pc : {"none", "constructing", "returned", "raised", "decided"}, gen : SerGen0,
                   cancelled : BOOLEAN]
  BY <1>1 DEF SerTypes
<1>3. openGen' \in Nat
  BY DEF SerTypes, OpenTimesOut
<1>4. QED
  BY <1>1, <1>2, <1>3 DEF SerTypes, OpenTimesOut, SerGen0

LEMMA OpenReturnedTypes ==
    ASSUME SerTypes, OpenReturned
    PROVE  SerTypes'
<1>1. PICK late \in BOOLEAN : opener' = [opener EXCEPT !.pc = "decided", !.cancelled = late]
  <2>1. opener' = [opener EXCEPT !.pc = "decided", !.cancelled = ~ (serActive /\ opener.gen = openGen)]
    BY DEF OpenReturned
  <2>2. QED
    BY <2>1
<1>2. opener' \in [pc : {"none", "constructing", "returned", "raised", "decided"}, gen : SerGen0,
                   cancelled : BOOLEAN]
  BY <1>1 DEF SerTypes
<1>3. opener.gen \in SerGen0
  BY DEF SerTypes
<1>4. QED
  BY <1>2, <1>3 DEF SerTypes, OpenReturned, OwnerAt, SerGen0

(* A result that came too late is cancelled; one that did not is the owner's. *)
LEMMA OpenReturnedFacts ==
    ASSUME SerTypes, OpenReturned
    PROVE  opener'.cancelled \/ (owner'.pc = "check" /\ owner'.gen = opener.gen)
<1>1. CASE serActive /\ opener.gen = openGen
  <2>1. owner' = [pc |-> "check", gen |-> opener.gen]
    BY <1>1 DEF OpenReturned, OwnerAt
  <2>2. QED
    BY <2>1
<1>2. CASE ~ (serActive /\ opener.gen = openGen)
  <2>1. opener' = [opener EXCEPT !.pc = "decided", !.cancelled = TRUE]
    <3>1. opener' = [opener EXCEPT !.pc = "decided", !.cancelled = ~ (serActive /\ opener.gen = openGen)]
      BY DEF OpenReturned
    <3>2. (~ (serActive /\ opener.gen = openGen)) = TRUE
      BY <1>2
    <3>3. QED
      BY <3>1, <3>2
  <2>2. opener'.cancelled = TRUE
    BY <2>1 DEF SerTypes
  <2>3. QED
    BY <2>2
<1>3. QED
  BY <1>1, <1>2

LEMMA CommandTimesOutTypes ==
    ASSUME SerTypes, CommandTimesOut
    PROVE  SerTypes'
<1>1. command' = [command EXCEPT !.pc = "orphan", !.by = "none"] /\ command.gen \in SerGen0
  BY DEF SerTypes, CommandTimesOut
<1>2. command' \in [pc : {"none", "running", "orphan"}, gen : SerGen0, by : {"none", "owner", "api"}]
  BY <1>1 DEF SerTypes
<1>3. handle' \in [SerGens -> {"none", "open", "closing", "closed", "quarantined"}]
  BY DEF SerTypes, CommandTimesOut, Closing
<1>4. /\ openGen' \in Nat /\ published' \in SerGen0 /\ candidate' \in SerGen0 /\ poisoner' \in SerGen0
      /\ owner' \in [pc : {"idle", "opening", "check", "live"}, gen : SerGen0]
  BY <1>1 DEF SerTypes, CommandTimesOut, Detach, OwnerAt, SerGen0
<1>5. QED
  BY <1>2, <1>3, <1>4 DEF SerTypes, CommandTimesOut

(* An interface that was open and has changed its state is closing. *)
LEMMA ClosingFacts ==
    ASSUME SerTypes, NEW S, handle' = Closing(S)
    PROVE  /\ AtDevice' = AtDevice
           /\ \A g \in SerGens : handle'[g] = "open" => handle[g] = "open" /\ g \notin S
BY DEF SerTypes, Closing, AtDevice

(* One step of any thread of the gateway *)
LEMMA SerStepKeeps ==
    ASSUME SerialMode = "listener", SerInv, [SerNext]_serVars
    PROVE  SerInv'
<1> USE SerialAssumption DEF SerInv, SerGen0, SerGens, SerTypes, OpenerAlone, OwnerOfInterface, CommandOfInterface, OpenIsOwned,
           StopProgress, AtDevice, NothingAtDevice, Closing, Detach, OwnerAt, Current, NoOpener, NoCommand
<1>1. CASE OpenBegins
  <2>1. SerTypes'
    BY <1>1 DEF OpenBegins
  <2>2. OpenerAlone'
    BY <1>1 DEF OpenBegins
  <2>3. OwnerOfInterface'
    BY <1>1 DEF OpenBegins
  <2>4. CommandOfInterface'
    BY <1>1 DEF OpenBegins
  <2>5. OpenIsOwned'
    BY <1>1 DEF OpenBegins
  <2>6. StopProgress'
    BY <1>1 DEF OpenBegins
  <2>7. QED
    BY <2>1, <2>2, <2>3, <2>4, <2>5, <2>6
<1>2. CASE OpenTimesOut
  <2>1. SerTypes'
    BY <1>2, OpenTimesOutTypes
  <2>2. OpenerAlone'
    BY <1>2 DEF OpenTimesOut
  <2>3. OwnerOfInterface'
    BY <1>2 DEF OpenTimesOut
  <2>4. CommandOfInterface'
    BY <1>2 DEF OpenTimesOut
  <2>5. OpenIsOwned'
    BY <1>2 DEF OpenTimesOut
  <2>6. StopProgress'
    BY <1>2 DEF OpenTimesOut
  <2>7. QED
    BY <2>1, <2>2, <2>3, <2>4, <2>5, <2>6
<1>3. CASE OpenRaised
  BY <1>3 DEF OpenRaised
<1>4. CASE OpenReturned
  <2>1. SerTypes'
    BY <1>4, OpenReturnedTypes
  <2>2. OpenerAlone'
    BY <1>4 DEF OpenReturned
  <2>3. OwnerOfInterface'
    BY <1>4 DEF OpenReturned
  <2>4. CommandOfInterface'
    BY <1>4 DEF OpenReturned
  <2>5. OpenIsOwned'
    <3>1. opener'.pc = "decided" /\ opener'.gen = opener.gen /\ handle' = handle
      BY <1>4 DEF OpenReturned
    <3>2. opener'.cancelled \/ (owner'.pc = "check" /\ owner'.gen = opener.gen)
      BY <1>4, OpenReturnedFacts
    <3>3. owner.pc = "opening" /\ opener.pc = "returned"
      BY <1>4 DEF OpenReturned
    <3>4. QED
      BY <3>1, <3>2, <3>3
  <2>6. StopProgress'
    BY <1>4 DEF OpenReturned
  <2>7. QED
    BY <2>1, <2>2, <2>3, <2>4, <2>5, <2>6
<1>5. CASE Publish
  <2>1. SerTypes'
    BY <1>5 DEF Publish
  <2>2. OpenerAlone'
    BY <1>5 DEF Publish
  <2>3. OwnerOfInterface'
    BY <1>5 DEF Publish
  <2>4. CommandOfInterface'
    BY <1>5 DEF Publish
  <2>5. OpenIsOwned'
    BY <1>5 DEF Publish
  <2>6. StopProgress'
    BY <1>5 DEF Publish
  <2>7. QED
    BY <2>1, <2>2, <2>3, <2>4, <2>5, <2>6
<1>6. CASE Reject
  BY <1>6 DEF Reject
<1>7. CASE OwnerLeaves
  BY <1>7 DEF OwnerLeaves
<1>8. CASE Constructed
  <2>1. SerTypes'
    <3>1. handle' \in [SerGens -> {"none", "open", "closing", "closed", "quarantined"}]
      BY <1>8 DEF Constructed, SerTypes, SerInv
    <3>2. opener' \in [pc : {"none", "constructing", "returned", "raised", "decided"}, gen : SerGen0,
                       cancelled : BOOLEAN]
      BY <1>8 DEF Constructed, SerTypes, SerInv
    <3>3. QED
      BY <1>8, <3>1, <3>2 DEF Constructed, SerTypes, SerInv
  <2>2. OpenerAlone'
    BY <1>8 DEF Constructed
  <2>3. OwnerOfInterface'
    BY <1>8 DEF Constructed
  <2>4. CommandOfInterface'
    BY <1>8 DEF Constructed
  <2>5. OpenIsOwned'
    BY <1>8 DEF Constructed
  <2>6. StopProgress'
    BY <1>8 DEF Constructed
  <2>7. QED
    BY <2>1, <2>2, <2>3, <2>4, <2>5, <2>6
<1>9. CASE OpenerEnds
  BY <1>9 DEF OpenerEnds
<1>10. CASE CommandReturns
  BY <1>10 DEF CommandReturns
<1>11. ASSUME NEW g \in SerGens, CloseEnds(g) PROVE SerInv'
  BY <1>11 DEF CloseEnds
<1>12. CASE SerStopDetaches
  BY <1>12 DEF SerStopDetaches
<1>13. CASE SerStopReleases
  BY <1>13 DEF SerStopReleases
<1>14. CASE DeferredRelease
  BY <1>14 DEF DeferredRelease
<1>15. CASE SerStopBegins
  BY <1>15 DEF SerStopBegins
<1>16. ASSUME NEW who \in {"owner", "api"}, CommandBegins(who) PROVE SerInv'
  BY <1>16 DEF CommandBegins
<1>17. CASE CommandTimesOut
  <2>1. SerTypes'
    BY <1>17, CommandTimesOutTypes
  <2>2. OpenerAlone'
    BY <1>17 DEF CommandTimesOut
  <2>3. OwnerOfInterface'
    BY <1>17 DEF CommandTimesOut
  <2>4. CommandOfInterface'
    BY <1>17 DEF CommandTimesOut
  <2>5. OpenIsOwned'
    <3>1. CASE command.by = "api"
      BY <1>17, <3>1 DEF CommandTimesOut
    <3>2. CASE command.by # "api"
      <4>1. AtDevice' = AtDevice /\ \A g \in SerGens : handle'[g] = "open" => handle[g] = "open" /\ g # command.gen
        BY <1>17, <3>2, ClosingFacts DEF CommandTimesOut
      <4>2. owner.gen = command.gen /\ owner.pc \in {"check", "live"} /\ opener' = opener
        BY <1>17, <3>2 DEF CommandTimesOut
      <4>3. QED
        BY <4>1, <4>2
    <3>3. QED
      BY <3>1, <3>2
  <2>6. StopProgress'
    BY <1>17 DEF CommandTimesOut
  <2>7. QED
    BY <2>1, <2>2, <2>3, <2>4, <2>5, <2>6
<1>18. CASE PoisonerCloses
  BY <1>18 DEF PoisonerCloses
<1>19. CASE ResetCleanup
  BY <1>19 DEF ResetCleanup
<1>20. CASE UNCHANGED serVars
  BY <1>20 DEF serVars
<1>21. QED
  BY <1>1, <1>2, <1>3, <1>4, <1>5, <1>6, <1>7, <1>8, <1>9, <1>10, <1>11, <1>12, <1>13, <1>14, <1>15, <1>16, <1>17, <1>18, <1>19, <1>20
     DEF SerNext, OwnerSteps, WorkerSteps, SerStopSteps

(* The interfaces at the device and the constructor are one thing at most. *)
LEMMA SerInvImplies == SerInv => SerialLinkSafe
<1> SUFFICES ASSUME SerInv PROVE SerialLinkSafe
  OBVIOUS
<1>1. SerTypeOK
  BY SerialAssumption DEF SerInv, SerTypes, SerTypeOK, SerGen0
<1>2. OneInterfaceAtDevice
  <2> DEFINE S == AtDevice \cup (IF opener.pc = "constructing" THEN {opener.gen} ELSE {})
  <2>1. \A a, b \in S : a = b
    BY DEF SerInv, OpenerAlone, OpenIsOwned
  <2>2. Cardinality(S) \in 0..1
    BY <2>1, SmallSet
  <2>3. QED
    BY <2>2 DEF OneInterfaceAtDevice
<1>3. LeaseCoversDevice
  BY DEF SerInv, StopProgress, LeaseCoversDevice
<1>4. PublishedIsOpen
  BY DEF SerInv, OwnerOfInterface, PublishedIsOpen
<1>5. QED
  BY <1>1, <1>2, <1>3, <1>4 DEF SerialLinkSafe

(* In listener mode the gateway never has two interfaces at the serial radio,
   never leaves one there without the lease, and never publishes a closed
   one, however many times it opens.                                         *)
THEOREM SerialLinkKept == SerialMode = "listener" => (SerSpec => []SerialLinkSafe)
<1> SUFFICES ASSUME SerialMode = "listener" PROVE SerSpec => []SerialLinkSafe
  OBVIOUS
<1>1. SerInit => SerInv
  BY SerInitInv
<1>2. SerInv /\ [SerNext]_serVars => SerInv'
  BY SerStepKeeps
<1>3. SerInv => SerialLinkSafe
  BY SerInvImplies
<1>4. QED
  BY <1>1, <1>2, <1>3, PTL DEF SerSpec

-----------------------------------------------------------------------------
(***************************************************************************)
(* The connection of the MeshCore gateway, for any number of generations.  *)
(* A client at the device is the handle or belongs to the attempt under    *)
(* way, never both; whatever is invalidated is older than the generation.  *)
(***************************************************************************)

McAttemptType == [pc : {"none", "opening", "late"}, gen : McIds \cup {0}, abandoned : BOOLEAN]
McTearType == [pc : {"none", "running"}, client : McIds \cup {0}]
McOwnerPcs == {"top", "lease", "begin", "track", "open", "setup", "commit", "watch", "disc", "tearing",
               "ended"}
McStopPcs == {"no", "disc", "tearing", "loop", "join", "done"}
McOwnerType == [pc : McOwnerPcs, gen : McIds \cup {0}]
McStopType == [pc : McStopPcs, proven : BOOLEAN]

McFlags ==
    /\ mcActive \in BOOLEAN /\ mcOn \in BOOLEAN /\ mcBlocked \in BOOLEAN
    /\ mcLease \in BOOLEAN /\ mcLoop \in BOOLEAN
    /\ mcGen \in Nat /\ mcHandle \in McIds \cup {0}
    /\ mcFails \in 0..(McThreshold - 1) /\ mcDisc \in {"none", "owner", "stop"}
McRecords ==
    /\ mcClient \in [McIds -> {"none", "open", "closed"}]
    /\ mcAttempt \in McAttemptType /\ mcTear \in McTearType
    /\ mcOwner \in McOwnerType /\ mcStop \in McStopType
McTypes == McFlags /\ McRecords

(* What is at the device, or about to be, has one place. *)
McPlaced ==
    /\ IF mcAttempt.pc = "none" THEN mcAttempt = NoAttempt ELSE mcAttempt.gen # 0
    /\ IF mcTear.pc = "none" THEN mcTear = NoTear
       ELSE mcHandle # 0 /\ mcTear.client = mcHandle /\ mcHandle < mcGen
    /\ mcHandle <= mcGen /\ mcAttempt.gen <= mcGen /\ mcOwner.gen <= mcGen
    /\ mcHandle # 0 => mcAttempt = NoAttempt /\ mcClient[mcHandle] = "open"
    /\ mcOwner.pc = "track" => mcHandle = 0 /\ mcAttempt = NoAttempt /\ mcTear = NoTear
    /\ mcOwner.pc \in {"track", "open", "setup", "commit"} => mcOwner.gen # 0
McOpens ==
    /\ \A g \in McIds : mcClient[g] = "open" => g = mcHandle \/ (mcAttempt.pc = "late" /\ g = mcAttempt.gen)
    /\ mcAttempt.pc = "late" => mcClient[mcAttempt.gen] = "open"

McLeased ==
    mcHandle # 0 \/ mcAttempt.pc # "none" \/ mcOwner.pc \in {"begin", "track"} => mcLease

McShown ==
    /\ mcActive <=> mcStop.pc = "no"
    /\ mcOn => mcGen = mcHandle /\ mcHandle # 0 /\ mcStop.pc \in {"no", "disc"}

McInv == McTypes /\ McPlaced /\ McOpens /\ McLeased /\ McShown

-----------------------------------------------------------------------------
LEMMA McNats ==
    /\ McIds \subseteq Nat /\ 0 \notin McIds /\ 0 \in 0..(McThreshold - 1)
    /\ \A n \in Nat : n + 1 \in Nat /\ n < n + 1 /\ (n < McGens => n + 1 \in McIds)
BY MeshCoreLinkAssumption DEF McIds

LEMMA McFailsWrap ==
    ASSUME NEW f \in 0..(McThreshold - 1)
    PROVE  (f + 1) % McThreshold \in 0..(McThreshold - 1)
BY MeshCoreLinkAssumption

(* Giving an attempt up changes nothing else of it. *)
LEMMA McGivenUp ==
    ASSUME NEW a \in McAttemptType, NEW b \in BOOLEAN
    PROVE  /\ [a EXCEPT !.abandoned = b].pc = a.pc /\ [a EXCEPT !.abandoned = b].gen = a.gen
           /\ a.abandoned = b => [a EXCEPT !.abandoned = b] = a
<1>1. [a EXCEPT !.abandoned = b].pc = a.pc /\ [a EXCEPT !.abandoned = b].gen = a.gen
  BY DEF McAttemptType
<1>2. ASSUME a.abandoned = b PROVE [a EXCEPT !.abandoned = b] = a
  BY <1>2 DEF McAttemptType
<1>3. QED
  BY <1>1, <1>2

LEMMA McRecordsTyped ==
    /\ NoAttempt \in McAttemptType /\ NoTear \in McTearType
    /\ \A o \in McOwnerType, pc \in McOwnerPcs : [o EXCEPT !.pc = pc] \in McOwnerType
    /\ \A pc \in McOwnerPcs, g \in McIds : [pc |-> pc, gen |-> g] \in McOwnerType
    /\ \A s \in McStopType, pc \in McStopPcs : [s EXCEPT !.pc = pc] \in McStopType
    /\ \A pc \in McStopPcs, b \in BOOLEAN : [pc |-> pc, proven |-> b] \in McStopType
    /\ \A a \in McAttemptType, b \in BOOLEAN : [a EXCEPT !.abandoned = b] \in McAttemptType
    /\ \A a \in McAttemptType : [a EXCEPT !.pc = "late"] \in McAttemptType
    /\ \A g \in McIds : [pc |-> "opening", gen |-> g, abandoned |-> FALSE] \in McAttemptType
    /\ \A g \in McIds : [pc |-> "running", client |-> g] \in McTearType
BY DEF NoAttempt, NoTear, McAttemptType, McTearType, McOwnerType, McStopType, McOwnerPcs, McStopPcs

LEMMA McInitInv == McInit => McInv
<1> SUFFICES ASSUME McInit PROVE McInv
  OBVIOUS
<1>1. McFlags
  BY McNats DEF McInit, McFlags
<1>2. McRecords
  BY McNats, McRecordsTyped DEF McInit, McRecords, McOwnerType, McStopType, McOwnerPcs, McStopPcs
<1>3. McPlaced /\ McOpens /\ McLeased /\ McShown
  BY McNats DEF McInit, McPlaced, McOpens, McLeased, McShown, NoAttempt, NoTear
<1>4. QED
  BY <1>1, <1>2, <1>3 DEF McInv, McTypes

LEMMA McStepKeeps == McInv /\ [McNext]_mcVars => McInv'
<1> SUFFICES ASSUME McInv, [McNext]_mcVars PROVE McInv'
  OBVIOUS
<1>0. McTypes /\ McPlaced /\ McOpens /\ McLeased /\ McShown
  BY DEF McInv
<1>01. /\ mcAttempt.pc \in {"none", "opening", "late"} /\ mcAttempt.gen \in McIds \cup {0}
       /\ mcAttempt.abandoned \in BOOLEAN
       /\ mcTear.pc \in {"none", "running"} /\ mcTear.client \in McIds \cup {0}
       /\ mcOwner.pc \in McOwnerPcs /\ mcOwner.gen \in McIds \cup {0}
       /\ mcStop.pc \in McStopPcs /\ mcStop.proven \in BOOLEAN
  BY <1>0 DEF McTypes, McRecords, McAttemptType, McTearType, McOwnerType, McStopType
<1>02. /\ mcAttempt.pc # "none" => mcAttempt.gen \in McIds
       /\ mcHandle # 0 => mcHandle \in McIds
       /\ mcHandle \in Nat /\ mcAttempt.gen \in Nat /\ mcOwner.gen \in Nat /\ mcGen \in Nat
  <2>1. /\ mcAttempt.pc # "none" => mcAttempt.gen \in McIds
        /\ mcHandle # 0 => mcHandle \in McIds
    BY <1>0, <1>01 DEF McTypes, McFlags, McPlaced
  <2>2. mcHandle \in Nat /\ mcAttempt.gen \in Nat /\ mcOwner.gen \in Nat /\ mcGen \in Nat
    <3>1. McIds \cup {0} \subseteq Nat
      BY McNats
    <3>2. QED
      BY <1>0, <1>01, <3>1 DEF McTypes, McFlags
  <2>3. QED
    BY <2>1, <2>2
<1>1. CASE OwnerTop
  <2>1. McFlags'
    BY <1>0, <1>02, <1>1, McNats DEF OwnerTop, OwnerTo, McTypes, McFlags
  <2>2. McRecords'
    BY <1>0, <1>01, <1>1, McNats, McRecordsTyped
       DEF OwnerTop, OwnerTo, McTypes, McFlags, McRecords, McOwnerPcs, McStopPcs
  <2>3. McPlaced'
    BY <1>0, <1>01, <1>02, <1>1, McNats
       DEF OwnerTop, OwnerTo, McTypes, McFlags, McRecords, McPlaced, NoAttempt, NoTear,
           McAttemptType, McTearType, McOwnerType, McStopType
  <2>4. McOpens'
    BY <1>0, <1>01, <1>02, <1>1, McNats
       DEF OwnerTop, OwnerTo, McTypes, McFlags, McRecords, McPlaced, McOpens, NoAttempt,
           McAttemptType
  <2>5. McLeased'
    BY <1>0, <1>01, <1>02, <1>1, McNats
       DEF OwnerTop, OwnerTo, McTypes, McFlags, McRecords, McPlaced, McLeased, NoAttempt, NoTear,
           McAttemptType, McOwnerType
  <2>6. McShown'
    BY <1>0, <1>01, <1>02, <1>1, McNats
       DEF OwnerTop, OwnerTo, McTypes, McFlags, McRecords, McPlaced, McShown, NoAttempt,
           McOwnerType, McStopType
  <2>7. QED
    BY <2>1, <2>2, <2>3, <2>4, <2>5, <2>6 DEF McInv, McTypes
<1>2. CASE ClaimsPort
  <2>1. McFlags'
    BY <1>0, <1>02, <1>2, McNats DEF ClaimsPort, OwnerTo, McTypes, McFlags
  <2>2. McRecords'
    BY <1>0, <1>01, <1>2, McNats, McRecordsTyped
       DEF ClaimsPort, OwnerTo, McTypes, McFlags, McRecords, McOwnerPcs, McStopPcs
  <2>3. McPlaced'
    BY <1>0, <1>01, <1>02, <1>2, McNats
       DEF ClaimsPort, OwnerTo, McTypes, McFlags, McRecords, McPlaced, NoAttempt, NoTear,
           McAttemptType, McTearType, McOwnerType, McStopType
  <2>4. McOpens'
    BY <1>0, <1>01, <1>02, <1>2, McNats
       DEF ClaimsPort, OwnerTo, McTypes, McFlags, McRecords, McPlaced, McOpens, NoAttempt,
           McAttemptType
  <2>5. McLeased'
    BY <1>0, <1>01, <1>02, <1>2, McNats
       DEF ClaimsPort, OwnerTo, McTypes, McFlags, McRecords, McPlaced, McLeased, NoAttempt, NoTear,
           McAttemptType, McOwnerType
  <2>6. McShown'
    BY <1>0, <1>01, <1>02, <1>2, McNats
       DEF ClaimsPort, OwnerTo, McTypes, McFlags, McRecords, McPlaced, McShown, NoAttempt,
           McOwnerType, McStopType
  <2>7. QED
    BY <2>1, <2>2, <2>3, <2>4, <2>5, <2>6 DEF McInv, McTypes
<1>3. CASE BeginGeneration
  <2>1. McFlags'
    BY <1>0, <1>02, <1>3, McNats DEF BeginGeneration, OwnerTo, McTypes, McFlags
  <2>2. McRecords'
    <3>1. mcClient' \in [McIds -> {"none", "open", "closed"}]
      BY <1>0, <1>01, <1>02, <1>3, McNats, McRecordsTyped
         DEF BeginGeneration, OwnerTo, McTypes, McFlags, McRecords, McPlaced, McOwnerPcs, McStopPcs
    <3>2. mcAttempt' \in McAttemptType
      BY <1>0, <1>01, <1>02, <1>3, McNats, McRecordsTyped
         DEF BeginGeneration, OwnerTo, McTypes, McFlags, McRecords, McPlaced, McOwnerPcs, McStopPcs
    <3>3. mcTear' \in McTearType
      BY <1>0, <1>01, <1>02, <1>3, McNats, McRecordsTyped
         DEF BeginGeneration, OwnerTo, McTypes, McFlags, McRecords, McPlaced, McOwnerPcs, McStopPcs
    <3>4. mcOwner' \in McOwnerType
      BY <1>0, <1>01, <1>02, <1>3, McNats, McRecordsTyped
         DEF BeginGeneration, OwnerTo, McTypes, McFlags, McRecords, McPlaced, McOwnerPcs, McStopPcs
    <3>5. mcStop' \in McStopType
      BY <1>0, <1>01, <1>02, <1>3, McNats, McRecordsTyped
         DEF BeginGeneration, OwnerTo, McTypes, McFlags, McRecords, McPlaced, McOwnerPcs, McStopPcs
    <3>6. QED
      BY <3>1, <3>2, <3>3, <3>4, <3>5 DEF McRecords
  <2>3. McPlaced'
    BY <1>0, <1>01, <1>02, <1>3, McNats
       DEF BeginGeneration, OwnerTo, McTypes, McFlags, McRecords, McPlaced, NoAttempt, NoTear,
           McAttemptType, McTearType, McOwnerType, McStopType
  <2>4. McOpens'
    BY <1>0, <1>01, <1>02, <1>3, McNats
       DEF BeginGeneration, OwnerTo, McTypes, McFlags, McRecords, McPlaced, McOpens, NoAttempt,
           McAttemptType
  <2>5. McLeased'
    BY <1>0, <1>01, <1>02, <1>3, McNats
       DEF BeginGeneration, OwnerTo, McTypes, McFlags, McRecords, McPlaced, McLeased, NoAttempt,
           NoTear, McAttemptType, McOwnerType
  <2>6. McShown'
    BY <1>0, <1>01, <1>02, <1>3, McNats
       DEF BeginGeneration, OwnerTo, McTypes, McFlags, McRecords, McPlaced, McShown, NoAttempt,
           McOwnerType, McStopType
  <2>7. QED
    BY <2>1, <2>2, <2>3, <2>4, <2>5, <2>6 DEF McInv, McTypes
<1>4. CASE TrackOpen
  <2>1. McFlags'
    BY <1>0, <1>02, <1>4, McNats DEF TrackOpen, OwnerTo, McTypes, McFlags
  <2>2. McRecords'
    <3>1. mcClient' \in [McIds -> {"none", "open", "closed"}]
      BY <1>0, <1>01, <1>02, <1>4, McNats, McRecordsTyped
         DEF TrackOpen, OwnerTo, McTypes, McFlags, McRecords, McPlaced, McOwnerPcs, McStopPcs
    <3>2. mcAttempt' \in McAttemptType
      BY <1>0, <1>01, <1>02, <1>4, McNats, McRecordsTyped
         DEF TrackOpen, OwnerTo, McTypes, McFlags, McRecords, McPlaced, McOwnerPcs, McStopPcs
    <3>3. mcTear' \in McTearType
      BY <1>0, <1>01, <1>02, <1>4, McNats, McRecordsTyped
         DEF TrackOpen, OwnerTo, McTypes, McFlags, McRecords, McPlaced, McOwnerPcs, McStopPcs
    <3>4. mcOwner' \in McOwnerType
      BY <1>0, <1>01, <1>02, <1>4, McNats, McRecordsTyped
         DEF TrackOpen, OwnerTo, McTypes, McFlags, McRecords, McPlaced, McOwnerPcs, McStopPcs
    <3>5. mcStop' \in McStopType
      BY <1>0, <1>01, <1>02, <1>4, McNats, McRecordsTyped
         DEF TrackOpen, OwnerTo, McTypes, McFlags, McRecords, McPlaced, McOwnerPcs, McStopPcs
    <3>6. QED
      BY <3>1, <3>2, <3>3, <3>4, <3>5 DEF McRecords
  <2>3. McPlaced'
    BY <1>0, <1>01, <1>02, <1>4, McNats
       DEF TrackOpen, OwnerTo, McTypes, McFlags, McRecords, McPlaced, NoAttempt, NoTear,
           McAttemptType, McTearType, McOwnerType, McStopType
  <2>4. McOpens'
    BY <1>0, <1>01, <1>02, <1>4, McNats
       DEF TrackOpen, OwnerTo, McTypes, McFlags, McRecords, McPlaced, McOpens, NoAttempt,
           McAttemptType
  <2>5. McLeased'
    BY <1>0, <1>01, <1>02, <1>4, McNats
       DEF TrackOpen, OwnerTo, McTypes, McFlags, McRecords, McPlaced, McLeased, NoAttempt, NoTear,
           McAttemptType, McOwnerType
  <2>6. McShown'
    BY <1>0, <1>01, <1>02, <1>4, McNats
       DEF TrackOpen, OwnerTo, McTypes, McFlags, McRecords, McPlaced, McShown, NoAttempt,
           McOwnerType, McStopType
  <2>7. QED
    BY <2>1, <2>2, <2>3, <2>4, <2>5, <2>6 DEF McInv, McTypes
<1>5. CASE OpenReturns
  <2>1. McFlags'
    BY <1>0, <1>02, <1>5, McNats DEF OpenReturns, McTypes, McFlags
  <2>2. McRecords'
    <3>1. mcClient' \in [McIds -> {"none", "open", "closed"}]
      BY <1>0, <1>01, <1>02, <1>5, McNats, McRecordsTyped
         DEF OpenReturns, McTypes, McFlags, McRecords, McPlaced, McOwnerPcs, McStopPcs
    <3>2. mcAttempt' \in McAttemptType
      BY <1>0, <1>01, <1>02, <1>5, McNats, McRecordsTyped
         DEF OpenReturns, McTypes, McFlags, McRecords, McPlaced, McOwnerPcs, McStopPcs
    <3>3. mcTear' \in McTearType
      BY <1>0, <1>01, <1>02, <1>5, McNats, McRecordsTyped
         DEF OpenReturns, McTypes, McFlags, McRecords, McPlaced, McOwnerPcs, McStopPcs
    <3>4. mcOwner' \in McOwnerType
      BY <1>0, <1>01, <1>02, <1>5, McNats, McRecordsTyped
         DEF OpenReturns, McTypes, McFlags, McRecords, McPlaced, McOwnerPcs, McStopPcs
    <3>5. mcStop' \in McStopType
      BY <1>0, <1>01, <1>02, <1>5, McNats, McRecordsTyped
         DEF OpenReturns, McTypes, McFlags, McRecords, McPlaced, McOwnerPcs, McStopPcs
    <3>6. QED
      BY <3>1, <3>2, <3>3, <3>4, <3>5 DEF McRecords
  <2>3. McPlaced'
    BY <1>0, <1>01, <1>02, <1>5, McNats
       DEF OpenReturns, McTypes, McFlags, McRecords, McPlaced, NoAttempt, NoTear, McAttemptType,
           McTearType, McOwnerType, McStopType
  <2>4. McOpens'
    BY <1>0, <1>01, <1>02, <1>5, McNats
       DEF OpenReturns, McTypes, McFlags, McRecords, McPlaced, McOpens, NoAttempt, McAttemptType
  <2>5. McLeased'
    BY <1>0, <1>01, <1>02, <1>5, McNats
       DEF OpenReturns, McTypes, McFlags, McRecords, McPlaced, McLeased, NoAttempt, NoTear,
           McAttemptType, McOwnerType
  <2>6. McShown'
    BY <1>0, <1>01, <1>02, <1>5, McNats
       DEF OpenReturns, McTypes, McFlags, McRecords, McPlaced, McShown, NoAttempt, McOwnerType,
           McStopType
  <2>7. QED
    BY <2>1, <2>2, <2>3, <2>4, <2>5, <2>6 DEF McInv, McTypes
<1>6. CASE OpenFails
  <2>1. McFlags'
    BY <1>0, <1>02, <1>6, McNats DEF OpenFails, McTypes, McFlags
  <2>2. McRecords'
    BY <1>0, <1>01, <1>6, McNats, McRecordsTyped
       DEF OpenFails, McTypes, McFlags, McRecords, McOwnerPcs, McStopPcs
  <2>3. McPlaced'
    BY <1>0, <1>01, <1>02, <1>6, McNats
       DEF OpenFails, McTypes, McFlags, McRecords, McPlaced, NoAttempt, NoTear, McAttemptType,
           McTearType, McOwnerType, McStopType
  <2>4. McOpens'
    BY <1>0, <1>01, <1>02, <1>6, McNats
       DEF OpenFails, McTypes, McFlags, McRecords, McPlaced, McOpens, NoAttempt, McAttemptType
  <2>5. McLeased'
    BY <1>0, <1>01, <1>02, <1>6, McNats
       DEF OpenFails, McTypes, McFlags, McRecords, McPlaced, McLeased, NoAttempt, NoTear,
           McAttemptType, McOwnerType
  <2>6. McShown'
    BY <1>0, <1>01, <1>02, <1>6, McNats
       DEF OpenFails, McTypes, McFlags, McRecords, McPlaced, McShown, NoAttempt, McOwnerType,
           McStopType
  <2>7. QED
    BY <2>1, <2>2, <2>3, <2>4, <2>5, <2>6 DEF McInv, McTypes
<1>7. CASE LateClose
  <2>1. McFlags'
    BY <1>0, <1>02, <1>7, McNats DEF LateClose, McTypes, McFlags
  <2>2. McRecords'
    <3>1. mcClient' \in [McIds -> {"none", "open", "closed"}]
      BY <1>0, <1>01, <1>02, <1>7, McNats, McRecordsTyped
         DEF LateClose, McTypes, McFlags, McRecords, McPlaced, McOwnerPcs, McStopPcs
    <3>2. mcAttempt' \in McAttemptType
      BY <1>0, <1>01, <1>02, <1>7, McNats, McRecordsTyped
         DEF LateClose, McTypes, McFlags, McRecords, McPlaced, McOwnerPcs, McStopPcs
    <3>3. mcTear' \in McTearType
      BY <1>0, <1>01, <1>02, <1>7, McNats, McRecordsTyped
         DEF LateClose, McTypes, McFlags, McRecords, McPlaced, McOwnerPcs, McStopPcs
    <3>4. mcOwner' \in McOwnerType
      BY <1>0, <1>01, <1>02, <1>7, McNats, McRecordsTyped
         DEF LateClose, McTypes, McFlags, McRecords, McPlaced, McOwnerPcs, McStopPcs
    <3>5. mcStop' \in McStopType
      BY <1>0, <1>01, <1>02, <1>7, McNats, McRecordsTyped
         DEF LateClose, McTypes, McFlags, McRecords, McPlaced, McOwnerPcs, McStopPcs
    <3>6. QED
      BY <3>1, <3>2, <3>3, <3>4, <3>5 DEF McRecords
  <2>3. McPlaced'
    BY <1>0, <1>01, <1>02, <1>7, McNats
       DEF LateClose, McTypes, McFlags, McRecords, McPlaced, McOpens, NoAttempt, NoTear,
           McAttemptType, McTearType, McOwnerType, McStopType
  <2>4. McOpens'
    BY <1>0, <1>01, <1>02, <1>7, McNats
       DEF LateClose, McTypes, McFlags, McRecords, McPlaced, McOpens, NoAttempt, McAttemptType
  <2>5. McLeased'
    BY <1>0, <1>01, <1>02, <1>7, McNats
       DEF LateClose, McTypes, McFlags, McRecords, McPlaced, McLeased, NoAttempt, NoTear,
           McAttemptType, McOwnerType
  <2>6. McShown'
    BY <1>0, <1>01, <1>02, <1>7, McNats
       DEF LateClose, McTypes, McFlags, McRecords, McPlaced, McShown, NoAttempt, McOwnerType,
           McStopType
  <2>7. QED
    BY <2>1, <2>2, <2>3, <2>4, <2>5, <2>6 DEF McInv, McTypes
<1>8. CASE OpenTimesOutAt
  <2>1. McFlags'
    BY <1>0, <1>02, <1>8, McNats DEF OpenTimesOutAt, OwnerTo, McTypes, McFlags
  <2>2. McRecords'
    BY <1>0, <1>01, <1>8, McNats, McRecordsTyped
       DEF OpenTimesOutAt, OwnerTo, McTypes, McFlags, McRecords, McOwnerPcs, McStopPcs
  <2>3. McPlaced'
    BY <1>0, <1>01, <1>02, <1>8, McNats
       DEF OpenTimesOutAt, OwnerTo, McTypes, McFlags, McRecords, McPlaced, NoAttempt, NoTear,
           McAttemptType, McTearType, McOwnerType, McStopType
  <2>4. McOpens'
    BY <1>0, <1>01, <1>02, <1>8, McNats
       DEF OpenTimesOutAt, OwnerTo, McTypes, McFlags, McRecords, McPlaced, McOpens, NoAttempt,
           McAttemptType
  <2>5. McLeased'
    BY <1>0, <1>01, <1>02, <1>8, McNats
       DEF OpenTimesOutAt, OwnerTo, McTypes, McFlags, McRecords, McPlaced, McLeased, NoAttempt,
           NoTear, McAttemptType, McOwnerType
  <2>6. McShown'
    BY <1>0, <1>01, <1>02, <1>8, McNats
       DEF OpenTimesOutAt, OwnerTo, McTypes, McFlags, McRecords, McPlaced, McShown, NoAttempt,
           McOwnerType, McStopType
  <2>7. QED
    BY <2>1, <2>2, <2>3, <2>4, <2>5, <2>6 DEF McInv, McTypes
<1>9. CASE OpenEnded
  <2>1. McFlags'
    BY <1>0, <1>02, <1>9, McNats DEF OpenEnded, OwnerTo, McTypes, McFlags
  <2>2. McRecords'
    BY <1>0, <1>01, <1>9, McNats, McRecordsTyped
       DEF OpenEnded, OwnerTo, McTypes, McFlags, McRecords, McOwnerPcs, McStopPcs
  <2>3. McPlaced'
    BY <1>0, <1>01, <1>02, <1>9, McNats
       DEF OpenEnded, OwnerTo, McTypes, McFlags, McRecords, McPlaced, NoAttempt, NoTear,
           McAttemptType, McTearType, McOwnerType, McStopType
  <2>4. McOpens'
    BY <1>0, <1>01, <1>02, <1>9, McNats
       DEF OpenEnded, OwnerTo, McTypes, McFlags, McRecords, McPlaced, McOpens, NoAttempt,
           McAttemptType
  <2>5. McLeased'
    BY <1>0, <1>01, <1>02, <1>9, McNats
       DEF OpenEnded, OwnerTo, McTypes, McFlags, McRecords, McPlaced, McLeased, NoAttempt, NoTear,
           McAttemptType, McOwnerType
  <2>6. McShown'
    BY <1>0, <1>01, <1>02, <1>9, McNats
       DEF OpenEnded, OwnerTo, McTypes, McFlags, McRecords, McPlaced, McShown, NoAttempt,
           McOwnerType, McStopType
  <2>7. QED
    BY <2>1, <2>2, <2>3, <2>4, <2>5, <2>6 DEF McInv, McTypes
<1>10. CASE Setup
  <2>1. McFlags'
    BY <1>0, <1>02, <1>10, McNats DEF Setup, OwnerTo, McTypes, McFlags
  <2>2. McRecords'
    BY <1>0, <1>01, <1>10, McNats, McRecordsTyped
       DEF Setup, OwnerTo, McTypes, McFlags, McRecords, McOwnerPcs, McStopPcs
  <2>3. McPlaced'
    BY <1>0, <1>01, <1>02, <1>10, McNats
       DEF Setup, OwnerTo, McTypes, McFlags, McRecords, McPlaced, NoAttempt, NoTear, McAttemptType,
           McTearType, McOwnerType, McStopType
  <2>4. McOpens'
    BY <1>0, <1>01, <1>02, <1>10, McNats
       DEF Setup, OwnerTo, McTypes, McFlags, McRecords, McPlaced, McOpens, NoAttempt, McAttemptType
  <2>5. McLeased'
    BY <1>0, <1>01, <1>02, <1>10, McNats
       DEF Setup, OwnerTo, McTypes, McFlags, McRecords, McPlaced, McLeased, NoAttempt, NoTear,
           McAttemptType, McOwnerType
  <2>6. McShown'
    BY <1>0, <1>01, <1>02, <1>10, McNats
       DEF Setup, OwnerTo, McTypes, McFlags, McRecords, McPlaced, McShown, NoAttempt, McOwnerType,
           McStopType
  <2>7. QED
    BY <2>1, <2>2, <2>3, <2>4, <2>5, <2>6 DEF McInv, McTypes
<1>11. CASE Commit
  <2>1. McFlags'
    BY <1>0, <1>02, <1>11, McNats DEF Commit, OwnerTo, McCurrent, McTypes, McFlags
  <2>2. McRecords'
    BY <1>0, <1>01, <1>11, McNats, McRecordsTyped
       DEF Commit, OwnerTo, McCurrent, McTypes, McFlags, McRecords, McOwnerPcs, McStopPcs
  <2>3. McPlaced'
    BY <1>0, <1>01, <1>02, <1>11, McNats
       DEF Commit, OwnerTo, McCurrent, McTypes, McFlags, McRecords, McPlaced, NoAttempt, NoTear,
           McAttemptType, McTearType, McOwnerType, McStopType
  <2>4. McOpens'
    BY <1>0, <1>01, <1>02, <1>11, McNats
       DEF Commit, OwnerTo, McCurrent, McTypes, McFlags, McRecords, McPlaced, McOpens, NoAttempt,
           McAttemptType
  <2>5. McLeased'
    BY <1>0, <1>01, <1>02, <1>11, McNats
       DEF Commit, OwnerTo, McCurrent, McTypes, McFlags, McRecords, McPlaced, McLeased, NoAttempt,
           NoTear, McAttemptType, McOwnerType
  <2>6. McShown'
    BY <1>0, <1>01, <1>02, <1>11, McNats
       DEF Commit, OwnerTo, McCurrent, McTypes, McFlags, McRecords, McPlaced, McShown, NoAttempt,
           McOwnerType, McStopType
  <2>7. QED
    BY <2>1, <2>2, <2>3, <2>4, <2>5, <2>6 DEF McInv, McTypes
<1>12. CASE CheckHealth
  <2>1. McFlags'
    BY <1>0, <1>02, <1>12, McNats, McFailsWrap DEF CheckHealth, OwnerTo, McTypes, McFlags
  <2>2. McRecords'
    BY <1>0, <1>01, <1>12, McNats, McRecordsTyped
       DEF CheckHealth, OwnerTo, McTypes, McFlags, McRecords, McOwnerPcs, McStopPcs
  <2>3. McPlaced'
    BY <1>0, <1>01, <1>02, <1>12, McNats
       DEF CheckHealth, OwnerTo, McTypes, McFlags, McRecords, McPlaced, NoAttempt, NoTear,
           McAttemptType, McTearType, McOwnerType, McStopType
  <2>4. McOpens'
    BY <1>0, <1>01, <1>02, <1>12, McNats
       DEF CheckHealth, OwnerTo, McTypes, McFlags, McRecords, McPlaced, McOpens, NoAttempt,
           McAttemptType
  <2>5. McLeased'
    BY <1>0, <1>01, <1>02, <1>12, McNats
       DEF CheckHealth, OwnerTo, McTypes, McFlags, McRecords, McPlaced, McLeased, NoAttempt, NoTear,
           McAttemptType, McOwnerType
  <2>6. McShown'
    BY <1>0, <1>01, <1>02, <1>12, McNats
       DEF CheckHealth, OwnerTo, McTypes, McFlags, McRecords, McPlaced, McShown, NoAttempt,
           McOwnerType, McStopType
  <2>7. QED
    BY <2>1, <2>2, <2>3, <2>4, <2>5, <2>6 DEF McInv, McTypes
<1>13. CASE OnDisconnect
  <2>1. McFlags'
    BY <1>0, <1>02, <1>13, McNats DEF OnDisconnect, McTypes, McFlags
  <2>2. McRecords'
    BY <1>0, <1>01, <1>13, McNats, McRecordsTyped
       DEF OnDisconnect, McTypes, McFlags, McRecords, McOwnerPcs, McStopPcs
  <2>3. McPlaced'
    <3>0. /\ mcGen' \in Nat /\ mcGen <= mcGen' /\ mcHandle' = mcHandle /\ mcClient' = mcClient
          /\ mcAttempt'.pc = mcAttempt.pc /\ mcAttempt'.gen = mcAttempt.gen
          /\ mcAttempt = NoAttempt => mcAttempt' = NoAttempt
          /\ mcOwner'.gen = mcOwner.gen /\ (mcOwner'.pc = mcOwner.pc \/ mcOwner'.pc \in {"top", "tearing"})
      <4>1. mcGen' \in Nat /\ mcGen <= mcGen' /\ mcHandle' = mcHandle /\ mcClient' = mcClient
        BY <1>02, <1>13 DEF OnDisconnect
      <4>2. /\ mcAttempt'.pc = mcAttempt.pc /\ mcAttempt'.gen = mcAttempt.gen
            /\ mcAttempt = NoAttempt => mcAttempt' = NoAttempt
        BY <1>0, <1>13, McGivenUp DEF OnDisconnect, McTypes, McRecords, NoAttempt
      <4>3. mcOwner'.gen = mcOwner.gen /\ (mcOwner'.pc = mcOwner.pc \/ mcOwner'.pc \in {"top", "tearing"})
        BY <1>0, <1>13 DEF OnDisconnect, McTypes, McRecords, McOwnerType
      <4>4. QED
        BY <4>1, <4>2, <4>3
    <3>1. IF mcAttempt'.pc = "none" THEN mcAttempt' = NoAttempt ELSE mcAttempt'.gen # 0
      BY <1>0, <1>01, <1>02, <1>13, <3>0 DEF OnDisconnect, McPlaced, NoAttempt, NoTear
    <3>2. IF mcTear'.pc = "none" THEN mcTear' = NoTear ELSE mcHandle' # 0 /\ mcTear'.client = mcHandle' /\ mcHandle' < mcGen'
      BY <1>0, <1>01, <1>02, <1>13, <3>0 DEF OnDisconnect, McPlaced, NoAttempt, NoTear
    <3>3. mcHandle' <= mcGen' /\ mcAttempt'.gen <= mcGen' /\ mcOwner'.gen <= mcGen'
      BY <1>0, <1>01, <1>02, <1>13, <3>0 DEF OnDisconnect, McPlaced, NoAttempt, NoTear
    <3>4. mcHandle' # 0 => mcAttempt' = NoAttempt /\ mcClient'[mcHandle'] = "open"
      BY <1>0, <1>01, <1>02, <1>13, <3>0 DEF OnDisconnect, McPlaced, NoAttempt, NoTear
    <3>5. mcOwner'.pc = "track" => mcHandle' = 0 /\ mcAttempt' = NoAttempt /\ mcTear' = NoTear
      BY <1>0, <1>01, <1>02, <1>13, <3>0 DEF OnDisconnect, McPlaced, NoAttempt, NoTear
    <3>6. mcOwner'.pc \in {"track", "open", "setup", "commit"} => mcOwner'.gen # 0
      BY <1>0, <1>01, <1>02, <1>13, <3>0 DEF OnDisconnect, McPlaced, NoAttempt, NoTear
    <3>7. QED
      BY <3>1, <3>2, <3>3, <3>4, <3>5, <3>6 DEF McPlaced
  <2>4. McOpens'
    BY <1>0, <1>01, <1>02, <1>13, McNats
       DEF OnDisconnect, McTypes, McFlags, McRecords, McPlaced, McOpens, NoAttempt, McAttemptType
  <2>5. McLeased'
    BY <1>0, <1>01, <1>02, <1>13, McNats
       DEF OnDisconnect, McTypes, McFlags, McRecords, McPlaced, McLeased, NoAttempt, NoTear,
           McAttemptType, McOwnerType
  <2>6. McShown'
    BY <1>0, <1>01, <1>02, <1>13, McNats
       DEF OnDisconnect, McTypes, McFlags, McRecords, McPlaced, McShown, NoAttempt, McOwnerType,
           McStopType
  <2>7. QED
    BY <2>1, <2>2, <2>3, <2>4, <2>5, <2>6 DEF McInv, McTypes
<1>14. CASE DiscBegins("owner")
  <2>1. McFlags'
    BY <1>0, <1>02, <1>14, McNats
       DEF DiscBegins, DiscTo, DiscReturns, DiscPc, OwnerTo, Invalidated, McTypes, McFlags
  <2>2. McRecords'
    <3>1. mcClient' \in [McIds -> {"none", "open", "closed"}]
      BY <1>0, <1>01, <1>02, <1>14, McNats, McRecordsTyped
         DEF DiscBegins, DiscTo, DiscReturns, DiscPc, OwnerTo, Invalidated, McTypes, McFlags,
             McRecords, McPlaced, McOwnerPcs, McStopPcs
    <3>2. mcAttempt' \in McAttemptType
      BY <1>0, <1>01, <1>02, <1>14, McNats, McRecordsTyped
         DEF DiscBegins, DiscTo, DiscReturns, DiscPc, OwnerTo, Invalidated, McTypes, McFlags,
             McRecords, McPlaced, McOwnerPcs, McStopPcs
    <3>3. mcTear' \in McTearType
      BY <1>0, <1>01, <1>02, <1>14, McNats, McRecordsTyped
         DEF DiscBegins, DiscTo, DiscReturns, DiscPc, OwnerTo, Invalidated, McTypes, McFlags,
             McRecords, McPlaced, McOwnerPcs, McStopPcs
    <3>4. mcOwner' \in McOwnerType
      BY <1>0, <1>01, <1>02, <1>14, McNats, McRecordsTyped
         DEF DiscBegins, DiscTo, DiscReturns, DiscPc, OwnerTo, Invalidated, McTypes, McFlags,
             McRecords, McPlaced, McOwnerPcs, McStopPcs
    <3>5. mcStop' \in McStopType
      BY <1>0, <1>01, <1>02, <1>14, McNats, McRecordsTyped
         DEF DiscBegins, DiscTo, DiscReturns, DiscPc, OwnerTo, Invalidated, McTypes, McFlags,
             McRecords, McPlaced, McOwnerPcs, McStopPcs
    <3>6. QED
      BY <3>1, <3>2, <3>3, <3>4, <3>5 DEF McRecords
  <2>3. McPlaced'
    <3>0. /\ mcGen' \in Nat /\ mcGen <= mcGen' /\ mcHandle' = mcHandle /\ mcClient' = mcClient
          /\ mcAttempt'.pc = mcAttempt.pc /\ mcAttempt'.gen = mcAttempt.gen
          /\ mcAttempt = NoAttempt => mcAttempt' = NoAttempt
          /\ mcOwner'.gen = mcOwner.gen /\ (mcOwner'.pc = mcOwner.pc \/ mcOwner'.pc \in {"top", "tearing"})
      <4>1. mcGen' \in Nat /\ mcGen <= mcGen' /\ mcHandle' = mcHandle /\ mcClient' = mcClient
        BY <1>02, <1>14 DEF DiscBegins, DiscTo, DiscReturns, DiscPc, OwnerTo, Invalidated
      <4>2. /\ mcAttempt'.pc = mcAttempt.pc /\ mcAttempt'.gen = mcAttempt.gen
            /\ mcAttempt = NoAttempt => mcAttempt' = NoAttempt
        BY <1>0, <1>14, McGivenUp DEF DiscBegins, McTypes, McRecords, NoAttempt
      <4>3. mcOwner'.gen = mcOwner.gen /\ (mcOwner'.pc = mcOwner.pc \/ mcOwner'.pc \in {"top", "tearing"})
        BY <1>0, <1>14
           DEF DiscBegins, DiscTo, DiscReturns, DiscPc, OwnerTo, Invalidated, McTypes, McRecords,
               McOwnerType
      <4>4. QED
        BY <4>1, <4>2, <4>3
    <3>1. IF mcAttempt'.pc = "none" THEN mcAttempt' = NoAttempt ELSE mcAttempt'.gen # 0
      BY <1>0, <1>01, <1>02, <1>14, <3>0
         DEF DiscBegins, DiscTo, DiscReturns, DiscPc, OwnerTo, Invalidated, McPlaced, NoAttempt,
             NoTear
    <3>2. IF mcTear'.pc = "none" THEN mcTear' = NoTear ELSE mcHandle' # 0 /\ mcTear'.client = mcHandle' /\ mcHandle' < mcGen'
      BY <1>0, <1>01, <1>02, <1>14, <3>0
         DEF DiscBegins, DiscTo, DiscReturns, DiscPc, OwnerTo, Invalidated, McPlaced, NoAttempt,
             NoTear
    <3>3. mcHandle' <= mcGen' /\ mcAttempt'.gen <= mcGen' /\ mcOwner'.gen <= mcGen'
      BY <1>0, <1>01, <1>02, <1>14, <3>0
         DEF DiscBegins, DiscTo, DiscReturns, DiscPc, OwnerTo, Invalidated, McPlaced, NoAttempt,
             NoTear
    <3>4. mcHandle' # 0 => mcAttempt' = NoAttempt /\ mcClient'[mcHandle'] = "open"
      BY <1>0, <1>01, <1>02, <1>14, <3>0
         DEF DiscBegins, DiscTo, DiscReturns, DiscPc, OwnerTo, Invalidated, McPlaced, NoAttempt,
             NoTear
    <3>5. mcOwner'.pc = "track" => mcHandle' = 0 /\ mcAttempt' = NoAttempt /\ mcTear' = NoTear
      BY <1>0, <1>01, <1>02, <1>14, <3>0
         DEF DiscBegins, DiscTo, DiscReturns, DiscPc, OwnerTo, Invalidated, McPlaced, NoAttempt,
             NoTear
    <3>6. mcOwner'.pc \in {"track", "open", "setup", "commit"} => mcOwner'.gen # 0
      BY <1>0, <1>01, <1>02, <1>14, <3>0
         DEF DiscBegins, DiscTo, DiscReturns, DiscPc, OwnerTo, Invalidated, McPlaced, NoAttempt,
             NoTear
    <3>7. QED
      BY <3>1, <3>2, <3>3, <3>4, <3>5, <3>6 DEF McPlaced
  <2>4. McOpens'
    BY <1>0, <1>01, <1>02, <1>14, McNats
       DEF DiscBegins, DiscTo, DiscReturns, DiscPc, OwnerTo, Invalidated, McTypes, McFlags,
           McRecords, McPlaced, McOpens, NoAttempt, McAttemptType
  <2>5. McLeased'
    BY <1>0, <1>01, <1>02, <1>14, McNats
       DEF DiscBegins, DiscTo, DiscReturns, DiscPc, OwnerTo, Invalidated, McTypes, McFlags,
           McRecords, McPlaced, McLeased, NoAttempt, NoTear, McAttemptType, McOwnerType
  <2>6. McShown'
    BY <1>0, <1>01, <1>02, <1>14, McNats
       DEF DiscBegins, DiscTo, DiscReturns, DiscPc, OwnerTo, Invalidated, McTypes, McFlags,
           McRecords, McPlaced, McShown, NoAttempt, McOwnerType, McStopType
  <2>7. QED
    BY <2>1, <2>2, <2>3, <2>4, <2>5, <2>6 DEF McInv, McTypes
<1>15. CASE DiscEnds("owner")
  <2>1. McFlags'
    BY <1>0, <1>02, <1>15, McNats DEF DiscEnds, DiscReturns, DiscPc, OwnerTo, McTypes, McFlags
  <2>2. McRecords'
    <3>1. mcClient' \in [McIds -> {"none", "open", "closed"}]
      BY <1>0, <1>01, <1>02, <1>15, McNats, McRecordsTyped
         DEF DiscEnds, DiscReturns, DiscPc, OwnerTo, McTypes, McFlags, McRecords, McPlaced,
             McOwnerPcs, McStopPcs
    <3>2. mcAttempt' \in McAttemptType
      BY <1>0, <1>01, <1>02, <1>15, McNats, McRecordsTyped
         DEF DiscEnds, DiscReturns, DiscPc, OwnerTo, McTypes, McFlags, McRecords, McPlaced,
             McOwnerPcs, McStopPcs
    <3>3. mcTear' \in McTearType
      BY <1>0, <1>01, <1>02, <1>15, McNats, McRecordsTyped
         DEF DiscEnds, DiscReturns, DiscPc, OwnerTo, McTypes, McFlags, McRecords, McPlaced,
             McOwnerPcs, McStopPcs
    <3>4. mcOwner' \in McOwnerType
      BY <1>0, <1>01, <1>02, <1>15, McNats, McRecordsTyped
         DEF DiscEnds, DiscReturns, DiscPc, OwnerTo, McTypes, McFlags, McRecords, McPlaced,
             McOwnerPcs, McStopPcs
    <3>5. mcStop' \in McStopType
      BY <1>0, <1>01, <1>02, <1>15, McNats, McRecordsTyped
         DEF DiscEnds, DiscReturns, DiscPc, OwnerTo, McTypes, McFlags, McRecords, McPlaced,
             McOwnerPcs, McStopPcs
    <3>6. QED
      BY <3>1, <3>2, <3>3, <3>4, <3>5 DEF McRecords
  <2>3. McPlaced'
    BY <1>0, <1>01, <1>02, <1>15, McNats
       DEF DiscEnds, DiscReturns, DiscPc, OwnerTo, McTypes, McFlags, McRecords, McPlaced, NoAttempt,
           NoTear, McAttemptType, McTearType, McOwnerType, McStopType
  <2>4. McOpens'
    BY <1>0, <1>01, <1>02, <1>15, McNats
       DEF DiscEnds, DiscReturns, DiscPc, OwnerTo, McTypes, McFlags, McRecords, McPlaced, McOpens,
           NoAttempt, McAttemptType
  <2>5. McLeased'
    BY <1>0, <1>01, <1>02, <1>15, McNats
       DEF DiscEnds, DiscReturns, DiscPc, OwnerTo, McTypes, McFlags, McRecords, McPlaced, McLeased,
           NoAttempt, NoTear, McAttemptType, McOwnerType
  <2>6. McShown'
    BY <1>0, <1>01, <1>02, <1>15, McNats
       DEF DiscEnds, DiscReturns, DiscPc, OwnerTo, McTypes, McFlags, McRecords, McPlaced, McShown,
           NoAttempt, McOwnerType, McStopType
  <2>7. QED
    BY <2>1, <2>2, <2>3, <2>4, <2>5, <2>6 DEF McInv, McTypes
<1>16. CASE DiscBegins("stop")
  <2>1. McFlags'
    BY <1>0, <1>02, <1>16, McNats
       DEF DiscBegins, DiscTo, DiscReturns, DiscPc, OwnerTo, Invalidated, McTypes, McFlags
  <2>2. McRecords'
    <3>1. mcClient' \in [McIds -> {"none", "open", "closed"}]
      BY <1>0, <1>01, <1>02, <1>16, McNats, McRecordsTyped
         DEF DiscBegins, DiscTo, DiscReturns, DiscPc, OwnerTo, Invalidated, McTypes, McFlags,
             McRecords, McPlaced, McOwnerPcs, McStopPcs
    <3>2. mcAttempt' \in McAttemptType
      BY <1>0, <1>01, <1>02, <1>16, McNats, McRecordsTyped
         DEF DiscBegins, DiscTo, DiscReturns, DiscPc, OwnerTo, Invalidated, McTypes, McFlags,
             McRecords, McPlaced, McOwnerPcs, McStopPcs
    <3>3. mcTear' \in McTearType
      BY <1>0, <1>01, <1>02, <1>16, McNats, McRecordsTyped
         DEF DiscBegins, DiscTo, DiscReturns, DiscPc, OwnerTo, Invalidated, McTypes, McFlags,
             McRecords, McPlaced, McOwnerPcs, McStopPcs
    <3>4. mcOwner' \in McOwnerType
      BY <1>0, <1>01, <1>02, <1>16, McNats, McRecordsTyped
         DEF DiscBegins, DiscTo, DiscReturns, DiscPc, OwnerTo, Invalidated, McTypes, McFlags,
             McRecords, McPlaced, McOwnerPcs, McStopPcs
    <3>5. mcStop' \in McStopType
      BY <1>0, <1>01, <1>02, <1>16, McNats, McRecordsTyped
         DEF DiscBegins, DiscTo, DiscReturns, DiscPc, OwnerTo, Invalidated, McTypes, McFlags,
             McRecords, McPlaced, McOwnerPcs, McStopPcs
    <3>6. QED
      BY <3>1, <3>2, <3>3, <3>4, <3>5 DEF McRecords
  <2>3. McPlaced'
    <3>0. /\ mcGen' \in Nat /\ mcGen <= mcGen' /\ mcHandle' = mcHandle /\ mcClient' = mcClient
          /\ mcAttempt'.pc = mcAttempt.pc /\ mcAttempt'.gen = mcAttempt.gen
          /\ mcAttempt = NoAttempt => mcAttempt' = NoAttempt
          /\ mcOwner'.gen = mcOwner.gen /\ (mcOwner'.pc = mcOwner.pc \/ mcOwner'.pc \in {"top", "tearing"})
      <4>1. mcGen' \in Nat /\ mcGen <= mcGen' /\ mcHandle' = mcHandle /\ mcClient' = mcClient
        BY <1>02, <1>16 DEF DiscBegins, DiscTo, DiscReturns, DiscPc, OwnerTo, Invalidated
      <4>2. /\ mcAttempt'.pc = mcAttempt.pc /\ mcAttempt'.gen = mcAttempt.gen
            /\ mcAttempt = NoAttempt => mcAttempt' = NoAttempt
        BY <1>0, <1>16, McGivenUp DEF DiscBegins, McTypes, McRecords, NoAttempt
      <4>3. mcOwner'.gen = mcOwner.gen /\ (mcOwner'.pc = mcOwner.pc \/ mcOwner'.pc \in {"top", "tearing"})
        BY <1>0, <1>16
           DEF DiscBegins, DiscTo, DiscReturns, DiscPc, OwnerTo, Invalidated, McTypes, McRecords,
               McOwnerType
      <4>4. QED
        BY <4>1, <4>2, <4>3
    <3>1. IF mcAttempt'.pc = "none" THEN mcAttempt' = NoAttempt ELSE mcAttempt'.gen # 0
      BY <1>0, <1>01, <1>02, <1>16, <3>0
         DEF DiscBegins, DiscTo, DiscReturns, DiscPc, OwnerTo, Invalidated, McPlaced, NoAttempt,
             NoTear
    <3>2. IF mcTear'.pc = "none" THEN mcTear' = NoTear ELSE mcHandle' # 0 /\ mcTear'.client = mcHandle' /\ mcHandle' < mcGen'
      BY <1>0, <1>01, <1>02, <1>16, <3>0
         DEF DiscBegins, DiscTo, DiscReturns, DiscPc, OwnerTo, Invalidated, McPlaced, NoAttempt,
             NoTear
    <3>3. mcHandle' <= mcGen' /\ mcAttempt'.gen <= mcGen' /\ mcOwner'.gen <= mcGen'
      BY <1>0, <1>01, <1>02, <1>16, <3>0
         DEF DiscBegins, DiscTo, DiscReturns, DiscPc, OwnerTo, Invalidated, McPlaced, NoAttempt,
             NoTear
    <3>4. mcHandle' # 0 => mcAttempt' = NoAttempt /\ mcClient'[mcHandle'] = "open"
      BY <1>0, <1>01, <1>02, <1>16, <3>0
         DEF DiscBegins, DiscTo, DiscReturns, DiscPc, OwnerTo, Invalidated, McPlaced, NoAttempt,
             NoTear
    <3>5. mcOwner'.pc = "track" => mcHandle' = 0 /\ mcAttempt' = NoAttempt /\ mcTear' = NoTear
      BY <1>0, <1>01, <1>02, <1>16, <3>0
         DEF DiscBegins, DiscTo, DiscReturns, DiscPc, OwnerTo, Invalidated, McPlaced, NoAttempt,
             NoTear
    <3>6. mcOwner'.pc \in {"track", "open", "setup", "commit"} => mcOwner'.gen # 0
      BY <1>0, <1>01, <1>02, <1>16, <3>0
         DEF DiscBegins, DiscTo, DiscReturns, DiscPc, OwnerTo, Invalidated, McPlaced, NoAttempt,
             NoTear
    <3>7. QED
      BY <3>1, <3>2, <3>3, <3>4, <3>5, <3>6 DEF McPlaced
  <2>4. McOpens'
    BY <1>0, <1>01, <1>02, <1>16, McNats
       DEF DiscBegins, DiscTo, DiscReturns, DiscPc, OwnerTo, Invalidated, McTypes, McFlags,
           McRecords, McPlaced, McOpens, NoAttempt, McAttemptType
  <2>5. McLeased'
    BY <1>0, <1>01, <1>02, <1>16, McNats
       DEF DiscBegins, DiscTo, DiscReturns, DiscPc, OwnerTo, Invalidated, McTypes, McFlags,
           McRecords, McPlaced, McLeased, NoAttempt, NoTear, McAttemptType, McOwnerType
  <2>6. McShown'
    BY <1>0, <1>01, <1>02, <1>16, McNats
       DEF DiscBegins, DiscTo, DiscReturns, DiscPc, OwnerTo, Invalidated, McTypes, McFlags,
           McRecords, McPlaced, McShown, NoAttempt, McOwnerType, McStopType
  <2>7. QED
    BY <2>1, <2>2, <2>3, <2>4, <2>5, <2>6 DEF McInv, McTypes
<1>17. CASE DiscEnds("stop")
  <2>1. McFlags'
    BY <1>0, <1>02, <1>17, McNats DEF DiscEnds, DiscReturns, DiscPc, OwnerTo, McTypes, McFlags
  <2>2. McRecords'
    <3>1. mcClient' \in [McIds -> {"none", "open", "closed"}]
      BY <1>0, <1>01, <1>02, <1>17, McNats, McRecordsTyped
         DEF DiscEnds, DiscReturns, DiscPc, OwnerTo, McTypes, McFlags, McRecords, McPlaced,
             McOwnerPcs, McStopPcs
    <3>2. mcAttempt' \in McAttemptType
      BY <1>0, <1>01, <1>02, <1>17, McNats, McRecordsTyped
         DEF DiscEnds, DiscReturns, DiscPc, OwnerTo, McTypes, McFlags, McRecords, McPlaced,
             McOwnerPcs, McStopPcs
    <3>3. mcTear' \in McTearType
      BY <1>0, <1>01, <1>02, <1>17, McNats, McRecordsTyped
         DEF DiscEnds, DiscReturns, DiscPc, OwnerTo, McTypes, McFlags, McRecords, McPlaced,
             McOwnerPcs, McStopPcs
    <3>4. mcOwner' \in McOwnerType
      BY <1>0, <1>01, <1>02, <1>17, McNats, McRecordsTyped
         DEF DiscEnds, DiscReturns, DiscPc, OwnerTo, McTypes, McFlags, McRecords, McPlaced,
             McOwnerPcs, McStopPcs
    <3>5. mcStop' \in McStopType
      BY <1>0, <1>01, <1>02, <1>17, McNats, McRecordsTyped
         DEF DiscEnds, DiscReturns, DiscPc, OwnerTo, McTypes, McFlags, McRecords, McPlaced,
             McOwnerPcs, McStopPcs
    <3>6. QED
      BY <3>1, <3>2, <3>3, <3>4, <3>5 DEF McRecords
  <2>3. McPlaced'
    BY <1>0, <1>01, <1>02, <1>17, McNats
       DEF DiscEnds, DiscReturns, DiscPc, OwnerTo, McTypes, McFlags, McRecords, McPlaced, NoAttempt,
           NoTear, McAttemptType, McTearType, McOwnerType, McStopType
  <2>4. McOpens'
    BY <1>0, <1>01, <1>02, <1>17, McNats
       DEF DiscEnds, DiscReturns, DiscPc, OwnerTo, McTypes, McFlags, McRecords, McPlaced, McOpens,
           NoAttempt, McAttemptType
  <2>5. McLeased'
    BY <1>0, <1>01, <1>02, <1>17, McNats
       DEF DiscEnds, DiscReturns, DiscPc, OwnerTo, McTypes, McFlags, McRecords, McPlaced, McLeased,
           NoAttempt, NoTear, McAttemptType, McOwnerType
  <2>6. McShown'
    BY <1>0, <1>01, <1>02, <1>17, McNats
       DEF DiscEnds, DiscReturns, DiscPc, OwnerTo, McTypes, McFlags, McRecords, McPlaced, McShown,
           NoAttempt, McOwnerType, McStopType
  <2>7. QED
    BY <2>1, <2>2, <2>3, <2>4, <2>5, <2>6 DEF McInv, McTypes
<1>18. CASE TearEnds
  <2>1. McFlags'
    BY <1>0, <1>02, <1>18, McNats DEF TearEnds, McTypes, McFlags
  <2>2. McRecords'
    BY <1>0, <1>01, <1>18, McNats, McRecordsTyped
       DEF TearEnds, McTypes, McFlags, McRecords, McOwnerPcs, McStopPcs
  <2>3. McPlaced'
    BY <1>0, <1>01, <1>02, <1>18, McNats
       DEF TearEnds, McTypes, McFlags, McRecords, McPlaced, NoAttempt, NoTear, McAttemptType,
           McTearType, McOwnerType, McStopType
  <2>4. McOpens'
    BY <1>0, <1>01, <1>02, <1>18, McNats
       DEF TearEnds, McTypes, McFlags, McRecords, McPlaced, McOpens, NoAttempt, McAttemptType
  <2>5. McLeased'
    BY <1>0, <1>01, <1>02, <1>18, McNats
       DEF TearEnds, McTypes, McFlags, McRecords, McPlaced, McLeased, NoAttempt, NoTear,
           McAttemptType, McOwnerType
  <2>6. McShown'
    BY <1>0, <1>01, <1>02, <1>18, McNats
       DEF TearEnds, McTypes, McFlags, McRecords, McPlaced, McShown, NoAttempt, McOwnerType,
           McStopType
  <2>7. QED
    BY <2>1, <2>2, <2>3, <2>4, <2>5, <2>6 DEF McInv, McTypes
<1>19. CASE McStops
  <2>1. McFlags'
    BY <1>0, <1>02, <1>19, McNats DEF McStops, McTypes, McFlags
  <2>2. McRecords'
    BY <1>0, <1>01, <1>19, McNats, McRecordsTyped
       DEF McStops, McTypes, McFlags, McRecords, McOwnerPcs, McStopPcs
  <2>3. McPlaced'
    BY <1>0, <1>01, <1>02, <1>19, McNats
       DEF McStops, McTypes, McFlags, McRecords, McPlaced, NoAttempt, NoTear, McAttemptType,
           McTearType, McOwnerType, McStopType
  <2>4. McOpens'
    BY <1>0, <1>01, <1>02, <1>19, McNats
       DEF McStops, McTypes, McFlags, McRecords, McPlaced, McOpens, NoAttempt, McAttemptType
  <2>5. McLeased'
    BY <1>0, <1>01, <1>02, <1>19, McNats
       DEF McStops, McTypes, McFlags, McRecords, McPlaced, McLeased, NoAttempt, NoTear,
           McAttemptType, McOwnerType
  <2>6. McShown'
    BY <1>0, <1>01, <1>02, <1>19, McNats
       DEF McStops, McTypes, McFlags, McRecords, McPlaced, McShown, NoAttempt, McOwnerType,
           McStopType
  <2>7. QED
    BY <2>1, <2>2, <2>3, <2>4, <2>5, <2>6 DEF McInv, McTypes
<1>20. CASE StopsLoop
  <2>1. McFlags'
    BY <1>0, <1>02, <1>20, McNats DEF StopsLoop, McTypes, McFlags
  <2>2. McRecords'
    BY <1>0, <1>01, <1>20, McNats, McRecordsTyped
       DEF StopsLoop, McTypes, McFlags, McRecords, McOwnerPcs, McStopPcs
  <2>3. McPlaced'
    BY <1>0, <1>01, <1>02, <1>20, McNats
       DEF StopsLoop, McTypes, McFlags, McRecords, McPlaced, NoAttempt, NoTear, McAttemptType,
           McTearType, McOwnerType, McStopType
  <2>4. McOpens'
    BY <1>0, <1>01, <1>02, <1>20, McNats
       DEF StopsLoop, McTypes, McFlags, McRecords, McPlaced, McOpens, NoAttempt, McAttemptType
  <2>5. McLeased'
    BY <1>0, <1>01, <1>02, <1>20, McNats
       DEF StopsLoop, McTypes, McFlags, McRecords, McPlaced, McLeased, NoAttempt, NoTear,
           McAttemptType, McOwnerType
  <2>6. McShown'
    BY <1>0, <1>01, <1>02, <1>20, McNats
       DEF StopsLoop, McTypes, McFlags, McRecords, McPlaced, McShown, NoAttempt, McOwnerType,
           McStopType
  <2>7. QED
    BY <2>1, <2>2, <2>3, <2>4, <2>5, <2>6 DEF McInv, McTypes
<1>21. CASE ReleasesPort
  <2>1. McFlags'
    BY <1>0, <1>02, <1>21, McNats DEF ReleasesPort, McTypes, McFlags
  <2>2. McRecords'
    BY <1>0, <1>01, <1>21, McNats, McRecordsTyped
       DEF ReleasesPort, McTypes, McFlags, McRecords, McOwnerPcs, McStopPcs
  <2>3. McPlaced'
    BY <1>0, <1>01, <1>02, <1>21, McNats
       DEF ReleasesPort, McTypes, McFlags, McRecords, McPlaced, NoAttempt, NoTear, McAttemptType,
           McTearType, McOwnerType, McStopType
  <2>4. McOpens'
    BY <1>0, <1>01, <1>02, <1>21, McNats
       DEF ReleasesPort, McTypes, McFlags, McRecords, McPlaced, McOpens, NoAttempt, McAttemptType
  <2>5. McLeased'
    BY <1>0, <1>01, <1>02, <1>21, McNats
       DEF ReleasesPort, McTypes, McFlags, McRecords, McPlaced, McLeased, NoAttempt, NoTear,
           McAttemptType, McOwnerType
  <2>6. McShown'
    BY <1>0, <1>01, <1>02, <1>21, McNats
       DEF ReleasesPort, McTypes, McFlags, McRecords, McPlaced, McShown, NoAttempt, McOwnerType,
           McStopType
  <2>7. QED
    BY <2>1, <2>2, <2>3, <2>4, <2>5, <2>6 DEF McInv, McTypes
<1>22. CASE UNCHANGED mcVars
  BY <1>0, <1>22
     DEF mcVars, McInv, McTypes, McFlags, McRecords, McPlaced, McOpens, McLeased, McShown
<1>23. QED
  BY <1>1, <1>2, <1>3, <1>4, <1>5, <1>6, <1>7, <1>8, <1>9, <1>10, <1>11, <1>12, <1>13, <1>14, <1>15,
     <1>16, <1>17, <1>18, <1>19, <1>20, <1>21, <1>22
     DEF McNext, McOwnerStep, McLoopStep, McStopStep

LEMMA McInvImplies == McInv => McTypeOK /\ OneMeshCoreClient /\ McLeaseCoversDevice /\ ConnectedIsCurrent
<1> SUFFICES ASSUME McInv
             PROVE  McTypeOK /\ OneMeshCoreClient /\ McLeaseCoversDevice /\ ConnectedIsCurrent
  OBVIOUS
<1>0. McTypes /\ McPlaced /\ McOpens /\ McLeased /\ McShown
  BY DEF McInv
<1>1. McTypeOK
  BY <1>0 DEF McTypes, McFlags, McRecords, McAttemptType, McTearType, McTypeOK
<1>2. McAtDevice \subseteq {mcHandle} \/ McAtDevice \subseteq {mcAttempt.gen}
  <2>1. CASE mcHandle # 0
    BY <1>0, <2>1 DEF McAtDevice, McOpens, McPlaced, NoAttempt
  <2>2. CASE mcHandle = 0
    BY <1>0, <2>2, McNats DEF McAtDevice, McOpens
  <2>3. QED
    BY <2>1, <2>2
<1>3. McAtDevice = {} \/ McAtDevice = {mcHandle} \/ McAtDevice = {mcAttempt.gen}
  BY <1>2
<1>31. Cardinality({mcHandle}) = 1 /\ Cardinality({mcAttempt.gen}) = 1
  BY FS_Singleton
<1>4. OneMeshCoreClient
  BY <1>3, <1>31, FS_EmptySet DEF OneMeshCoreClient
<1>5. McLeaseCoversDevice
  BY <1>0, McNats DEF McAtDevice, McLeaseCoversDevice, McLeased, McOpens, McRecords, McTypes
<1>6. ConnectedIsCurrent
  BY <1>0 DEF ConnectedIsCurrent, McShown, McPlaced, McTypes, McFlags
<1>7. QED
  BY <1>1, <1>4, <1>5, <1>6
-----------------------------------------------------------------------------
(***************************************************************************)
(* The observer that borrows the gateway's client, for any number of       *)
(* clients and attachments.  Whoever attaches holds a client and a         *)
(* generation; a stopped observer is not attached again.                   *)
(***************************************************************************)

ObSubType == [client : 1..ObClients, gen : 1..ObGens]
ObTearType == [mc : 0..ObClients, subs : SUBSET ObSubType]
ObPcs == {"idle", "borrow", "publish", "subscribe", "register", "probe", "commit", "detach",
          "snapshot", "wait", "done"}
ObThreadType == [pc : ObPcs, gen : 0..ObGens, mc : 0..ObClients, attaching : BOOLEAN]

ObFlags ==
    /\ obActive \in BOOLEAN /\ obOn \in BOOLEAN /\ obGen \in Nat
    /\ obMc \in 0..ObClients /\ obGw \in 0..ObClients
    /\ obLock \in ObThreads \cup {"none"}
    /\ obEvents \subseteq {"connected", "stopping", "disconnected"}
ObKnown ==
    /\ obSubs \subseteq ObSubType /\ obTable \subseteq ObSubType
    /\ obTear \in ObTearType
ObThreadTypes == obThread \in [ObThreads -> ObThreadType]

ObHoldsAt(t) ==
    /\ obThread[t].pc \in {"borrow", "publish", "subscribe", "register"} => obThread[t].gen # 0
    /\ obThread[t].pc \in {"publish", "subscribe", "register"} => obThread[t].mc # 0
ObHolds == \A t \in ObThreads : ObHoldsAt(t)

ObStopped ==
    /\ obThread["stop"].pc \in {"idle", "detach", "snapshot", "wait", "done"}
    /\ obThread["stop"].pc # "idle" => ~obActive
    /\ obThread["stop"].pc \in {"snapshot", "wait", "done"} => ~obOn

ObInv == ObFlags /\ ObKnown /\ ObThreadTypes /\ ObHolds /\ ObStopped

-----------------------------------------------------------------------------
LEMMA ObNats ==
    /\ 0 \in 0..ObClients /\ 0 \in 0..ObGens
    /\ 1..ObClients \subseteq 0..ObClients
    /\ \A n \in Nat : n + 1 \in Nat /\ (n < ObGens => n + 1 \in 0..ObGens /\ n + 1 # 0)
    /\ \A n \in 0..ObClients : n # 0 => n \in 1..ObClients
    /\ \A n \in 0..ObGens : n # 0 => n \in 1..ObGens
BY MeshCoreObserverAssumption

LEMMA ObThreadsTyped ==
    /\ ObIdle \in ObThreadType /\ ObNoTear \in ObTearType
    /\ \A h \in ObThreadType, pc \in ObPcs : [h EXCEPT !.pc = pc] \in ObThreadType
    /\ \A g \in 0..ObGens : [pc |-> "borrow", gen |-> g, mc |-> 0, attaching |-> TRUE] \in ObThreadType
    /\ \A m \in 0..ObClients, s \in SUBSET ObSubType : [mc |-> m, subs |-> s] \in ObTearType
    /\ [ObIdle EXCEPT !.pc = "done"] \in ObThreadType /\ [ObIdle EXCEPT !.pc = "idle"] \in ObThreadType
BY ObNats DEF ObIdle, ObNoTear, ObThreadType, ObTearType, ObPcs, ObSubType

LEMMA ObSubTyped ==
    ASSUME ObThreadTypes, ObHolds, NEW t \in ObThreads, obThread[t].pc \in {"subscribe", "register"}
    PROVE  Sub(t) \in ObSubType
BY ObNats DEF Sub, ObHolds, ObHoldsAt, ObThreadTypes, ObThreadType, ObSubType

LEMMA ObInitInv == ObInit => ObInv
<1> SUFFICES ASSUME ObInit PROVE ObInv
  OBVIOUS
<1>1. ObFlags /\ ObKnown
  BY ObNats, ObThreadsTyped DEF ObInit, ObFlags, ObKnown
<1>2. ObThreadTypes
  BY ObThreadsTyped DEF ObInit, ObThreadTypes
<1>3. ObHolds /\ ObStopped
  BY DEF ObInit, ObHolds, ObHoldsAt, ObStopped, ObIdle, ObThreads
<1>4. QED
  BY <1>1, <1>2, <1>3 DEF ObInv

LEMMA ObStepKeeps == ObInv /\ [ObNext]_obVars => ObInv'
<1> SUFFICES ASSUME ObInv, [ObNext]_obVars PROVE ObInv'
  OBVIOUS
<1>0. ObFlags /\ ObKnown /\ ObThreadTypes /\ ObHolds /\ ObStopped
  BY DEF ObInv
<1>01. \A t \in ObThreads : obThread[t] \in ObThreadType
  BY <1>0 DEF ObThreadTypes
<1>02. "stop" \in ObThreads
  BY DEF ObThreads
<1>1. CASE GatewayMoves
  <2>1. obThread' = obThread
    BY <1>1 DEF GatewayMoves
  <2>3. ObThreadTypes'
    BY <1>0, <2>1 DEF ObThreadTypes
  <2>5. ObFlags'
    BY <1>0, <1>1, ObNats DEF GatewayMoves, ObFlags
  <2>6. ObKnown'
    BY <1>0, <1>1, ObNats, ObThreadsTyped DEF GatewayMoves, ObKnown, ObFlags
  <2>7. ObHolds'
    BY <1>0, <2>1 DEF ObHolds, ObHoldsAt
  <2>8. ObStopped'
    BY <1>0, <1>1, <2>1 DEF GatewayMoves, ObStopped
  <2>9. QED
    BY <2>3, <2>5, <2>6, <2>7, <2>8 DEF ObInv
<1>2. CASE IgnoresEvent
  <2>1. obThread' = obThread
    BY <1>2 DEF IgnoresEvent
  <2>3. ObThreadTypes'
    BY <1>0, <2>1 DEF ObThreadTypes
  <2>5. ObFlags'
    BY <1>0, <1>2, ObNats DEF IgnoresEvent, ObFlags
  <2>6. ObKnown'
    BY <1>0, <1>2, ObNats, ObThreadsTyped DEF IgnoresEvent, ObKnown, ObFlags
  <2>7. ObHolds'
    BY <1>0, <2>1 DEF ObHolds, ObHoldsAt
  <2>8. ObStopped'
    BY <1>0, <1>2, <2>1 DEF IgnoresEvent, ObStopped
  <2>9. QED
    BY <2>3, <2>5, <2>6, <2>7, <2>8 DEF ObInv
<1>3. CASE UnsubscribesShared
  <2>1. obThread' = obThread
    BY <1>3 DEF UnsubscribesShared
  <2>3. ObThreadTypes'
    BY <1>0, <2>1 DEF ObThreadTypes
  <2>5. ObFlags'
    BY <1>0, <1>3, ObNats DEF UnsubscribesShared, ObFlags, ObTearType, ObKnown
  <2>6. ObKnown'
    BY <1>0, <1>3, ObNats, ObThreadsTyped
       DEF UnsubscribesShared, ObKnown, ObFlags, ObTearType, ObNoTear
  <2>7. ObHolds'
    BY <1>0, <2>1 DEF ObHolds, ObHoldsAt
  <2>8. ObStopped'
    BY <1>0, <1>3, <2>1 DEF UnsubscribesShared, ObStopped
  <2>9. QED
    BY <2>3, <2>5, <2>6, <2>7, <2>8 DEF ObInv
<1>4. CASE ObStops
  <2>0. "stop" \in ObThreads /\ obThread["stop"] \in ObThreadType
    BY <1>01, <1>02
  <2>1. obThread' = [obThread EXCEPT !["stop"] = obThread'["stop"]]
    BY <1>0, <1>4, <2>0 DEF ObStops, ObTo, ObThreadTypes
  <2>2. obThread'["stop"] \in ObThreadType
    BY <1>0, <1>4, <2>0, ObNats, ObThreadsTyped DEF ObStops, ObTo, ObThreadTypes, ObFlags, ObPcs
  <2>3. ObThreadTypes'
    BY <1>0, <2>0, <2>1, <2>2 DEF ObThreadTypes
  <2>4. \A u \in ObThreads : u # "stop" => obThread'[u] = obThread[u]
    BY <1>0, <2>1 DEF ObThreadTypes
  <2>5. ObFlags'
    BY <1>0, <1>4, ObNats, <2>0, <1>01 DEF ObStops, ObTo, ObFlags, ObThreadType
  <2>6. ObKnown'
    BY <1>0, <1>4, ObNats, ObThreadsTyped, <2>0, <1>01 DEF ObStops, ObTo, ObKnown, ObFlags
  <2>7. ObHolds'
    <3>1. ObHoldsAt("stop")'
      BY <1>0, <1>4, <2>0, ObNats
         DEF ObStops, ObTo, ObHolds, ObHoldsAt, ObThreadTypes, ObThreadType, ObIdle, ObFlags
    <3>2. QED
      BY <1>0, <2>0, <2>4, <3>1 DEF ObHolds, ObHoldsAt
  <2>8. ObStopped'
    BY <1>0, <1>02, <1>4, <2>0, <2>4
       DEF ObStops, ObTo, ObStopped, ObFlags, ObThreadTypes, ObThreadType, ObIdle
  <2>9. QED
    BY <2>3, <2>5, <2>6, <2>7, <2>8 DEF ObInv
<1>5. ASSUME NEW t \in ObThreads \ {"stop"}, AttachBegins(t) PROVE ObInv'
  <2>0. t \in ObThreads /\ obThread[t] \in ObThreadType
    BY <1>01, <1>02, <1>5
  <2>1. obThread' = [obThread EXCEPT ![t] = obThread'[t]]
    BY <1>0, <1>5, <2>0 DEF AttachBegins, ObThreadTypes
  <2>2. obThread'[t] \in ObThreadType
    BY <1>0, <1>5, <2>0, ObNats, ObThreadsTyped DEF AttachBegins, ObThreadTypes, ObFlags, ObPcs
  <2>3. ObThreadTypes'
    BY <1>0, <2>0, <2>1, <2>2 DEF ObThreadTypes
  <2>4. \A u \in ObThreads : u # t => obThread'[u] = obThread[u]
    BY <1>0, <2>1 DEF ObThreadTypes
  <2>5. ObFlags'
    BY <1>0, <1>5, ObNats, <2>0, <1>01 DEF AttachBegins, ObFlags, ObThreadType
  <2>6. ObKnown'
    BY <1>0, <1>5, ObNats, ObThreadsTyped, <2>0, <1>01 DEF AttachBegins, ObKnown, ObFlags
  <2>7. ObHolds'
    <3>1. ObHoldsAt(t)'
      BY <1>0, <1>5, <2>0, ObNats
         DEF AttachBegins, ObHolds, ObHoldsAt, ObThreadTypes, ObThreadType, ObIdle, ObFlags
    <3>2. QED
      BY <1>0, <2>0, <2>4, <3>1 DEF ObHolds, ObHoldsAt
  <2>8. ObStopped'
    BY <1>0, <1>02, <1>5, <2>0, <2>4
       DEF AttachBegins, ObStopped, ObFlags, ObThreadTypes, ObThreadType, ObIdle
  <2>9. QED
    BY <2>3, <2>5, <2>6, <2>7, <2>8 DEF ObInv
<1>6. ASSUME NEW t \in ObThreads \ {"stop"}, DetachWanted(t) PROVE ObInv'
  <2>0. t \in ObThreads /\ obThread[t] \in ObThreadType
    BY <1>01, <1>02, <1>6
  <2>1. obThread' = [obThread EXCEPT ![t] = obThread'[t]]
    BY <1>0, <1>6, <2>0 DEF DetachWanted, ObTo, ObThreadTypes
  <2>2. obThread'[t] \in ObThreadType
    BY <1>0, <1>6, <2>0, ObNats, ObThreadsTyped
       DEF DetachWanted, ObTo, ObThreadTypes, ObFlags, ObPcs
  <2>3. ObThreadTypes'
    BY <1>0, <2>0, <2>1, <2>2 DEF ObThreadTypes
  <2>4. \A u \in ObThreads : u # t => obThread'[u] = obThread[u]
    BY <1>0, <2>1 DEF ObThreadTypes
  <2>5. ObFlags'
    BY <1>0, <1>6, ObNats, <2>0, <1>01 DEF DetachWanted, ObTo, ObFlags, ObThreadType
  <2>6. ObKnown'
    BY <1>0, <1>6, ObNats, ObThreadsTyped, <2>0, <1>01 DEF DetachWanted, ObTo, ObKnown, ObFlags
  <2>7. ObHolds'
    <3>1. ObHoldsAt(t)'
      BY <1>0, <1>6, <2>0, ObNats
         DEF DetachWanted, ObTo, ObHolds, ObHoldsAt, ObThreadTypes, ObThreadType, ObIdle, ObFlags
    <3>2. QED
      BY <1>0, <2>0, <2>4, <3>1 DEF ObHolds, ObHoldsAt
  <2>8. ObStopped'
    BY <1>0, <1>02, <1>6, <2>0, <2>4
       DEF DetachWanted, ObTo, ObStopped, ObFlags, ObThreadTypes, ObThreadType, ObIdle
  <2>9. QED
    BY <2>3, <2>5, <2>6, <2>7, <2>8 DEF ObInv
<1>7. ASSUME NEW t \in ObThreads, BorrowsClient(t) PROVE ObInv'
  <2>0. t \in ObThreads /\ obThread[t] \in ObThreadType
    BY <1>01, <1>02, <1>7
  <2>1. obThread' = [obThread EXCEPT ![t] = obThread'[t]]
    BY <1>0, <1>7, <2>0 DEF BorrowsClient, ObReturns, ObThreadTypes
  <2>2. obThread'[t] \in ObThreadType
    <3>1. CASE obGw = 0
      BY <1>0, <1>7, <2>0, <3>1, ObThreadsTyped DEF BorrowsClient, ObReturns, ObThreadTypes
    <3>2. CASE obGw # 0
      <4>1. obThread'[t] = [[obThread[t] EXCEPT !.pc = "publish"] EXCEPT !.mc = obGw]
        BY <1>0, <1>7, <2>0, <3>2 DEF BorrowsClient, ObReturns, ObThreadTypes
      <4>2. QED
        BY <1>0, <2>0, <4>1 DEF ObFlags, ObThreadType, ObPcs
    <3>3. QED
      BY <3>1, <3>2
  <2>3. ObThreadTypes'
    BY <1>0, <2>0, <2>1, <2>2 DEF ObThreadTypes
  <2>4. \A u \in ObThreads : u # t => obThread'[u] = obThread[u]
    BY <1>0, <2>1 DEF ObThreadTypes
  <2>5. ObFlags'
    BY <1>0, <1>7, ObNats, <2>0, <1>01 DEF BorrowsClient, ObReturns, ObFlags, ObThreadType
  <2>6. ObKnown'
    BY <1>0, <1>7, ObNats, ObThreadsTyped, <2>0, <1>01
       DEF BorrowsClient, ObReturns, ObKnown, ObFlags
  <2>7. ObHolds'
    <3>1. ObHoldsAt(t)'
      BY <1>0, <1>7, <2>0, ObNats
         DEF BorrowsClient, ObReturns, ObHolds, ObHoldsAt, ObThreadTypes, ObThreadType, ObIdle,
             ObFlags
    <3>2. QED
      BY <1>0, <2>0, <2>4, <3>1 DEF ObHolds, ObHoldsAt
  <2>8. ObStopped'
    BY <1>0, <1>02, <1>7, <2>0, <2>4
       DEF BorrowsClient, ObReturns, ObStopped, ObFlags, ObThreadTypes, ObThreadType, ObIdle
  <2>9. QED
    BY <2>3, <2>5, <2>6, <2>7, <2>8 DEF ObInv
<1>8. ASSUME NEW t \in ObThreads, PublishesBorrowed(t) PROVE ObInv'
  <2>0. t \in ObThreads /\ obThread[t] \in ObThreadType
    BY <1>01, <1>02, <1>8
  <2>1. obThread' = [obThread EXCEPT ![t] = obThread'[t]]
    BY <1>0, <1>8, <2>0 DEF PublishesBorrowed, ObTo, ObReturns, ObThreadTypes
  <2>2. obThread'[t] \in ObThreadType
    BY <1>0, <1>8, <2>0, ObNats, ObThreadsTyped
       DEF PublishesBorrowed, ObTo, ObReturns, ObThreadTypes, ObFlags, ObPcs
  <2>3. ObThreadTypes'
    BY <1>0, <2>0, <2>1, <2>2 DEF ObThreadTypes
  <2>4. \A u \in ObThreads : u # t => obThread'[u] = obThread[u]
    BY <1>0, <2>1 DEF ObThreadTypes
  <2>5. ObFlags'
    BY <1>0, <1>8, ObNats, <2>0, <1>01 DEF PublishesBorrowed, ObTo, ObReturns, ObFlags, ObThreadType
  <2>6. ObKnown'
    BY <1>0, <1>8, ObNats, ObThreadsTyped, <2>0, <1>01
       DEF PublishesBorrowed, ObTo, ObReturns, ObKnown, ObFlags
  <2>7. ObHolds'
    <3>1. ObHoldsAt(t)'
      BY <1>0, <1>8, <2>0, ObNats
         DEF PublishesBorrowed, ObTo, ObReturns, ObHolds, ObHoldsAt, ObThreadTypes, ObThreadType,
             ObIdle, ObFlags
    <3>2. QED
      BY <1>0, <2>0, <2>4, <3>1 DEF ObHolds, ObHoldsAt
  <2>8. ObStopped'
    BY <1>0, <1>02, <1>8, <2>0, <2>4
       DEF PublishesBorrowed, ObTo, ObReturns, ObStopped, ObFlags, ObThreadTypes, ObThreadType,
           ObIdle
  <2>9. QED
    BY <2>3, <2>5, <2>6, <2>7, <2>8 DEF ObInv
<1>9. ASSUME NEW t \in ObThreads, Subscribes(t) PROVE ObInv'
  <2>0. t \in ObThreads /\ obThread[t] \in ObThreadType
    BY <1>01, <1>02, <1>9
  <2>1. obThread' = [obThread EXCEPT ![t] = obThread'[t]]
    BY <1>0, <1>9, <2>0 DEF Subscribes, ObTo, ObThreadTypes
  <2>2. obThread'[t] \in ObThreadType
    BY <1>0, <1>9, <2>0, ObNats, ObThreadsTyped DEF Subscribes, ObTo, ObThreadTypes, ObFlags, ObPcs
  <2>3. ObThreadTypes'
    BY <1>0, <2>0, <2>1, <2>2 DEF ObThreadTypes
  <2>4. \A u \in ObThreads : u # t => obThread'[u] = obThread[u]
    BY <1>0, <2>1 DEF ObThreadTypes
  <2>5. ObFlags'
    BY <1>0, <1>9, ObNats, <2>0 DEF Subscribes, ObTo, ObFlags, ObThreadType
  <2>6. ObKnown'
    BY <1>0, <1>9, ObNats, ObThreadsTyped, <2>0, ObSubTyped DEF Subscribes, ObTo, ObKnown, ObFlags
  <2>7. ObHolds'
    <3>1. ObHoldsAt(t)'
      BY <1>0, <1>9, <2>0, ObNats
         DEF Subscribes, ObTo, ObHolds, ObHoldsAt, ObThreadTypes, ObThreadType, ObIdle, ObFlags
    <3>2. QED
      BY <1>0, <2>0, <2>4, <3>1 DEF ObHolds, ObHoldsAt
  <2>8. ObStopped'
    BY <1>0, <1>02, <1>9, <2>0, <2>4
       DEF Subscribes, ObTo, ObStopped, ObFlags, ObThreadTypes, ObThreadType, ObIdle
  <2>9. QED
    BY <2>3, <2>5, <2>6, <2>7, <2>8 DEF ObInv
<1>10. ASSUME NEW t \in ObThreads, RegistersSub(t) PROVE ObInv'
  <2>0. t \in ObThreads /\ obThread[t] \in ObThreadType
    BY <1>01, <1>02, <1>10
  <2>1. obThread' = [obThread EXCEPT ![t] = obThread'[t]]
    BY <1>0, <1>10, <2>0 DEF RegistersSub, ObTo, ObIsMine, ObThreadTypes
  <2>2. obThread'[t] \in ObThreadType
    BY <1>0, <1>10, <2>0, ObNats, ObThreadsTyped
       DEF RegistersSub, ObTo, ObIsMine, ObThreadTypes, ObFlags, ObPcs
  <2>3. ObThreadTypes'
    BY <1>0, <2>0, <2>1, <2>2 DEF ObThreadTypes
  <2>4. \A u \in ObThreads : u # t => obThread'[u] = obThread[u]
    BY <1>0, <2>1 DEF ObThreadTypes
  <2>5. ObFlags'
    BY <1>0, <1>10, ObNats, <2>0 DEF RegistersSub, ObTo, ObIsMine, ObFlags, ObThreadType
  <2>6. ObKnown'
    BY <1>0, <1>10, ObNats, ObThreadsTyped, <2>0, ObSubTyped
       DEF RegistersSub, ObTo, ObIsMine, ObKnown, ObFlags
  <2>7. ObHolds'
    <3>1. ObHoldsAt(t)'
      BY <1>0, <1>10, <2>0, ObNats
         DEF RegistersSub, ObTo, ObIsMine, ObHolds, ObHoldsAt, ObThreadTypes, ObThreadType, ObIdle,
             ObFlags
    <3>2. QED
      BY <1>0, <2>0, <2>4, <3>1 DEF ObHolds, ObHoldsAt
  <2>8. ObStopped'
    BY <1>0, <1>02, <1>10, <2>0, <2>4
       DEF RegistersSub, ObTo, ObIsMine, ObStopped, ObFlags, ObThreadTypes, ObThreadType, ObIdle
  <2>9. QED
    BY <2>3, <2>5, <2>6, <2>7, <2>8 DEF ObInv
<1>11. ASSUME NEW t \in ObThreads, ProbesSigning(t) PROVE ObInv'
  <2>0. t \in ObThreads /\ obThread[t] \in ObThreadType
    BY <1>01, <1>02, <1>11
  <2>1. obThread' = [obThread EXCEPT ![t] = obThread'[t]]
    BY <1>0, <1>11, <2>0 DEF ProbesSigning, ObTo, ObThreadTypes
  <2>2. obThread'[t] \in ObThreadType
    BY <1>0, <1>11, <2>0, ObNats, ObThreadsTyped
       DEF ProbesSigning, ObTo, ObThreadTypes, ObFlags, ObPcs
  <2>3. ObThreadTypes'
    BY <1>0, <2>0, <2>1, <2>2 DEF ObThreadTypes
  <2>4. \A u \in ObThreads : u # t => obThread'[u] = obThread[u]
    BY <1>0, <2>1 DEF ObThreadTypes
  <2>5. ObFlags'
    BY <1>0, <1>11, ObNats, <2>0, <1>01 DEF ProbesSigning, ObTo, ObFlags, ObThreadType
  <2>6. ObKnown'
    BY <1>0, <1>11, ObNats, ObThreadsTyped, <2>0, <1>01 DEF ProbesSigning, ObTo, ObKnown, ObFlags
  <2>7. ObHolds'
    <3>1. ObHoldsAt(t)'
      BY <1>0, <1>11, <2>0, ObNats
         DEF ProbesSigning, ObTo, ObHolds, ObHoldsAt, ObThreadTypes, ObThreadType, ObIdle, ObFlags
    <3>2. QED
      BY <1>0, <2>0, <2>4, <3>1 DEF ObHolds, ObHoldsAt
  <2>8. ObStopped'
    BY <1>0, <1>02, <1>11, <2>0, <2>4
       DEF ProbesSigning, ObTo, ObStopped, ObFlags, ObThreadTypes, ObThreadType, ObIdle
  <2>9. QED
    BY <2>3, <2>5, <2>6, <2>7, <2>8 DEF ObInv
<1>12. ASSUME NEW t \in ObThreads, CommitsAttach(t) PROVE ObInv'
  <2>0. t \in ObThreads /\ obThread[t] \in ObThreadType
    BY <1>01, <1>02, <1>12
  <2>1. obThread' = [obThread EXCEPT ![t] = obThread'[t]]
    BY <1>0, <1>12, <2>0 DEF CommitsAttach, ObTo, ObReturns, ObIsMine, ObThreadTypes
  <2>2. obThread'[t] \in ObThreadType
    BY <1>0, <1>12, <2>0, ObNats, ObThreadsTyped
       DEF CommitsAttach, ObTo, ObReturns, ObIsMine, ObThreadTypes, ObFlags, ObPcs
  <2>3. ObThreadTypes'
    BY <1>0, <2>0, <2>1, <2>2 DEF ObThreadTypes
  <2>4. \A u \in ObThreads : u # t => obThread'[u] = obThread[u]
    BY <1>0, <2>1 DEF ObThreadTypes
  <2>5. ObFlags'
    BY <1>0, <1>12, ObNats, <2>0, <1>01
       DEF CommitsAttach, ObTo, ObReturns, ObIsMine, ObFlags, ObThreadType
  <2>6. ObKnown'
    BY <1>0, <1>12, ObNats, ObThreadsTyped, <2>0, <1>01
       DEF CommitsAttach, ObTo, ObReturns, ObIsMine, ObKnown, ObFlags
  <2>7. ObHolds'
    <3>1. ObHoldsAt(t)'
      BY <1>0, <1>12, <2>0, ObNats
         DEF CommitsAttach, ObTo, ObReturns, ObIsMine, ObHolds, ObHoldsAt, ObThreadTypes,
             ObThreadType, ObIdle, ObFlags
    <3>2. QED
      BY <1>0, <2>0, <2>4, <3>1 DEF ObHolds, ObHoldsAt
  <2>8. ObStopped'
    BY <1>0, <1>02, <1>12, <2>0, <2>4
       DEF CommitsAttach, ObTo, ObReturns, ObIsMine, ObStopped, ObFlags, ObThreadTypes,
           ObThreadType, ObIdle
  <2>9. QED
    BY <2>3, <2>5, <2>6, <2>7, <2>8 DEF ObInv
<1>13. ASSUME NEW t \in ObThreads, OmInvalidates(t) PROVE ObInv'
  <2>0. t \in ObThreads /\ obThread[t] \in ObThreadType
    BY <1>01, <1>02, <1>13
  <2>1. obThread' = [obThread EXCEPT ![t] = obThread'[t]]
    BY <1>0, <1>13, <2>0 DEF OmInvalidates, ObTo, ObThreadTypes
  <2>2. obThread'[t] \in ObThreadType
    BY <1>0, <1>13, <2>0, ObNats, ObThreadsTyped
       DEF OmInvalidates, ObTo, ObThreadTypes, ObFlags, ObPcs
  <2>3. ObThreadTypes'
    BY <1>0, <2>0, <2>1, <2>2 DEF ObThreadTypes
  <2>4. \A u \in ObThreads : u # t => obThread'[u] = obThread[u]
    BY <1>0, <2>1 DEF ObThreadTypes
  <2>5. ObFlags'
    BY <1>0, <1>13, ObNats, <2>0, <1>01 DEF OmInvalidates, ObTo, ObFlags, ObThreadType
  <2>6. ObKnown'
    BY <1>0, <1>13, ObNats, ObThreadsTyped, <2>0, <1>01 DEF OmInvalidates, ObTo, ObKnown, ObFlags
  <2>7. ObHolds'
    <3>1. ObHoldsAt(t)'
      BY <1>0, <1>13, <2>0, ObNats
         DEF OmInvalidates, ObTo, ObHolds, ObHoldsAt, ObThreadTypes, ObThreadType, ObIdle, ObFlags
    <3>2. QED
      BY <1>0, <2>0, <2>4, <3>1 DEF ObHolds, ObHoldsAt
  <2>8. ObStopped'
    BY <1>0, <1>02, <1>13, <2>0, <2>4
       DEF OmInvalidates, ObTo, ObStopped, ObFlags, ObThreadTypes, ObThreadType, ObIdle
  <2>9. QED
    BY <2>3, <2>5, <2>6, <2>7, <2>8 DEF ObInv
<1>14. ASSUME NEW t \in ObThreads, Snapshots(t) PROVE ObInv'
  <2>0. t \in ObThreads /\ obThread[t] \in ObThreadType
    BY <1>01, <1>02, <1>14
  <2>1. obThread' = [obThread EXCEPT ![t] = obThread'[t]]
    BY <1>0, <1>14, <2>0 DEF Snapshots, ObTo, ObReturns, ObThreadTypes
  <2>2. obThread'[t] \in ObThreadType
    BY <1>0, <1>14, <2>0, ObNats, ObThreadsTyped
       DEF Snapshots, ObTo, ObReturns, ObThreadTypes, ObFlags, ObPcs
  <2>3. ObThreadTypes'
    BY <1>0, <2>0, <2>1, <2>2 DEF ObThreadTypes
  <2>4. \A u \in ObThreads : u # t => obThread'[u] = obThread[u]
    BY <1>0, <2>1 DEF ObThreadTypes
  <2>5. ObFlags'
    BY <1>0, <1>14, ObNats, <2>0, <1>01 DEF Snapshots, ObTo, ObReturns, ObFlags, ObThreadType
  <2>6. ObKnown'
    BY <1>0, <1>14, ObNats, ObThreadsTyped, <2>0, <1>01
       DEF Snapshots, ObTo, ObReturns, ObKnown, ObFlags
  <2>7. ObHolds'
    <3>1. ObHoldsAt(t)'
      BY <1>0, <1>14, <2>0, ObNats
         DEF Snapshots, ObTo, ObReturns, ObHolds, ObHoldsAt, ObThreadTypes, ObThreadType, ObIdle,
             ObFlags
    <3>2. QED
      BY <1>0, <2>0, <2>4, <3>1 DEF ObHolds, ObHoldsAt
  <2>8. ObStopped'
    BY <1>0, <1>02, <1>14, <2>0, <2>4
       DEF Snapshots, ObTo, ObReturns, ObStopped, ObFlags, ObThreadTypes, ObThreadType, ObIdle
  <2>9. QED
    BY <2>3, <2>5, <2>6, <2>7, <2>8 DEF ObInv
<1>15. ASSUME NEW t \in ObThreads, DetachReturns(t) PROVE ObInv'
  <2>0. t \in ObThreads /\ obThread[t] \in ObThreadType
    BY <1>01, <1>02, <1>15
  <2>1. obThread' = [obThread EXCEPT ![t] = obThread'[t]]
    BY <1>0, <1>15, <2>0 DEF DetachReturns, ObReturns, ObThreadTypes
  <2>2. obThread'[t] \in ObThreadType
    BY <1>0, <1>15, <2>0, ObNats, ObThreadsTyped
       DEF DetachReturns, ObReturns, ObThreadTypes, ObFlags, ObPcs
  <2>3. ObThreadTypes'
    BY <1>0, <2>0, <2>1, <2>2 DEF ObThreadTypes
  <2>4. \A u \in ObThreads : u # t => obThread'[u] = obThread[u]
    BY <1>0, <2>1 DEF ObThreadTypes
  <2>5. ObFlags'
    BY <1>0, <1>15, ObNats, <2>0, <1>01 DEF DetachReturns, ObReturns, ObFlags, ObThreadType
  <2>6. ObKnown'
    BY <1>0, <1>15, ObNats, ObThreadsTyped, <2>0, <1>01
       DEF DetachReturns, ObReturns, ObKnown, ObFlags
  <2>7. ObHolds'
    <3>1. ObHoldsAt(t)'
      BY <1>0, <1>15, <2>0, ObNats
         DEF DetachReturns, ObReturns, ObHolds, ObHoldsAt, ObThreadTypes, ObThreadType, ObIdle,
             ObFlags
    <3>2. QED
      BY <1>0, <2>0, <2>4, <3>1 DEF ObHolds, ObHoldsAt
  <2>8. ObStopped'
    BY <1>0, <1>02, <1>15, <2>0, <2>4
       DEF DetachReturns, ObReturns, ObStopped, ObFlags, ObThreadTypes, ObThreadType, ObIdle
  <2>9. QED
    BY <2>3, <2>5, <2>6, <2>7, <2>8 DEF ObInv
<1>16. CASE UNCHANGED obVars
  BY <1>0, <1>16 DEF obVars, ObInv, ObFlags, ObKnown, ObThreadTypes, ObHolds, ObHoldsAt, ObStopped
<1>17. QED
  BY <1>1, <1>2, <1>3, <1>4, <1>5, <1>6, <1>7, <1>8, <1>9, <1>10, <1>11, <1>12, <1>13, <1>14, <1>15,
     <1>16
     DEF ObNext, ObThreadStep

LEMMA ObInvImplies == ObInv => ObTypeOK /\ CapturedOnce
<1> SUFFICES ASSUME ObInv PROVE ObTypeOK /\ CapturedOnce
  OBVIOUS
<1>0. ObFlags /\ ObKnown /\ ObStopped
  BY DEF ObInv
<1>1. ObTypeOK
  BY <1>0 DEF ObTypeOK, ObFlags, ObKnown, ObSubType
<1>2. Listening \subseteq {[client |-> obMc, gen |-> obGen]}
  BY <1>0 DEF Listening, ObKnown, ObSubType
<1>3. Listening = {} \/ Listening = {[client |-> obMc, gen |-> obGen]}
  BY <1>2
<1>4. Cardinality({[client |-> obMc, gen |-> obGen]}) = 1
  BY FS_Singleton
<1>5. Cardinality(Listening) <= 1
  BY <1>3, <1>4, FS_EmptySet
<1>6. QED
  BY <1>0, <1>1, <1>5 DEF CapturedOnce, ObStopped

-----------------------------------------------------------------------------
(***************************************************************************)
(* The observer's broker, for any number of clients, losses and expiries:  *)
(* a client with a socket is published or in the hand that closes it.      *)
(***************************************************************************)

OmLoopType == [pc : {"top", "connect", "dial", "start", "await", "drain", "close", "ended"},
               id : OmIds \cup {0}]
OmStopType == [pc : {"no", "detach", "close", "done"}, id : OmIds \cup {0}]

OmFlags ==
    /\ omActive \in BOOLEAN /\ omOn \in BOOLEAN /\ omClient \in OmIds \cup {0}
    /\ omUp \subseteq OmIds /\ omCallback \subseteq OmIds
    /\ omLost \in 0..OmLosses /\ omAged \in 0..OmExpiries
OmTables ==
    /\ omPaho \in [OmIds -> {"none", "new", "dialed", "looping", "closed"}]
    /\ omToken \in [OmIds -> {"none", "fresh", "due", "expired"}]
OmThreads == omLoop \in OmLoopType /\ omStop \in OmStopType

OmPlaced ==
    /\ omLoop.pc \in {"dial", "start", "await", "close"} => omLoop.id # 0
    /\ omLoop.pc = "dial" => omPaho[omLoop.id] \in {"new", "closed"}
    /\ omActive <=> omStop.pc = "no"
    /\ omStop.pc \in {"no", "detach"} => omStop.id = 0
    /\ omStop.pc \in {"close", "done"} => omClient = 0

OmInv == OmFlags /\ OmTables /\ OmThreads /\ OmPlaced /\ NoForgottenBroker

-----------------------------------------------------------------------------
LEMMA OmNats ==
    /\ 0 \notin OmIds /\ 0 \in 0..OmLosses /\ 0 \in 0..OmExpiries
    /\ \A n \in 0..OmLosses : n < OmLosses => n + 1 \in 0..OmLosses
    /\ \A n \in 0..OmExpiries : n < OmExpiries => n + 1 \in 0..OmExpiries
BY MeshCoreObserverAssumption DEF OmIds

LEMMA OmInitInv == OmInit => OmInv
<1> SUFFICES ASSUME OmInit PROVE OmInv
  OBVIOUS
<1>1. OmFlags /\ OmTables
  BY OmNats DEF OmInit, OmFlags, OmTables
<1>2. OmThreads
  BY DEF OmInit, OmThreads, OmLoopType, OmStopType
<1>3. OmPlaced /\ NoForgottenBroker
  BY DEF OmInit, OmPlaced, NoForgottenBroker
<1>4. QED
  BY <1>1, <1>2, <1>3 DEF OmInv

LEMMA OmStepKeeps == OmInv /\ [OmNext]_omVars => OmInv'
<1> SUFFICES ASSUME OmInv, [OmNext]_omVars PROVE OmInv'
  OBVIOUS
<1>0. OmFlags /\ OmTables /\ OmThreads /\ OmPlaced /\ NoForgottenBroker
  BY DEF OmInv
<1>01. /\ omLoop.pc \in {"top", "connect", "dial", "start", "await", "drain", "close", "ended"}
       /\ omLoop.id \in OmIds \cup {0}
       /\ omStop.pc \in {"no", "detach", "close", "done"} /\ omStop.id \in OmIds \cup {0}
  BY <1>0 DEF OmThreads, OmLoopType, OmStopType
<1>1. CASE OmTop
  <2>1. OmFlags'
    BY <1>0, <1>01, <1>1, OmNats DEF OmTop, OmTo, OmFlags
  <2>2. OmTables'
    BY <1>0, <1>01, <1>1, OmNats DEF OmTop, OmTo, OmTables, OmFlags
  <2>3. OmThreads'
    BY <1>0, <1>01, <1>1 DEF OmTop, OmTo, OmThreads, OmLoopType, OmStopType, OmFlags
  <2>4. OmPlaced'
    BY <1>0, <1>01, <1>1, OmNats
       DEF OmTop, OmTo, OmPlaced, OmTables, OmThreads, OmLoopType, OmStopType, OmFlags
  <2>5. NoForgottenBroker'
    BY <1>0, <1>01, <1>1, OmNats
       DEF OmTop, OmTo, NoForgottenBroker, OmPlaced, OmTables, OmThreads, OmLoopType, OmStopType,
           OmFlags
  <2>6. QED
    BY <2>1, <2>2, <2>3, <2>4, <2>5 DEF OmInv
<1>2. CASE MakesCandidate
  <2>1. OmFlags'
    BY <1>0, <1>01, <1>2, OmNats DEF MakesCandidate, OmTo, OmFlags
  <2>2. OmTables'
    BY <1>0, <1>01, <1>2, OmNats DEF MakesCandidate, OmTo, OmTables, OmFlags
  <2>3. OmThreads'
    BY <1>0, <1>01, <1>2 DEF MakesCandidate, OmTo, OmThreads, OmLoopType, OmStopType, OmFlags
  <2>4. OmPlaced'
    BY <1>0, <1>01, <1>2, OmNats
       DEF MakesCandidate, OmTo, OmPlaced, OmTables, OmThreads, OmLoopType, OmStopType, OmFlags
  <2>5. NoForgottenBroker'
    BY <1>0, <1>01, <1>2, OmNats
       DEF MakesCandidate, OmTo, NoForgottenBroker, OmPlaced, OmTables, OmThreads, OmLoopType,
           OmStopType, OmFlags
  <2>6. QED
    BY <2>1, <2>2, <2>3, <2>4, <2>5 DEF OmInv
<1>3. CASE Dials
  <2>1. OmFlags'
    BY <1>0, <1>01, <1>3, OmNats DEF Dials, OmTo, OmFlags, OmThreads, OmLoopType
  <2>2. OmTables'
    BY <1>0, <1>01, <1>3, OmNats DEF Dials, OmTo, OmTables, OmFlags
  <2>3. OmThreads'
    BY <1>0, <1>01, <1>3 DEF Dials, OmTo, OmThreads, OmLoopType, OmStopType, OmFlags
  <2>4. OmPlaced'
    BY <1>0, <1>01, <1>3, OmNats
       DEF Dials, OmTo, OmPlaced, OmTables, OmThreads, OmLoopType, OmStopType, OmFlags
  <2>5. NoForgottenBroker'
    BY <1>0, <1>01, <1>3, OmNats
       DEF Dials, OmTo, NoForgottenBroker, OmPlaced, OmTables, OmThreads, OmLoopType, OmStopType,
           OmFlags
  <2>6. QED
    BY <2>1, <2>2, <2>3, <2>4, <2>5 DEF OmInv
<1>4. CASE StartsLoop
  <2>1. OmFlags'
    BY <1>0, <1>01, <1>4, OmNats DEF StartsLoop, OmTo, OmFlags
  <2>2. OmTables'
    BY <1>0, <1>01, <1>4, OmNats DEF StartsLoop, OmTo, OmTables, OmFlags
  <2>3. OmThreads'
    BY <1>0, <1>01, <1>4 DEF StartsLoop, OmTo, OmThreads, OmLoopType, OmStopType, OmFlags
  <2>4. OmPlaced'
    BY <1>0, <1>01, <1>4, OmNats
       DEF StartsLoop, OmTo, OmPlaced, OmTables, OmThreads, OmLoopType, OmStopType, OmFlags
  <2>5. NoForgottenBroker'
    BY <1>0, <1>01, <1>4, OmNats
       DEF StartsLoop, OmTo, NoForgottenBroker, OmPlaced, OmTables, OmThreads, OmLoopType,
           OmStopType, OmFlags
  <2>6. QED
    BY <2>1, <2>2, <2>3, <2>4, <2>5 DEF OmInv
<1>5. CASE AwaitsBroker
  <2>1. OmFlags'
    BY <1>0, <1>01, <1>5, OmNats DEF AwaitsBroker, OmTo, OmFlags
  <2>2. OmTables'
    BY <1>0, <1>01, <1>5, OmNats DEF AwaitsBroker, OmTo, OmTables, OmFlags
  <2>3. OmThreads'
    BY <1>0, <1>01, <1>5 DEF AwaitsBroker, OmTo, OmThreads, OmLoopType, OmStopType, OmFlags
  <2>4. OmPlaced'
    BY <1>0, <1>01, <1>5, OmNats
       DEF AwaitsBroker, OmTo, OmPlaced, OmTables, OmThreads, OmLoopType, OmStopType, OmFlags
  <2>5. NoForgottenBroker'
    BY <1>0, <1>01, <1>5, OmNats
       DEF AwaitsBroker, OmTo, NoForgottenBroker, OmPlaced, OmTables, OmThreads, OmLoopType,
           OmStopType, OmFlags
  <2>6. QED
    BY <2>1, <2>2, <2>3, <2>4, <2>5 DEF OmInv
<1>6. CASE ClosesCandidate
  <2>1. OmFlags'
    BY <1>0, <1>01, <1>6, OmNats DEF ClosesCandidate, OmTo, Closes, OmFlags
  <2>2. OmTables'
    BY <1>0, <1>01, <1>6, OmNats DEF ClosesCandidate, OmTo, Closes, OmTables, OmFlags
  <2>3. OmThreads'
    BY <1>0, <1>01, <1>6
       DEF ClosesCandidate, OmTo, Closes, OmThreads, OmLoopType, OmStopType, OmFlags
  <2>4. OmPlaced'
    BY <1>0, <1>01, <1>6, OmNats
       DEF ClosesCandidate, OmTo, Closes, OmPlaced, OmTables, OmThreads, OmLoopType, OmStopType,
           OmFlags
  <2>5. NoForgottenBroker'
    BY <1>0, <1>01, <1>6, OmNats
       DEF ClosesCandidate, OmTo, Closes, NoForgottenBroker, OmPlaced, OmTables, OmThreads,
           OmLoopType, OmStopType, OmFlags
  <2>6. QED
    BY <2>1, <2>2, <2>3, <2>4, <2>5 DEF OmInv
<1>7. CASE Drains
  <2>1. OmFlags'
    BY <1>0, <1>01, <1>7, OmNats DEF Drains, OmTo, Closes, OmFlags
  <2>2. OmTables'
    BY <1>0, <1>01, <1>7, OmNats DEF Drains, OmTo, Closes, OmTables, OmFlags
  <2>3. OmThreads'
    BY <1>0, <1>01, <1>7 DEF Drains, OmTo, Closes, OmThreads, OmLoopType, OmStopType, OmFlags
  <2>4. OmPlaced'
    BY <1>0, <1>01, <1>7, OmNats
       DEF Drains, OmTo, Closes, OmPlaced, OmTables, OmThreads, OmLoopType, OmStopType, OmFlags
  <2>5. NoForgottenBroker'
    BY <1>0, <1>01, <1>7, OmNats
       DEF Drains, OmTo, Closes, NoForgottenBroker, OmPlaced, OmTables, OmThreads, OmLoopType,
           OmStopType, OmFlags
  <2>6. QED
    BY <2>1, <2>2, <2>3, <2>4, <2>5 DEF OmInv
<1>8. CASE Accepts
  <2>1. OmFlags'
    BY <1>0, <1>01, <1>8, OmNats DEF Accepts, OmFlags
  <2>2. OmTables'
    BY <1>0, <1>01, <1>8, OmNats DEF Accepts, OmTables, OmFlags
  <2>3. OmThreads'
    BY <1>0, <1>01, <1>8 DEF Accepts, OmThreads, OmLoopType, OmStopType, OmFlags
  <2>4. OmPlaced'
    BY <1>0, <1>01, <1>8, OmNats
       DEF Accepts, OmPlaced, OmTables, OmThreads, OmLoopType, OmStopType, OmFlags
  <2>5. NoForgottenBroker'
    BY <1>0, <1>01, <1>8, OmNats
       DEF Accepts, NoForgottenBroker, OmPlaced, OmTables, OmThreads, OmLoopType, OmStopType,
           OmFlags
  <2>6. QED
    BY <2>1, <2>2, <2>3, <2>4, <2>5 DEF OmInv
<1>9. CASE Drops
  <2>1. OmFlags'
    BY <1>0, <1>01, <1>9, OmNats DEF Drops, OmFlags
  <2>2. OmTables'
    BY <1>0, <1>01, <1>9, OmNats DEF Drops, OmTables, OmFlags
  <2>3. OmThreads'
    BY <1>0, <1>01, <1>9 DEF Drops, OmThreads, OmLoopType, OmStopType, OmFlags
  <2>4. OmPlaced'
    BY <1>0, <1>01, <1>9, OmNats
       DEF Drops, OmPlaced, OmTables, OmThreads, OmLoopType, OmStopType, OmFlags
  <2>5. NoForgottenBroker'
    BY <1>0, <1>01, <1>9, OmNats
       DEF Drops, NoForgottenBroker, OmPlaced, OmTables, OmThreads, OmLoopType, OmStopType, OmFlags
  <2>6. QED
    BY <2>1, <2>2, <2>3, <2>4, <2>5 DEF OmInv
<1>10. CASE ReportsDrop
  <2>1. OmFlags'
    BY <1>0, <1>01, <1>10, OmNats DEF ReportsDrop, OmFlags
  <2>2. OmTables'
    BY <1>0, <1>01, <1>10, OmNats DEF ReportsDrop, OmTables, OmFlags
  <2>3. OmThreads'
    BY <1>0, <1>01, <1>10 DEF ReportsDrop, OmThreads, OmLoopType, OmStopType, OmFlags
  <2>4. OmPlaced'
    BY <1>0, <1>01, <1>10, OmNats
       DEF ReportsDrop, OmPlaced, OmTables, OmThreads, OmLoopType, OmStopType, OmFlags
  <2>5. NoForgottenBroker'
    BY <1>0, <1>01, <1>10, OmNats
       DEF ReportsDrop, NoForgottenBroker, OmPlaced, OmTables, OmThreads, OmLoopType, OmStopType,
           OmFlags
  <2>6. QED
    BY <2>1, <2>2, <2>3, <2>4, <2>5 DEF OmInv
<1>11. CASE OmAges
  <2>1. OmFlags'
    BY <1>0, <1>01, <1>11, OmNats DEF OmAges, OmFlags
  <2>2. OmTables'
    BY <1>0, <1>01, <1>11, OmNats DEF OmAges, OmTables, OmFlags
  <2>3. OmThreads'
    BY <1>0, <1>01, <1>11 DEF OmAges, OmThreads, OmLoopType, OmStopType, OmFlags
  <2>4. OmPlaced'
    BY <1>0, <1>01, <1>11, OmNats
       DEF OmAges, OmPlaced, OmTables, OmThreads, OmLoopType, OmStopType, OmFlags
  <2>5. NoForgottenBroker'
    BY <1>0, <1>01, <1>11, OmNats
       DEF OmAges, NoForgottenBroker, OmPlaced, OmTables, OmThreads, OmLoopType, OmStopType, OmFlags
  <2>6. QED
    BY <2>1, <2>2, <2>3, <2>4, <2>5 DEF OmInv
<1>12. CASE OmStops
  <2>1. OmFlags'
    BY <1>0, <1>01, <1>12, OmNats DEF OmStops, Closes, OmFlags
  <2>2. OmTables'
    BY <1>0, <1>01, <1>12, OmNats DEF OmStops, Closes, OmTables, OmFlags
  <2>3. OmThreads'
    BY <1>0, <1>01, <1>12 DEF OmStops, Closes, OmThreads, OmLoopType, OmStopType, OmFlags
  <2>4. OmPlaced'
    BY <1>0, <1>01, <1>12, OmNats
       DEF OmStops, Closes, OmPlaced, OmTables, OmThreads, OmLoopType, OmStopType, OmFlags
  <2>5. NoForgottenBroker'
    BY <1>0, <1>01, <1>12, OmNats
       DEF OmStops, Closes, NoForgottenBroker, OmPlaced, OmTables, OmThreads, OmLoopType,
           OmStopType, OmFlags
  <2>6. QED
    BY <2>1, <2>2, <2>3, <2>4, <2>5 DEF OmInv
<1>13. CASE UNCHANGED omVars
  BY <1>0, <1>13 DEF omVars, OmInv, OmFlags, OmTables, OmThreads, OmPlaced, NoForgottenBroker
<1>14. QED
  BY <1>1, <1>2, <1>3, <1>4, <1>5, <1>6, <1>7, <1>8, <1>9, <1>10, <1>11, <1>12, <1>13
     DEF OmNext, OmLoopStep

LEMMA OmInvImplies == OmInv => OmTypeOK /\ NoForgottenBroker
BY DEF OmInv, OmFlags, OmTables, OmTypeOK

(* The gateway has one client at its device, under its claim, and announces
   only what is current; the observer captures once and forgets no broker.   *)
THEOREM MeshCoreIsSafe == McSpec /\ ObSpec /\ OmSpec => []MeshCoreSafe
<1>1. McInv /\ ObInv /\ OmInv => MeshCoreSafe
  BY McInvImplies, ObInvImplies, OmInvImplies DEF MeshCoreSafe
<1>2. QED
  BY <1>1, McInitInv, McStepKeeps, ObInitInv, ObStepKeeps, OmInitInv, OmStepKeeps, PTL
     DEF McSpec, ObSpec, OmSpec

=============================================================================
