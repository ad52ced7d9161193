---------------------------- MODULE Dongles_proofs ----------------------------
(***************************************************************************)
(* Proofs about who has an RTL-SDR dongle: the claim registry, and the two *)
(* plugins that launch a pipeline on a dongle of their own, the ADS-B      *)
(* decoder and the FM receiver.                                            *)
(***************************************************************************)
EXTENDS RtlSdrClaims, FmReceiver, FiniteSetTheorems, TLAPS

-----------------------------------------------------------------------------
(***************************************************************************)
(* The claim registry, for any number of callers, dongles, indexes and     *)
(* claims.  The inductive invariant adds to the properties of RtlSdrClaims *)
(* that ids are unique and not above the counter, and that the caller of a *)
(* claim still holds its token.                                            *)
(***************************************************************************)

IdsUnique ==
    /\ \A r \in clClaimed : r.id <= nextId
    /\ \A p, q \in clClaimed : p.id = q.id => p = q

TokenHeld == \A r \in clClaimed : r.id \in tokens[r.selection.caller]

IInv == ClTypeOK /\ NoAliasedClaims /\ SelectionsExact /\ IdsUnique /\ TokenHeld

(* What _resolve_device_snapshot returns is an identity and an index. *)
LEMMA ResolutionType ==
    ASSUME ClTypeOK, NEW selector \in Selector, NEW r \in Resolutions(selector)
    PROVE  r.canonical \in Canonical /\ r.index \in Indexes
<1>1. CASE selector.by = "serial"
  <2>1. selector.configured \in Serials
    BY <1>1 DEF Selector
  <2>2. r \in SerialResolution(selector.configured)
    BY <1>1 DEF Resolutions
  <2>3. QED
    BY <2>1, <2>2 DEF SerialResolution, Canonical
<1>2. CASE selector.by # "serial"
  <2>1. selector.configured \in Indexes
    BY <1>2 DEF Selector
  <2>2. r \in IndexResolution(selector.configured)
    BY <1>2 DEF Resolutions
  <2>3. inventory[selector.configured] \in Serials \cup {NoSerial}
    BY <2>1 DEF ClTypeOK
  <2>4. QED
    BY <2>1, <2>2, <2>3 DEF IndexResolution, Canonical
<1>3. QED
  BY <1>1, <1>2

(* Dropping the claims with certain ids from both maps (_pop_claim_locked)
   keeps every part of the invariant that concerns the two maps.           *)
LEMMA PopKeeps ==
    ASSUME IInv, NEW ids,
           clClaimed' = ClRemaining(ids), selections' = SelectionsWithout(ids)
    PROVE  /\ clClaimed' \subseteq ClClaim
           /\ selections' \in [Selection -> ClaimId \cup {0}]
           /\ NoAliasedClaims'
           /\ SelectionsExact'
           /\ clClaimed' \subseteq clClaimed
<1>1. clClaimed' \subseteq clClaimed
  BY DEF ClRemaining
<1>2. clClaimed' \subseteq ClClaim
  BY <1>1 DEF IInv, ClTypeOK
<1>3. selections' \in [Selection -> ClaimId \cup {0}]
  BY DEF SelectionsWithout, IInv, ClTypeOK
<1>4. NoAliasedClaims'
  BY <1>1 DEF NoAliasedClaims, IInv
<1>5. SelectionsExact'
  <2>1. ASSUME NEW r \in clClaimed' PROVE selections'[r.selection] = r.id
    <3>1. r \in clClaimed /\ r.id \notin ids /\ selections[r.selection] = r.id
      BY DEF ClRemaining, IInv, SelectionsExact
    <3>2. r.selection \in Selection
      BY <3>1 DEF IInv, ClTypeOK, ClClaim
    <3>3. QED
      BY <3>1, <3>2 DEF SelectionsWithout
  <2>2. ASSUME NEW s \in Selection, selections'[s] # 0
        PROVE \E r \in clClaimed' : r.selection = s
    <3>1. selections[s] # 0 /\ selections[s] \notin ids
      BY <2>2 DEF SelectionsWithout
    <3>2. PICK r \in clClaimed : r.selection = s
      BY <3>1 DEF IInv, SelectionsExact
    <3>3. r.id = selections[s]
      BY <3>2 DEF IInv, SelectionsExact
    <3>4. QED
      BY <3>1, <3>2, <3>3 DEF ClRemaining
  <2>3. QED
    BY <2>1, <2>2 DEF SelectionsExact
<1>6. QED
  BY <1>1, <1>2, <1>3, <1>4, <1>5

(* The initial state, with nothing claimed, satisfies the invariant. *)
LEMMA InitIInv == ClInit => IInv
BY MaxClaimsAssumption
   DEF ClInit, IInv, ClTypeOK, NoAliasedClaims, SelectionsExact, IdsUnique, TokenHeld

(* _claim_device recording a claim keeps the invariant: the conflict loop has
   looked at every claim that stays.                                       *)
LEMMA ClaimKeeps ==
    ASSUME IInv, NEW c \in ClCallers, ClClaimDevice(c)
    PROVE  IInv'
<1> DEFINE own == [caller |-> c, selector |-> request[c].selector]
           old == Superseded(c)
           new == [id |-> nextId + 1, selection |-> own,
                   canonical |-> request[c].canonical, index |-> request[c].index]
<1>1. request[c] \in Request
  BY DEF ClClaimDevice, IInv, ClTypeOK
<1>2. own \in Selection /\ new \in ClClaim /\ nextId \in Nat /\ nextId + 1 \in ClaimId
  BY <1>1, MaxClaimsAssumption DEF ClClaimDevice, IInv, ClTypeOK, Request, Selection, ClClaim, ClaimId
<1>3. clClaimed' = ClRemaining(old) \cup {new}
  BY DEF ClClaimDevice
<1>4. \A s \in Selection :
         selections'[s] = IF s = own THEN nextId + 1
                          ELSE IF selections[s] \in old THEN 0 ELSE selections[s]
  BY <1>2 DEF ClClaimDevice, SelectionsWithout
<1>5. \A r \in ClRemaining(old) : r \in clClaimed /\ r \in ClClaim /\ r.id \notin old
  BY DEF ClRemaining, IInv, ClTypeOK
<1>6. \A r \in ClRemaining(old) : r.selection # own
  <2>1. SUFFICES ASSUME NEW r \in ClRemaining(old), r.selection = own PROVE FALSE
    OBVIOUS
  <2>2. selections[own] = r.id /\ r.id # 0
    BY <1>5, <2>1 DEF IInv, SelectionsExact, ClClaim, ClaimId
  <2>3. r.id \in old
    BY <2>2 DEF Superseded, OwnClaim
  <2>4. QED
    BY <2>3, <1>5
<1>7. ClTypeOK'
  <2>1. clClaimed' \subseteq ClClaim
    BY <1>2, <1>3, <1>5
  <2>2. selections' \in [Selection -> ClaimId \cup {0}]
    BY <1>2 DEF ClClaimDevice, SelectionsWithout, IInv, ClTypeOK
  <2>3. nextId' \in 0 .. MaxClaims
    BY <1>2, MaxClaimsAssumption DEF ClClaimDevice
  <2>4. tokens' \in [ClCallers -> SUBSET ClaimId]
    BY <1>2 DEF ClClaimDevice, IInv, ClTypeOK
  <2>5. request' \in [ClCallers -> Request \cup {NoRequest}]
    BY DEF ClClaimDevice, IInv, ClTypeOK
  <2>6. QED
    BY <2>1, <2>2, <2>3, <2>4, <2>5 DEF ClClaimDevice, IInv, ClTypeOK
<1>8. NoAliasedClaims'
  <2>1. \A r \in ClRemaining(old) : r.canonical # new.canonical /\ r.index # new.index
    BY <1>5 DEF ClClaimDevice, Conflict, Collides
  <2>2. QED
    BY <1>3, <1>5, <2>1 DEF NoAliasedClaims, IInv
<1>9. SelectionsExact'
  <2>1. ASSUME NEW r \in clClaimed' PROVE selections'[r.selection] = r.id
    <3>1. CASE r = new
      BY <3>1, <1>2, <1>4
    <3>2. CASE r \in ClRemaining(old)
      <4>1. r.selection \in Selection /\ selections[r.selection] = r.id
        BY <3>2, <1>5 DEF IInv, SelectionsExact, ClClaim
      <4>2. QED
        BY <3>2, <4>1, <1>4, <1>5, <1>6
    <3>3. QED
      BY <3>1, <3>2, <1>3
  <2>2. ASSUME NEW s \in Selection, selections'[s] # 0
        PROVE \E r \in clClaimed' : r.selection = s
    <3>1. CASE s = own
      <4>1. new \in clClaimed' /\ new.selection = s
        BY <3>1, <1>3
      <4>2. QED
        BY <4>1
    <3>2. CASE s # own
      <4>1. selections[s] # 0 /\ selections[s] \notin old
        BY <3>2, <2>2, <1>4
      <4>2. PICK r \in clClaimed : r.selection = s
        BY <4>1 DEF IInv, SelectionsExact
      <4>3. r.id = selections[s]
        BY <4>2 DEF IInv, SelectionsExact
      <4>4. QED
        BY <4>1, <4>2, <4>3, <1>3 DEF ClRemaining
    <3>3. QED
      BY <3>1, <3>2
  <2>3. QED
    BY <2>1, <2>2 DEF SelectionsExact
<1>10. IdsUnique'
  <2>1. \A r \in ClRemaining(old) : r.id <= nextId /\ r.id \in Nat
    BY <1>5 DEF IInv, IdsUnique, ClClaim, ClaimId
  <2>2. nextId' = nextId + 1
    BY DEF ClClaimDevice
  <2>3. \A r \in clClaimed' : r.id <= nextId'
    BY <1>2, <1>3, <2>1, <2>2
  <2>4. ASSUME NEW p \in clClaimed', NEW q \in clClaimed', p.id = q.id PROVE p = q
    <3>1. CASE p \in ClRemaining(old) /\ q \in ClRemaining(old)
      BY <3>1, <2>4, <1>5 DEF IInv, IdsUnique
    <3>2. CASE p = new \/ q = new
      BY <3>2, <2>1, <2>4, <1>2, <1>3
    <3>3. QED
      BY <3>1, <3>2, <1>3
  <2>5. QED
    BY <2>3, <2>4 DEF IdsUnique
<1>11. TokenHeld'
  <2>1. ASSUME NEW r \in clClaimed' PROVE r.id \in tokens'[r.selection.caller]
    <3>1. CASE r = new
      BY <3>1 DEF ClClaimDevice, IInv, ClTypeOK
    <3>2. CASE r \in ClRemaining(old)
      <4>1. r.id \in tokens[r.selection.caller] /\ r.selection.caller \in ClCallers
        BY <3>2, <1>5 DEF IInv, TokenHeld, ClClaim, Selection
      <4>2. r.id # request[c].replace
        BY <3>2, <1>5 DEF Superseded, ClClaim, ClaimId
      <4>3. QED
        BY <4>1, <4>2 DEF ClClaimDevice, IInv, ClTypeOK
    <3>3. QED
      BY <3>1, <3>2, <1>3
  <2>2. QED
    BY <2>1 DEF TokenHeld
<1>12. QED
  BY <1>7, <1>8, <1>9, <1>10, <1>11 DEF IInv

(* The releases keep the invariant. *)
LEMMA ReleaseKeeps ==
    ASSUME IInv, NEW ids,
           clClaimed' = ClRemaining(ids), selections' = SelectionsWithout(ids),
           UNCHANGED <<inventory, nextId, request>>,
           tokens' \in [ClCallers -> SUBSET ClaimId],
           \A r \in clClaimed' : r.id \in tokens'[r.selection.caller]
    PROVE  IInv'
<1>1. /\ clClaimed' \subseteq ClClaim
      /\ selections' \in [Selection -> ClaimId \cup {0}]
      /\ NoAliasedClaims' /\ SelectionsExact' /\ clClaimed' \subseteq clClaimed
  BY PopKeeps
<1>2. ClTypeOK'
  BY <1>1 DEF IInv, ClTypeOK
<1>3. IdsUnique'
  BY <1>1 DEF IInv, IdsUnique
<1>4. TokenHeld'
  BY DEF TokenHeld
<1>5. QED
  BY <1>1, <1>2, <1>3, <1>4 DEF IInv

(* Every step of the registry keeps the invariant. *)
LEMMA NextIInv == IInv /\ [ClNext]_clVars => IInv'
<1> SUFFICES ASSUME IInv, [ClNext]_clVars PROVE IInv'
  OBVIOUS
<1>1. CASE UNCHANGED clVars
  BY <1>1 DEF clVars, IInv, ClTypeOK, NoAliasedClaims, SelectionsExact, IdsUnique, TokenHeld
<1>2. CASE ClReplug
  <2>1. inventory' \in [Indexes -> Serials \cup {NoSerial}]
    BY <1>2 DEF ClReplug, IInv, ClTypeOK
  <2>2. QED
    BY <1>2, <2>1
       DEF ClReplug, IInv, ClTypeOK, NoAliasedClaims, SelectionsExact, IdsUnique, TokenHeld
<1>3. ASSUME NEW c \in ClCallers, NEW selector \in Selector,
             NEW replace \in ClaimId \cup {0}, Resolve(c, selector, replace)
      PROVE IInv'
  <2>1. PICK r \in Resolutions(selector) :
           request' = [request EXCEPT ![c] =
               [selector |-> selector, canonical |-> r.canonical,
                index |-> r.index, replace |-> replace]]
    BY <1>3 DEF Resolve
  <2>2. request' \in [ClCallers -> Request \cup {NoRequest}]
    BY <2>1, ResolutionType DEF IInv, ClTypeOK, Request
  <2>3. QED
    BY <1>3, <2>2
       DEF Resolve, IInv, ClTypeOK, NoAliasedClaims, SelectionsExact, IdsUnique, TokenHeld
<1>4. ASSUME NEW c \in ClCallers, ClClaimDevice(c) PROVE IInv'
  BY <1>4, ClaimKeeps
<1>5. ASSUME NEW c \in ClCallers, ClClaimRefused(c) PROVE IInv'
  BY <1>5 DEF ClClaimRefused, IInv, ClTypeOK, NoAliasedClaims, SelectionsExact, IdsUnique, TokenHeld
<1>6. ASSUME NEW c \in ClCallers, NEW id \in ClaimId, ReleaseLease(c, id) PROVE IInv'
  <2> DEFINE gone == {r.id : r \in {q \in clClaimed : q.id \in {id} /\ q.selection.caller = c}}
  <2>1. clClaimed' = ClRemaining(gone) /\ selections' = SelectionsWithout(gone)
    BY <1>6 DEF ReleaseLease, ReleaseIds
  <2>2. tokens' = [tokens EXCEPT ![c] = @ \ {id}]
    BY <1>6 DEF ReleaseLease
  <2>3. tokens' \in [ClCallers -> SUBSET ClaimId]
    BY <2>2 DEF IInv, ClTypeOK
  <2>4. ASSUME NEW r \in clClaimed' PROVE r.id \in tokens'[r.selection.caller]
    <3>1. r \in clClaimed /\ r.id \notin gone /\ r.selection.caller \in ClCallers
      BY <2>1 DEF ClRemaining, IInv, ClTypeOK, ClClaim, Selection
    <3>2. r.id \in tokens[r.selection.caller]
      BY <3>1 DEF IInv, TokenHeld
    <3>3. r.selection.caller = c => r.id # id
      BY <3>1
    <3>4. QED
      BY <2>2, <3>1, <3>2, <3>3 DEF IInv, ClTypeOK
  <2>5. UNCHANGED <<inventory, nextId, request>>
    BY <1>6 DEF ReleaseLease
  <2> HIDE DEF gone
  <2>6. QED
    BY <2>1, <2>3, <2>4, <2>5, ReleaseKeeps
<1>7. ASSUME NEW c \in ClCallers, NEW selector \in Selector, ReleaseDevice(c, selector)
      PROVE IInv'
  <2> DEFINE sel == selections[[caller |-> c, selector |-> selector]]
             gone == {r.id : r \in {q \in clClaimed : q.id \in {sel} /\ q.selection.caller = c}}
  <2>1. clClaimed' = ClRemaining(gone) /\ selections' = SelectionsWithout(gone)
    BY <1>7 DEF ReleaseDevice, ReleaseIds
  <2>2. UNCHANGED <<inventory, nextId, request, tokens>>
    BY <1>7 DEF ReleaseDevice
  <2>3. clClaimed' \subseteq clClaimed
    BY <2>1 DEF ClRemaining
  <2>4. tokens' \in [ClCallers -> SUBSET ClaimId]
        /\ \A r \in clClaimed' : r.id \in tokens'[r.selection.caller]
    BY <2>2, <2>3 DEF IInv, ClTypeOK, TokenHeld
  <2> HIDE DEF gone
  <2>5. QED
    BY <2>1, <2>2, <2>4, ReleaseKeeps
<1>8. ASSUME NEW selector \in Selector, ForceRelease(selector) PROVE IInv'
  <2>1. PICK gone : clClaimed' = ClRemaining(gone) /\ selections' = SelectionsWithout(gone)
    BY <1>8 DEF ForceRelease
  <2>2. UNCHANGED <<inventory, nextId, request, tokens>>
    BY <1>8 DEF ForceRelease
  <2>3. clClaimed' \subseteq clClaimed
    BY <2>1 DEF ClRemaining
  <2>4. tokens' \in [ClCallers -> SUBSET ClaimId]
        /\ \A r \in clClaimed' : r.id \in tokens'[r.selection.caller]
    BY <2>2, <2>3 DEF IInv, ClTypeOK, TokenHeld
  <2>5. QED
    BY <2>1, <2>2, <2>4, ReleaseKeeps
<1>9. QED
  BY <1>1, <1>2, <1>3, <1>4, <1>5, <1>6, <1>7, <1>8 DEF ClNext, ClCallerStep

(* In every step, a claim that disappears is given up or superseded by its own
   caller, or force-released.                                              *)
LEMMA LostByOwner ==
    ASSUME IInv, ClNext, NEW r \in clClaimed \ clClaimed'
    PROVE  \/ r.id \in tokens[r.selection.caller] \ tokens'[r.selection.caller]
           \/ \E q \in clClaimed' \ clClaimed : q.selection = r.selection
           \/ ReleaseDevice(r.selection.caller, r.selection.selector)
           \/ \E selector \in Selector : ForceRelease(selector)
<1>1. /\ r \in clClaimed /\ r.id \in ClaimId /\ r.id <= nextId /\ r.selection \in Selection
      /\ r.id \in tokens[r.selection.caller] /\ selections[r.selection] = r.id
  BY DEF IInv, ClTypeOK, IdsUnique, TokenHeld, SelectionsExact, ClClaim
<1>2. ~ UNCHANGED clClaimed
  OBVIOUS
<1>3. ASSUME NEW c \in ClCallers, ClClaimDevice(c)
      PROVE \/ r.id \in tokens[r.selection.caller] \ tokens'[r.selection.caller]
            \/ \E q \in clClaimed' \ clClaimed : q.selection = r.selection
  <2> DEFINE own == [caller |-> c, selector |-> request[c].selector]
             new == [id |-> nextId + 1, selection |-> own,
                     canonical |-> request[c].canonical, index |-> request[c].index]
  <2>1. nextId \in Nat /\ request[c] \in Request /\ own \in Selection
    BY <1>3, MaxClaimsAssumption DEF ClClaimDevice, IInv, ClTypeOK, Request, Selection
  <2>2. new \in clClaimed' /\ new \notin clClaimed
    BY <1>3, <2>1 DEF ClClaimDevice, IInv, IdsUnique
  <2>3. r.id \in Superseded(c)
    BY <1>1, <1>3 DEF ClClaimDevice, ClRemaining
  <2>4. CASE r.id = OwnClaim(c)
    <3>1. PICK q \in clClaimed : q.selection = own
      BY <2>1, <2>4, <1>1 DEF OwnClaim, IInv, SelectionsExact, ClaimId
    <3>2. q.id = r.id
      BY <2>4, <3>1 DEF OwnClaim, IInv, SelectionsExact
    <3>3. r.selection = own
      BY <1>1, <3>1, <3>2 DEF IInv, IdsUnique
    <3>4. new.selection = r.selection
      BY <3>3
    <3>5. QED
      BY <2>2, <3>4
  <2>5. CASE r.id = request[c].replace
    <3>1. request[c].replace # 0
      BY <1>1, <2>5 DEF ClaimId
    <3>2. PICK q \in clClaimed : q.id = request[c].replace /\ q.selection.caller = c
      BY <1>3, <3>1 DEF ClClaimDevice, RefreshAllowed
    <3>3. r.selection.caller = c
      BY <1>1, <2>5, <3>2 DEF IInv, IdsUnique
    <3>4. r.id \notin tokens'[c]
      BY <1>1, <1>3, <2>1, <2>5 DEF ClClaimDevice, IInv, ClTypeOK, ClaimId
    <3>5. QED
      BY <1>1, <3>3, <3>4
  <2>6. QED
    BY <2>3, <2>4, <2>5 DEF Superseded
<1>4. ASSUME NEW c \in ClCallers, NEW id \in ClaimId, ReleaseLease(c, id)
      PROVE r.id \in tokens[r.selection.caller] \ tokens'[r.selection.caller]
  <2>1. PICK q \in clClaimed : q.id = r.id /\ q.id = id /\ q.selection.caller = c
    BY <1>1, <1>4 DEF ReleaseLease, ReleaseIds, ClRemaining
  <2>2. r.selection.caller = c /\ r.id = id
    BY <1>1, <2>1 DEF IInv, IdsUnique
  <2>3. id \notin tokens'[c]
    BY <1>4 DEF ReleaseLease, IInv, ClTypeOK
  <2>4. QED
    BY <1>1, <2>2, <2>3
<1>5. ASSUME NEW c \in ClCallers, NEW selector \in Selector, ReleaseDevice(c, selector)
      PROVE ReleaseDevice(r.selection.caller, r.selection.selector)
  <2> DEFINE sel == [caller |-> c, selector |-> selector]
  <2>1. sel \in Selection /\ selections[sel] # 0
    BY <1>5 DEF ReleaseDevice, Selection
  <2>2. PICK q \in clClaimed : q.id = r.id /\ q.id = selections[sel]
    BY <1>1, <1>5 DEF ReleaseDevice, ReleaseIds, ClRemaining
  <2>3. PICK p \in clClaimed : p.selection = sel
    BY <2>1 DEF IInv, SelectionsExact
  <2>4. p.id = r.id
    BY <2>2, <2>3 DEF IInv, SelectionsExact
  <2>5. r.selection = sel
    BY <1>1, <2>3, <2>4 DEF IInv, IdsUnique
  <2>6. r.selection.caller = c /\ r.selection.selector = selector
    BY <2>5
  <2>7. QED
    BY <1>5, <2>6
<1>6. QED
  BY <1>2, <1>3, <1>4, <1>5
     DEF ClNext, ClCallerStep, ClReplug, Resolve, ClClaimRefused

(* The inductive invariant holds in every state of every behaviour. *)
THEOREM Invariance == ClSpec => []IInv
<1>1. ClInit => IInv
  BY InitIInv
<1>2. IInv /\ [ClNext]_clVars => IInv'
  BY NextIInv
<1>3. QED
  BY <1>1, <1>2, PTL DEF ClSpec

(* Index and serial aliases never double-claim a dongle, for any set of
   callers, dongles and indexes (_claim_device).                           *)
THEOREM ExclusiveClaims == ClSpec => []NoAliasedClaims
<1>1. IInv => NoAliasedClaims
  BY DEF IInv
<1>2. QED
  BY <1>1, Invariance, PTL

(* The claim registry's variables keep their types. *)
THEOREM TypeCorrect == ClSpec => []ClTypeOK
<1>1. IInv => ClTypeOK
  BY DEF IInv
<1>2. QED
  BY <1>1, Invariance, PTL

(* _claim_selections and _claimed always agree, so _claim_device's branch for
   a selection without a recorded claim is never needed.                   *)
THEOREM SelectionsAgree == ClSpec => []SelectionsExact
<1>1. IInv => SelectionsExact
  BY DEF IInv
<1>2. QED
  BY <1>1, Invariance, PTL

(* A stale lease token never frees a newer claim, and no caller's call frees
   another caller's claim except a force-release (_release_claim_id).      *)
THEOREM OnlyOwnersLoseClaims == ClSpec => ClaimLostOnlyByOwner
<1>1. IInv /\ [ClNext]_clVars =>
        [\A r \in clClaimed \ clClaimed' :
           \/ r.id \in tokens[r.selection.caller] \ tokens'[r.selection.caller]
           \/ \E q \in clClaimed' \ clClaimed : q.selection = r.selection
           \/ ReleaseDevice(r.selection.caller, r.selection.selector)
           \/ \E selector \in Selector : ForceRelease(selector)]_clVars
  BY LostByOwner
<1>2. QED
  BY <1>1, Invariance, PTL DEF ClSpec, ClaimLostOnlyByOwner

(* The call that answers a caller's request leaves it with a claim when it had
   one: a success records the new claim, a refusal changes nothing.        *)
LEMMA RefreshStep ==
    ASSUME IInv, [ClNext]_clVars, NEW c \in ClCallers,
           request[c] # NoRequest, request'[c] = NoRequest,
           NEW r \in clClaimed, r.selection.caller = c
    PROVE  \E q \in clClaimed' : q.selection.caller = c
<1>1. CASE UNCHANGED clVars
  BY <1>1 DEF clVars
<1>2. CASE ClReplug
  BY <1>2 DEF ClReplug
<1>3. ASSUME NEW d \in ClCallers, NEW selector \in Selector, NEW replace \in ClaimId \cup {0},
             Resolve(d, selector, replace)
      PROVE  \E q \in clClaimed' : q.selection.caller = c
  BY <1>3 DEF Resolve
<1>4. ASSUME NEW d \in ClCallers, ClClaimDevice(d)
      PROVE  \E q \in clClaimed' : q.selection.caller = c
  <2>1. d = c
    BY <1>4 DEF ClClaimDevice, IInv, ClTypeOK
  <2> DEFINE new == [id |-> nextId + 1,
                     selection |-> [caller |-> c, selector |-> request[c].selector],
                     canonical |-> request[c].canonical, index |-> request[c].index]
  <2>2. new \in clClaimed'
    BY <1>4, <2>1 DEF ClClaimDevice
  <2>3. new.selection.caller = c
    OBVIOUS
  <2>4. QED
    BY <2>2, <2>3
<1>5. ASSUME NEW d \in ClCallers, ClClaimRefused(d)
      PROVE  \E q \in clClaimed' : q.selection.caller = c
  BY <1>5 DEF ClClaimRefused
<1>6. ASSUME NEW d \in ClCallers, NEW id \in ClaimId, ReleaseLease(d, id)
      PROVE  \E q \in clClaimed' : q.selection.caller = c
  BY <1>6 DEF ReleaseLease
<1>7. ASSUME NEW d \in ClCallers, NEW selector \in Selector, ReleaseDevice(d, selector)
      PROVE  \E q \in clClaimed' : q.selection.caller = c
  BY <1>7 DEF ReleaseDevice
<1>8. ASSUME NEW selector \in Selector, ForceRelease(selector)
      PROVE  \E q \in clClaimed' : q.selection.caller = c
  BY <1>8 DEF ForceRelease
<1>9. QED
  BY <1>1, <1>2, <1>3, <1>4, <1>5, <1>6, <1>7, <1>8 DEF ClNext, ClCallerStep

(* The claims are exclusive and indexed; one is lost only by its owner or by
   force, and no refusal takes it.                                         *)
THEOREM ClaimsOwned == ClSpec => ClaimsAreOwned
<1>1. IInv /\ [ClNext]_clVars =>
        [\A c \in ClCallers :
           /\ request[c] # NoRequest /\ request'[c] = NoRequest
           /\ \E r \in clClaimed : r.selection.caller = c
           => \E r \in clClaimed' : r.selection.caller = c]_clVars
  BY RefreshStep
<1>2. QED
  BY <1>1, Invariance, TypeCorrect, ExclusiveClaims, SelectionsAgree, OnlyOwnersLoseClaims, PTL
     DEF ClSpec, ClaimsAreOwned, RefreshKeepsAClaim

-----------------------------------------------------------------------------
(***************************************************************************)
(* The decoder that owns its dongle: AdsbRadarPlugin on its process group, *)
(* for any number of launches and restarts.  The threads hand the dongle   *)
(* to one another: the supervisor until it has published a pipeline, then  *)
(* the monitor, then stop().                                               *)
(***************************************************************************)

DdEarly == {"claim", "assign", "check", "group", "start"}
DdLaunching == {"launch", "hook", "publish", "cancel"}
DdRestarting == {"hook", "reserve", "exhausted", "backoff", "prepare",
                 "claim", "assign", "launch", "publish", "restart failed"}

DdRuns == 0..DdPipelines
DdCounts == 0..DdRestarts
DdPgType == [running : BOOLEAN, starting : BOOLEAN, stopped : BOOLEAN, reported : BOOLEAN,
             procs : DdRuns]

DdFlags ==
    /\ ddActive \in BOOLEAN /\ ddGroup \in BOOLEAN /\ ddLease \in BOOLEAN /\ ddClaimed \in BOOLEAN
    /\ ddOutlived \in BOOLEAN
    /\ ddPg \in DdPgType
DdNumbers ==
    /\ ddProcess \in DdRuns /\ ddLocal \in DdRuns /\ ddLaunched \in DdRuns /\ ddCount \in DdCounts
    /\ ddAlive \subseteq DdRuns \ {0}
DdPlaces ==
    /\ ddSup \in DdEarly \cup DdLaunching \cup {"failed", "done"}
    /\ ddMon \in DdRestarting \cup {"none", "wait", "failed", "started", "exit", "done"}
    /\ ddStop \in {"none", "detach", "group", "launching", "terminate", "join", "release", "threads", "done"}
DdReaderTypes == ddReader \in [DdRuns \ {0} -> {"none", "reading", "report", "done"}]
DdTypes == DdFlags /\ DdNumbers /\ DdPlaces /\ DdReaderTypes

(* The supervisor has a pipeline of its own while it launches, and is done
   when the monitor begins.                                                 *)
SupervisorFirst ==
    /\ ddAlive \subseteq {ddLocal, ddPg.procs}
    /\ ddPg.starting <=> ddSup \in DdLaunching
    /\ ddSup \notin {"hook", "publish", "cancel"} /\ ddMon # "publish" => ddLocal = 0
    /\ ddMon # "none" => ddSup = "done"
    /\ ddMon = "none" => ddPg.procs = 0 /\ ~ddPg.running
    /\ ddMon \in DdRestarting => ddPg.procs = 0
    /\ ddMon \notin {"none", "done"} => ddPg.running \/ ddPg.stopped

(* Past the beginning of the group's stop, whoever still launches sees it. *)
StopWaits ==
    /\ ddStop = "none" <=> ddActive
    /\ ddPg.stopped => ddStop \notin {"none", "detach", "group"}
    /\ ddStop \in {"none", "detach"} /\ (ddSup = "publish" \/ ddMon # "none") => ddGroup
    /\ ddStop \in {"launching", "terminate", "join"} => ddPg.stopped /\ ddSup \notin DdEarly
    /\ ddStop \notin {"none", "detach", "group"} /\ (ddSup = "publish" \/ ddMon \notin {"none", "done"})
          => ddPg.stopped
    /\ ddStop \in {"join", "release", "threads", "done"} => ddPg.procs = 0

(* The claim is remembered in the next step, and lost only by who has ended
   the pipeline, or by stop() before a launch that its hook will cancel.  A
   monitor that stop() leaves behind with a claim under way is the one that
   keeps it.                                                                *)
ClaimFollows ==
    /\ ddSup \in {"claim", "assign"} => ~ddLease
    /\ ddMon \in {"reserve", "backoff", "prepare"} /\ ddGroup => ~ddLease
    /\ ddMon \in {"claim", "assign"} => ~ddLease
    /\ ddLease => ddClaimed
    /\ ddClaimed => ddLease \/ ddSup = "assign" \/ ddMon = "assign"
    /\ ddSup = "assign" \/ ddMon = "assign" => ddClaimed
    /\ ddSup \in (DdLaunching \cup DdEarly) \ {"claim"} /\ ddStop \notin {"threads", "done"} => ddClaimed
    /\ ddMon \in {"launch", "publish"} /\ ddStop \notin {"threads", "done"} => ddClaimed
    /\ ddPg.procs # 0 => ddClaimed
    /\ ddSup = "done" /\ ddMon = "none" => ~ddClaimed
    /\ ddStop \in {"release", "threads", "done"} /\ ddMon \in {"claim", "assign"} => ddOutlived
    /\ ddStop \in {"threads", "done"} /\ ddSup = "done" /\ ~ddOutlived => ~ddClaimed

DdInv ==
    /\ DdTypes
    /\ SupervisorFirst
    /\ StopWaits
    /\ ClaimFollows

(* Pipelines are numbered from 1. *)
LEMMA RunsFacts ==
    /\ 0 \in DdRuns /\ 0 \in DdCounts /\ 1..DdPipelines = DdRuns \ {0}
    /\ \A n \in DdRuns : n < DdPipelines => n + 1 \in DdRuns \ {0}
    /\ \A n \in DdCounts : n < DdRestarts => n + 1 \in DdCounts
BY DdAssumption DEF DdRuns, DdCounts

LEMMA DdInitInv == DdInit => DdInv
<1> SUFFICES ASSUME DdInit PROVE DdInv
  OBVIOUS
<1> USE DEF DdInit, DdEarly, DdLaunching, DdRestarting
<1>1. ddPg \in DdPgType
  BY RunsFacts DEF DdPgType
<1>2. DdTypes
  BY <1>1, RunsFacts DEF DdTypes, DdFlags, DdNumbers, DdPlaces, DdReaderTypes
<1>3. SupervisorFirst /\ StopWaits /\ ClaimFollows
  BY DEF SupervisorFirst, StopWaits, ClaimFollows
<1>4. QED
  BY <1>2, <1>3 DEF DdInv

(* What the group is told keeps its type. *)
LEMMA PgKeepsType ==
    ASSUME NEW pg \in DdPgType, NEW b \in BOOLEAN, NEW c \in BOOLEAN, NEW d \in BOOLEAN, NEW p \in DdRuns
    PROVE  /\ [pg EXCEPT !.procs = p] \in DdPgType
           /\ [pg EXCEPT !.starting = b] \in DdPgType
           /\ [pg EXCEPT !.running = b] \in DdPgType
           /\ [pg EXCEPT !.reported = b] \in DdPgType
           /\ [pg EXCEPT !.running = b, !.stopped = c] \in DdPgType
           /\ [pg EXCEPT !.procs = p, !.reported = b] \in DdPgType
           /\ [pg EXCEPT !.starting = b, !.stopped = c, !.reported = d] \in DdPgType
           /\ [pg EXCEPT !.running = b, !.procs = p, !.starting = c] \in DdPgType
BY DEF DdPgType

(* The three threads and the readers keep the order among them. *)
LEMMA DdStepKeeps == DdInv /\ [DdNext]_ddVars => DdInv'
<1> SUFFICES ASSUME DdInv, [DdNext]_ddVars PROVE DdInv'
  OBVIOUS
<1> USE DEF DdInv, DdEarly, DdLaunching, DdRestarting, ddStopper, StopTo
<1>0. ddPg \in DdPgType /\ ddLocal \in DdRuns /\ 0 \in DdRuns
  BY RunsFacts DEF DdTypes, DdFlags, DdNumbers
<1>1. CASE SupClaims
  <2>1. CASE Claims
    <3>1. DdFlags'
      BY <1>1, <2>1 DEF SupClaims, Claims, ddDevice, ddPipes, ddPlugin, DdFlags, DdTypes
    <3>2. DdNumbers'
      BY <1>1, <2>1, RunsFacts
         DEF SupClaims, Claims, ddDevice, ddPipes, ddPlugin, DdNumbers, DdTypes
    <3>3. DdPlaces'
      BY <1>1, <2>1 DEF SupClaims, Claims, ddDevice, ddPipes, ddPlugin, DdPlaces, DdTypes
    <3>4. DdReaderTypes'
      BY <1>1, <2>1, RunsFacts
         DEF SupClaims, Claims, ddDevice, ddPipes, ddPlugin, DdReaderTypes, DdNumbers, DdTypes
    <3>5. SupervisorFirst'
      BY <1>1, <2>1
         DEF SupClaims, Claims, ddDevice, ddPipes, ddPlugin, DdTypes, DdFlags, DdNumbers, DdPlaces,
             SupervisorFirst, StopWaits, ClaimFollows
    <3>6. StopWaits'
      BY <1>1, <2>1
         DEF SupClaims, Claims, ddDevice, ddPipes, ddPlugin, DdTypes, DdFlags, DdNumbers, DdPlaces,
             SupervisorFirst, StopWaits, ClaimFollows
    <3>7. ClaimFollows'
      BY <1>1, <2>1
         DEF SupClaims, Claims, ddDevice, ddPipes, ddPlugin, DdTypes, DdFlags, DdNumbers, DdPlaces,
             SupervisorFirst, StopWaits, ClaimFollows
    <3>8. QED
      BY <3>1, <3>2, <3>3, <3>4, <3>5, <3>6, <3>7 DEF DdTypes
  <2>2. CASE UNCHANGED ddDevice
    <3>1. DdFlags'
      BY <1>1, <2>2 DEF SupClaims, Claims, ddDevice, ddPipes, ddPlugin, DdFlags, DdTypes
    <3>2. DdNumbers'
      BY <1>1, <2>2, RunsFacts
         DEF SupClaims, Claims, ddDevice, ddPipes, ddPlugin, DdNumbers, DdTypes
    <3>3. DdPlaces'
      BY <1>1, <2>2 DEF SupClaims, Claims, ddDevice, ddPipes, ddPlugin, DdPlaces, DdTypes
    <3>4. DdReaderTypes'
      BY <1>1, <2>2, RunsFacts
         DEF SupClaims, Claims, ddDevice, ddPipes, ddPlugin, DdReaderTypes, DdNumbers, DdTypes
    <3>5. SupervisorFirst'
      BY <1>1, <2>2
         DEF SupClaims, Claims, ddDevice, ddPipes, ddPlugin, DdTypes, DdFlags, DdNumbers, DdPlaces,
             SupervisorFirst, StopWaits, ClaimFollows
    <3>6. StopWaits'
      BY <1>1, <2>2
         DEF SupClaims, Claims, ddDevice, ddPipes, ddPlugin, DdTypes, DdFlags, DdNumbers, DdPlaces,
             SupervisorFirst, StopWaits, ClaimFollows
    <3>7. ClaimFollows'
      BY <1>1, <2>2
         DEF SupClaims, Claims, ddDevice, ddPipes, ddPlugin, DdTypes, DdFlags, DdNumbers, DdPlaces,
             SupervisorFirst, StopWaits, ClaimFollows
    <3>8. QED
      BY <3>1, <3>2, <3>3, <3>4, <3>5, <3>6, <3>7 DEF DdTypes
  <2>3. QED
    BY <1>1, <2>1, <2>2 DEF SupClaims, Claims, ddDevice, ddPipes, ddPlugin
<1>2. CASE SupAssigns
  <2>1. DdFlags'
    BY <1>2 DEF SupAssigns, ddPipes, ddPlugin, DdFlags, DdTypes
  <2>2. DdNumbers'
    BY <1>2, RunsFacts DEF SupAssigns, ddPipes, ddPlugin, DdNumbers, DdTypes
  <2>3. DdPlaces'
    BY <1>2 DEF SupAssigns, ddPipes, ddPlugin, DdPlaces, DdTypes
  <2>4. DdReaderTypes'
    BY <1>2, RunsFacts DEF SupAssigns, ddPipes, ddPlugin, DdReaderTypes, DdNumbers, DdTypes
  <2>5. SupervisorFirst'
    BY <1>2
       DEF SupAssigns, ddPipes, ddPlugin, DdTypes, DdFlags, DdNumbers, DdPlaces, SupervisorFirst,
           StopWaits, ClaimFollows
  <2>6. StopWaits'
    BY <1>2
       DEF SupAssigns, ddPipes, ddPlugin, DdTypes, DdFlags, DdNumbers, DdPlaces, SupervisorFirst,
           StopWaits, ClaimFollows
  <2>7. ClaimFollows'
    BY <1>2
       DEF SupAssigns, ddPipes, ddPlugin, DdTypes, DdFlags, DdNumbers, DdPlaces, SupervisorFirst,
           StopWaits, ClaimFollows
  <2>8. QED
    BY <2>1, <2>2, <2>3, <2>4, <2>5, <2>6, <2>7 DEF DdTypes
<1>3. CASE SupChecks
  <2>1. DdFlags'
    BY <1>3 DEF SupChecks, ddDevice, ddPipes, ddPlugin, DdFlags, DdTypes
  <2>2. DdNumbers'
    BY <1>3, RunsFacts DEF SupChecks, ddDevice, ddPipes, ddPlugin, DdNumbers, DdTypes
  <2>3. DdPlaces'
    BY <1>3 DEF SupChecks, ddDevice, ddPipes, ddPlugin, DdPlaces, DdTypes
  <2>4. DdReaderTypes'
    BY <1>3, RunsFacts DEF SupChecks, ddDevice, ddPipes, ddPlugin, DdReaderTypes, DdNumbers, DdTypes
  <2>5. SupervisorFirst'
    BY <1>3
       DEF SupChecks, ddDevice, ddPipes, ddPlugin, DdTypes, DdFlags, DdNumbers, DdPlaces,
           SupervisorFirst, StopWaits, ClaimFollows
  <2>6. StopWaits'
    BY <1>3
       DEF SupChecks, ddDevice, ddPipes, ddPlugin, DdTypes, DdFlags, DdNumbers, DdPlaces,
           SupervisorFirst, StopWaits, ClaimFollows
  <2>7. ClaimFollows'
    BY <1>3
       DEF SupChecks, ddDevice, ddPipes, ddPlugin, DdTypes, DdFlags, DdNumbers, DdPlaces,
           SupervisorFirst, StopWaits, ClaimFollows
  <2>8. QED
    BY <2>1, <2>2, <2>3, <2>4, <2>5, <2>6, <2>7 DEF DdTypes
<1>4. CASE SupBuildsGroup
  <2>1. DdFlags'
    BY <1>4 DEF SupBuildsGroup, ddDevice, ddPipes, DdFlags, DdTypes
  <2>2. DdNumbers'
    BY <1>4, RunsFacts DEF SupBuildsGroup, ddDevice, ddPipes, DdNumbers, DdTypes
  <2>3. DdPlaces'
    BY <1>4 DEF SupBuildsGroup, ddDevice, ddPipes, DdPlaces, DdTypes
  <2>4. DdReaderTypes'
    BY <1>4, RunsFacts DEF SupBuildsGroup, ddDevice, ddPipes, DdReaderTypes, DdNumbers, DdTypes
  <2>5. SupervisorFirst'
    BY <1>4
       DEF SupBuildsGroup, ddDevice, ddPipes, DdTypes, DdFlags, DdNumbers, DdPlaces,
           SupervisorFirst, StopWaits, ClaimFollows
  <2>6. StopWaits'
    BY <1>4
       DEF SupBuildsGroup, ddDevice, ddPipes, DdTypes, DdFlags, DdNumbers, DdPlaces,
           SupervisorFirst, StopWaits, ClaimFollows
  <2>7. ClaimFollows'
    BY <1>4
       DEF SupBuildsGroup, ddDevice, ddPipes, DdTypes, DdFlags, DdNumbers, DdPlaces,
           SupervisorFirst, StopWaits, ClaimFollows
  <2>8. QED
    BY <2>1, <2>2, <2>3, <2>4, <2>5, <2>6, <2>7 DEF DdTypes
<1>5. CASE GroupStarts
  <2>0. ddPg' \in DdPgType
    BY <1>0, <1>5, PgKeepsType DEF GroupStarts, ddDevice, ddPipes, ddPlugin
  <2>1. DdFlags'
    BY <1>5, <2>0 DEF GroupStarts, ddDevice, ddPipes, ddPlugin, DdFlags, DdTypes
  <2>2. DdNumbers'
    BY <1>5, <2>0, RunsFacts
       DEF GroupStarts, ddDevice, ddPipes, ddPlugin, DdNumbers, DdTypes, DdPgType
  <2>3. DdPlaces'
    BY <1>5, <2>0 DEF GroupStarts, ddDevice, ddPipes, ddPlugin, DdPlaces, DdTypes
  <2>4. DdReaderTypes'
    BY <1>5, <2>0, RunsFacts
       DEF GroupStarts, ddDevice, ddPipes, ddPlugin, DdReaderTypes, DdNumbers, DdTypes
  <2>5. SupervisorFirst'
    BY <1>5, <2>0
       DEF GroupStarts, ddDevice, ddPipes, ddPlugin, DdTypes, DdFlags, DdNumbers, DdPlaces,
           SupervisorFirst, StopWaits, ClaimFollows, DdPgType
  <2>6. StopWaits'
    BY <1>5, <2>0
       DEF GroupStarts, ddDevice, ddPipes, ddPlugin, DdTypes, DdFlags, DdNumbers, DdPlaces,
           SupervisorFirst, StopWaits, ClaimFollows, DdPgType
  <2>7. ClaimFollows'
    BY <1>5, <2>0
       DEF GroupStarts, ddDevice, ddPipes, ddPlugin, DdTypes, DdFlags, DdNumbers, DdPlaces,
           SupervisorFirst, StopWaits, ClaimFollows, DdPgType
  <2>8. QED
    BY <2>1, <2>2, <2>3, <2>4, <2>5, <2>6, <2>7 DEF DdTypes
<1>6. CASE SupLaunches
  <2>1. CASE Launches
    <3>1. DdFlags'
      BY <1>6, <2>1 DEF SupLaunches, Launches, ddDevice, ddPipes, ddPlugin, DdFlags, DdTypes
    <3>2. DdNumbers'
      BY <1>6, <2>1, RunsFacts
         DEF SupLaunches, Launches, ddDevice, ddPipes, ddPlugin, DdNumbers, DdTypes
    <3>3. DdPlaces'
      BY <1>6, <2>1 DEF SupLaunches, Launches, ddDevice, ddPipes, ddPlugin, DdPlaces, DdTypes
    <3>4. DdReaderTypes'
      BY <1>6, <2>1, RunsFacts
         DEF SupLaunches, Launches, ddDevice, ddPipes, ddPlugin, DdReaderTypes, DdNumbers, DdTypes
    <3>5. SupervisorFirst'
      BY <1>6, <2>1
         DEF SupLaunches, Launches, ddDevice, ddPipes, ddPlugin, DdTypes, DdFlags, DdNumbers,
             DdPlaces, SupervisorFirst, StopWaits, ClaimFollows
    <3>6. StopWaits'
      BY <1>6, <2>1
         DEF SupLaunches, Launches, ddDevice, ddPipes, ddPlugin, DdTypes, DdFlags, DdNumbers,
             DdPlaces, SupervisorFirst, StopWaits, ClaimFollows
    <3>7. ClaimFollows'
      BY <1>6, <2>1
         DEF SupLaunches, Launches, ddDevice, ddPipes, ddPlugin, DdTypes, DdFlags, DdNumbers,
             DdPlaces, SupervisorFirst, StopWaits, ClaimFollows
    <3>8. QED
      BY <3>1, <3>2, <3>3, <3>4, <3>5, <3>6, <3>7 DEF DdTypes
  <2>2. CASE UNCHANGED ddPipes
    <3>1. DdFlags'
      BY <1>6, <2>2 DEF SupLaunches, Launches, ddDevice, ddPipes, ddPlugin, DdFlags, DdTypes
    <3>2. DdNumbers'
      BY <1>6, <2>2, RunsFacts
         DEF SupLaunches, Launches, ddDevice, ddPipes, ddPlugin, DdNumbers, DdTypes
    <3>3. DdPlaces'
      BY <1>6, <2>2 DEF SupLaunches, Launches, ddDevice, ddPipes, ddPlugin, DdPlaces, DdTypes
    <3>4. DdReaderTypes'
      BY <1>6, <2>2, RunsFacts
         DEF SupLaunches, Launches, ddDevice, ddPipes, ddPlugin, DdReaderTypes, DdNumbers, DdTypes
    <3>5. SupervisorFirst'
      BY <1>6, <2>2
         DEF SupLaunches, Launches, ddDevice, ddPipes, ddPlugin, DdTypes, DdFlags, DdNumbers,
             DdPlaces, SupervisorFirst, StopWaits, ClaimFollows
    <3>6. StopWaits'
      BY <1>6, <2>2
         DEF SupLaunches, Launches, ddDevice, ddPipes, ddPlugin, DdTypes, DdFlags, DdNumbers,
             DdPlaces, SupervisorFirst, StopWaits, ClaimFollows
    <3>7. ClaimFollows'
      BY <1>6, <2>2
         DEF SupLaunches, Launches, ddDevice, ddPipes, ddPlugin, DdTypes, DdFlags, DdNumbers,
             DdPlaces, SupervisorFirst, StopWaits, ClaimFollows
    <3>8. QED
      BY <3>1, <3>2, <3>3, <3>4, <3>5, <3>6, <3>7 DEF DdTypes
  <2>3. QED
    BY <1>6, <2>1, <2>2 DEF SupLaunches, Launches, ddDevice, ddPipes, ddPlugin
<1>7. CASE SupHook
  <2>1. DdFlags'
    BY <1>7 DEF SupHook, Adopts, Wanted, ddDevice, ddPipes, DdFlags, DdTypes
  <2>2. DdNumbers'
    BY <1>7, RunsFacts DEF SupHook, Adopts, Wanted, ddDevice, ddPipes, DdNumbers, DdTypes
  <2>3. DdPlaces'
    BY <1>7 DEF SupHook, Adopts, Wanted, ddDevice, ddPipes, DdPlaces, DdTypes
  <2>4. DdReaderTypes'
    BY <1>7, RunsFacts
       DEF SupHook, Adopts, Wanted, ddDevice, ddPipes, DdReaderTypes, DdNumbers, DdTypes
  <2>5. SupervisorFirst'
    BY <1>7
       DEF SupHook, Adopts, Wanted, ddDevice, ddPipes, DdTypes, DdFlags, DdNumbers, DdPlaces,
           SupervisorFirst, StopWaits, ClaimFollows
  <2>6. StopWaits'
    BY <1>7
       DEF SupHook, Adopts, Wanted, ddDevice, ddPipes, DdTypes, DdFlags, DdNumbers, DdPlaces,
           SupervisorFirst, StopWaits, ClaimFollows
  <2>7. ClaimFollows'
    BY <1>7
       DEF SupHook, Adopts, Wanted, ddDevice, ddPipes, DdTypes, DdFlags, DdNumbers, DdPlaces,
           SupervisorFirst, StopWaits, ClaimFollows
  <2>8. QED
    BY <2>1, <2>2, <2>3, <2>4, <2>5, <2>6, <2>7 DEF DdTypes
<1>8. CASE SupPublishes
  <2>1. CASE ddPg.stopped
    <3>0. ddPg' \in DdPgType
      BY <1>0, <1>8, <2>1, PgKeepsType DEF SupPublishes, ddDevice, ddPlugin
    <3>1. DdFlags'
      BY <1>8, <2>1, <3>0 DEF SupPublishes, ddDevice, ddPlugin, DdFlags, DdTypes
    <3>2. DdNumbers'
      BY <1>8, <2>1, <3>0, RunsFacts
         DEF SupPublishes, ddDevice, ddPlugin, DdNumbers, DdTypes, DdPgType
    <3>3. DdPlaces'
      BY <1>8, <2>1, <3>0 DEF SupPublishes, ddDevice, ddPlugin, DdPlaces, DdTypes
    <3>4. DdReaderTypes'
      BY <1>8, <2>1, <3>0, RunsFacts
         DEF SupPublishes, ddDevice, ddPlugin, DdReaderTypes, DdNumbers, DdTypes
    <3>5. SupervisorFirst'
      BY <1>8, <2>1, <3>0
         DEF SupPublishes, ddDevice, ddPlugin, DdTypes, DdFlags, DdNumbers, DdPlaces,
             SupervisorFirst, StopWaits, ClaimFollows, DdPgType
    <3>6. StopWaits'
      BY <1>8, <2>1, <3>0
         DEF SupPublishes, ddDevice, ddPlugin, DdTypes, DdFlags, DdNumbers, DdPlaces,
             SupervisorFirst, StopWaits, ClaimFollows, DdPgType
    <3>7. ClaimFollows'
      BY <1>8, <2>1, <3>0
         DEF SupPublishes, ddDevice, ddPlugin, DdTypes, DdFlags, DdNumbers, DdPlaces,
             SupervisorFirst, StopWaits, ClaimFollows, DdPgType
    <3>8. QED
      BY <3>1, <3>2, <3>3, <3>4, <3>5, <3>6, <3>7 DEF DdTypes
  <2>2. CASE ~ddPg.stopped
    <3>0. ddPg' \in DdPgType
      BY <1>0, <1>8, <2>2, PgKeepsType DEF SupPublishes, ddDevice, ddPlugin
    <3>1. DdFlags'
      BY <1>8, <2>2, <3>0 DEF SupPublishes, ddDevice, ddPlugin, DdFlags, DdTypes
    <3>2. DdNumbers'
      BY <1>8, <2>2, <3>0, RunsFacts
         DEF SupPublishes, ddDevice, ddPlugin, DdNumbers, DdTypes, DdPgType
    <3>3. DdPlaces'
      BY <1>8, <2>2, <3>0 DEF SupPublishes, ddDevice, ddPlugin, DdPlaces, DdTypes
    <3>4. DdReaderTypes'
      BY <1>8, <2>2, <3>0, RunsFacts
         DEF SupPublishes, ddDevice, ddPlugin, DdReaderTypes, DdNumbers, DdTypes
    <3>5. SupervisorFirst'
      BY <1>8, <2>2, <3>0
         DEF SupPublishes, ddDevice, ddPlugin, DdTypes, DdFlags, DdNumbers, DdPlaces,
             SupervisorFirst, StopWaits, ClaimFollows, DdPgType
    <3>6. StopWaits'
      BY <1>8, <2>2, <3>0
         DEF SupPublishes, ddDevice, ddPlugin, DdTypes, DdFlags, DdNumbers, DdPlaces,
             SupervisorFirst, StopWaits, ClaimFollows, DdPgType
    <3>7. ClaimFollows'
      BY <1>8, <2>2, <3>0
         DEF SupPublishes, ddDevice, ddPlugin, DdTypes, DdFlags, DdNumbers, DdPlaces,
             SupervisorFirst, StopWaits, ClaimFollows, DdPgType
    <3>8. QED
      BY <3>1, <3>2, <3>3, <3>4, <3>5, <3>6, <3>7 DEF DdTypes
  <2>3. QED
    BY <1>8, <2>1, <2>2 DEF SupPublishes, ddDevice, ddPlugin
<1>9. CASE SupCancels
  <2>0. ddPg' \in DdPgType
    BY <1>0, <1>9, PgKeepsType DEF SupCancels, Discards, ddDevice
  <2>1. DdFlags'
    BY <1>9, <2>0 DEF SupCancels, Discards, ddDevice, DdFlags, DdTypes
  <2>2. DdNumbers'
    BY <1>9, <2>0, RunsFacts DEF SupCancels, Discards, ddDevice, DdNumbers, DdTypes, DdPgType
  <2>3. DdPlaces'
    BY <1>9, <2>0 DEF SupCancels, Discards, ddDevice, DdPlaces, DdTypes
  <2>4. DdReaderTypes'
    BY <1>9, <2>0, RunsFacts DEF SupCancels, Discards, ddDevice, DdReaderTypes, DdNumbers, DdTypes
  <2>5. SupervisorFirst'
    BY <1>9, <2>0
       DEF SupCancels, Discards, ddDevice, DdTypes, DdFlags, DdNumbers, DdPlaces, SupervisorFirst,
           StopWaits, ClaimFollows, DdPgType
  <2>6. StopWaits'
    BY <1>9, <2>0
       DEF SupCancels, Discards, ddDevice, DdTypes, DdFlags, DdNumbers, DdPlaces, SupervisorFirst,
           StopWaits, ClaimFollows, DdPgType
  <2>7. ClaimFollows'
    BY <1>9, <2>0
       DEF SupCancels, Discards, ddDevice, DdTypes, DdFlags, DdNumbers, DdPlaces, SupervisorFirst,
           StopWaits, ClaimFollows, DdPgType
  <2>8. QED
    BY <2>1, <2>2, <2>3, <2>4, <2>5, <2>6, <2>7 DEF DdTypes
<1>10. CASE SupFails
  <2>1. DdFlags'
    BY <1>10 DEF SupFails, ReleasesLease, ddPipes, DdFlags, DdTypes
  <2>2. DdNumbers'
    BY <1>10, RunsFacts DEF SupFails, ReleasesLease, ddPipes, DdNumbers, DdTypes
  <2>3. DdPlaces'
    BY <1>10 DEF SupFails, ReleasesLease, ddPipes, DdPlaces, DdTypes
  <2>4. DdReaderTypes'
    BY <1>10, RunsFacts DEF SupFails, ReleasesLease, ddPipes, DdReaderTypes, DdNumbers, DdTypes
  <2>5. SupervisorFirst'
    BY <1>10
       DEF SupFails, ReleasesLease, ddPipes, DdTypes, DdFlags, DdNumbers, DdPlaces, SupervisorFirst,
           StopWaits, ClaimFollows
  <2>6. StopWaits'
    BY <1>10
       DEF SupFails, ReleasesLease, ddPipes, DdTypes, DdFlags, DdNumbers, DdPlaces, SupervisorFirst,
           StopWaits, ClaimFollows
  <2>7. ClaimFollows'
    BY <1>10
       DEF SupFails, ReleasesLease, ddPipes, DdTypes, DdFlags, DdNumbers, DdPlaces, SupervisorFirst,
           StopWaits, ClaimFollows
  <2>8. QED
    BY <2>1, <2>2, <2>3, <2>4, <2>5, <2>6, <2>7 DEF DdTypes
<1>11. CASE MonWaits
  <2>1. CASE ddPg.stopped
    <3>0. ddPg' \in DdPgType
      BY <1>0, <1>11, <2>1, PgKeepsType DEF MonWaits, MonTo, ddDevice, ddPipes, ddPlugin
    <3>1. DdFlags'
      BY <1>11, <2>1, <3>0 DEF MonWaits, MonTo, ddDevice, ddPipes, ddPlugin, DdFlags, DdTypes
    <3>2. DdNumbers'
      BY <1>11, <2>1, <3>0, RunsFacts
         DEF MonWaits, MonTo, ddDevice, ddPipes, ddPlugin, DdNumbers, DdTypes, DdPgType
    <3>3. DdPlaces'
      BY <1>11, <2>1, <3>0 DEF MonWaits, MonTo, ddDevice, ddPipes, ddPlugin, DdPlaces, DdTypes
    <3>4. DdReaderTypes'
      BY <1>11, <2>1, <3>0, RunsFacts
         DEF MonWaits, MonTo, ddDevice, ddPipes, ddPlugin, DdReaderTypes, DdNumbers, DdTypes
    <3>5. SupervisorFirst'
      BY <1>11, <2>1, <3>0
         DEF MonWaits, MonTo, ddDevice, ddPipes, ddPlugin, DdTypes, DdFlags, DdNumbers, DdPlaces,
             SupervisorFirst, StopWaits, ClaimFollows, DdPgType
    <3>6. StopWaits'
      BY <1>11, <2>1, <3>0
         DEF MonWaits, MonTo, ddDevice, ddPipes, ddPlugin, DdTypes, DdFlags, DdNumbers, DdPlaces,
             SupervisorFirst, StopWaits, ClaimFollows, DdPgType
    <3>7. ClaimFollows'
      BY <1>11, <2>1, <3>0
         DEF MonWaits, MonTo, ddDevice, ddPipes, ddPlugin, DdTypes, DdFlags, DdNumbers, DdPlaces,
             SupervisorFirst, StopWaits, ClaimFollows, DdPgType
    <3>8. QED
      BY <3>1, <3>2, <3>3, <3>4, <3>5, <3>6, <3>7 DEF DdTypes
  <2>2. CASE ~ddPg.stopped
    <3>0. ddPg' \in DdPgType
      BY <1>0, <1>11, <2>2, PgKeepsType DEF MonWaits, MonTo, ddDevice, ddPipes, ddPlugin
    <3>1. DdFlags'
      BY <1>11, <2>2, <3>0 DEF MonWaits, MonTo, ddDevice, ddPipes, ddPlugin, DdFlags, DdTypes
    <3>2. DdNumbers'
      BY <1>11, <2>2, <3>0, RunsFacts
         DEF MonWaits, MonTo, ddDevice, ddPipes, ddPlugin, DdNumbers, DdTypes, DdPgType
    <3>3. DdPlaces'
      BY <1>11, <2>2, <3>0 DEF MonWaits, MonTo, ddDevice, ddPipes, ddPlugin, DdPlaces, DdTypes
    <3>4. DdReaderTypes'
      BY <1>11, <2>2, <3>0, RunsFacts
         DEF MonWaits, MonTo, ddDevice, ddPipes, ddPlugin, DdReaderTypes, DdNumbers, DdTypes
    <3>5. SupervisorFirst'
      BY <1>11, <2>2, <3>0
         DEF MonWaits, MonTo, ddDevice, ddPipes, ddPlugin, DdTypes, DdFlags, DdNumbers, DdPlaces,
             SupervisorFirst, StopWaits, ClaimFollows, DdPgType
    <3>6. StopWaits'
      BY <1>11, <2>2, <3>0
         DEF MonWaits, MonTo, ddDevice, ddPipes, ddPlugin, DdTypes, DdFlags, DdNumbers, DdPlaces,
             SupervisorFirst, StopWaits, ClaimFollows, DdPgType
    <3>7. ClaimFollows'
      BY <1>11, <2>2, <3>0
         DEF MonWaits, MonTo, ddDevice, ddPipes, ddPlugin, DdTypes, DdFlags, DdNumbers, DdPlaces,
             SupervisorFirst, StopWaits, ClaimFollows, DdPgType
    <3>8. QED
      BY <3>1, <3>2, <3>3, <3>4, <3>5, <3>6, <3>7 DEF DdTypes
  <2>3. QED
    BY <1>11, <2>1, <2>2 DEF MonWaits, MonTo, ddDevice, ddPipes, ddPlugin
<1>12. CASE MonTerminates
  <2>1. CASE ddPg.stopped
    <3>0. ddPg' \in DdPgType
      BY <1>0, <1>12, <2>1, PgKeepsType
         DEF MonTerminates, MonTo, TerminatesCurrent, ddDevice, ddPipes, ddPlugin
    <3>1. DdFlags'
      BY <1>12, <2>1, <3>0
         DEF MonTerminates, MonTo, TerminatesCurrent, ddDevice, ddPipes, ddPlugin, DdFlags, DdTypes
    <3>2. DdNumbers'
      BY <1>12, <2>1, <3>0, RunsFacts
         DEF MonTerminates, MonTo, TerminatesCurrent, ddDevice, ddPipes, ddPlugin, DdNumbers,
             DdTypes, DdPgType
    <3>3. DdPlaces'
      BY <1>12, <2>1, <3>0
         DEF MonTerminates, MonTo, TerminatesCurrent, ddDevice, ddPipes, ddPlugin, DdPlaces, DdTypes
    <3>4. DdReaderTypes'
      BY <1>12, <2>1, <3>0, RunsFacts
         DEF MonTerminates, MonTo, TerminatesCurrent, ddDevice, ddPipes, ddPlugin, DdReaderTypes,
             DdNumbers, DdTypes
    <3>5. SupervisorFirst'
      BY <1>12, <2>1, <3>0
         DEF MonTerminates, MonTo, TerminatesCurrent, ddDevice, ddPipes, ddPlugin, DdTypes, DdFlags,
             DdNumbers, DdPlaces, SupervisorFirst, StopWaits, ClaimFollows, DdPgType
    <3>6. StopWaits'
      BY <1>12, <2>1, <3>0
         DEF MonTerminates, MonTo, TerminatesCurrent, ddDevice, ddPipes, ddPlugin, DdTypes, DdFlags,
             DdNumbers, DdPlaces, SupervisorFirst, StopWaits, ClaimFollows, DdPgType
    <3>7. ClaimFollows'
      BY <1>12, <2>1, <3>0
         DEF MonTerminates, MonTo, TerminatesCurrent, ddDevice, ddPipes, ddPlugin, DdTypes, DdFlags,
             DdNumbers, DdPlaces, SupervisorFirst, StopWaits, ClaimFollows, DdPgType
    <3>8. QED
      BY <3>1, <3>2, <3>3, <3>4, <3>5, <3>6, <3>7 DEF DdTypes
  <2>2. CASE ~ddPg.stopped
    <3>0. ddPg' \in DdPgType
      BY <1>0, <1>12, <2>2, PgKeepsType
         DEF MonTerminates, MonTo, TerminatesCurrent, ddDevice, ddPipes, ddPlugin
    <3>1. DdFlags'
      BY <1>12, <2>2, <3>0
         DEF MonTerminates, MonTo, TerminatesCurrent, ddDevice, ddPipes, ddPlugin, DdFlags, DdTypes
    <3>2. DdNumbers'
      BY <1>12, <2>2, <3>0, RunsFacts
         DEF MonTerminates, MonTo, TerminatesCurrent, ddDevice, ddPipes, ddPlugin, DdNumbers,
             DdTypes, DdPgType
    <3>3. DdPlaces'
      BY <1>12, <2>2, <3>0
         DEF MonTerminates, MonTo, TerminatesCurrent, ddDevice, ddPipes, ddPlugin, DdPlaces, DdTypes
    <3>4. DdReaderTypes'
      BY <1>12, <2>2, <3>0, RunsFacts
         DEF MonTerminates, MonTo, TerminatesCurrent, ddDevice, ddPipes, ddPlugin, DdReaderTypes,
             DdNumbers, DdTypes
    <3>5. SupervisorFirst'
      BY <1>12, <2>2, <3>0
         DEF MonTerminates, MonTo, TerminatesCurrent, ddDevice, ddPipes, ddPlugin, DdTypes, DdFlags,
             DdNumbers, DdPlaces, SupervisorFirst, StopWaits, ClaimFollows, DdPgType
    <3>6. StopWaits'
      BY <1>12, <2>2, <3>0
         DEF MonTerminates, MonTo, TerminatesCurrent, ddDevice, ddPipes, ddPlugin, DdTypes, DdFlags,
             DdNumbers, DdPlaces, SupervisorFirst, StopWaits, ClaimFollows, DdPgType
    <3>7. ClaimFollows'
      BY <1>12, <2>2, <3>0
         DEF MonTerminates, MonTo, TerminatesCurrent, ddDevice, ddPipes, ddPlugin, DdTypes, DdFlags,
             DdNumbers, DdPlaces, SupervisorFirst, StopWaits, ClaimFollows, DdPgType
    <3>8. QED
      BY <3>1, <3>2, <3>3, <3>4, <3>5, <3>6, <3>7 DEF DdTypes
  <2>3. QED
    BY <1>12, <2>1, <2>2 DEF MonTerminates, MonTo, TerminatesCurrent, ddDevice, ddPipes, ddPlugin
<1>13. CASE MonHook
  <2>1. DdFlags'
    BY <1>13 DEF MonHook, MonTo, ReleasesLease, ddDevice, ddPipes, ddPlugin, DdFlags, DdTypes
  <2>2. DdNumbers'
    BY <1>13, RunsFacts
       DEF MonHook, MonTo, ReleasesLease, ddDevice, ddPipes, ddPlugin, DdNumbers, DdTypes
  <2>3. DdPlaces'
    BY <1>13 DEF MonHook, MonTo, ReleasesLease, ddDevice, ddPipes, ddPlugin, DdPlaces, DdTypes
  <2>4. DdReaderTypes'
    BY <1>13, RunsFacts
       DEF MonHook, MonTo, ReleasesLease, ddDevice, ddPipes, ddPlugin, DdReaderTypes, DdNumbers,
           DdTypes
  <2>5. SupervisorFirst'
    BY <1>13
       DEF MonHook, MonTo, ReleasesLease, ddDevice, ddPipes, ddPlugin, DdTypes, DdFlags, DdNumbers,
           DdPlaces, SupervisorFirst, StopWaits, ClaimFollows
  <2>6. StopWaits'
    BY <1>13
       DEF MonHook, MonTo, ReleasesLease, ddDevice, ddPipes, ddPlugin, DdTypes, DdFlags, DdNumbers,
           DdPlaces, SupervisorFirst, StopWaits, ClaimFollows
  <2>7. ClaimFollows'
    BY <1>13
       DEF MonHook, MonTo, ReleasesLease, ddDevice, ddPipes, ddPlugin, DdTypes, DdFlags, DdNumbers,
           DdPlaces, SupervisorFirst, StopWaits, ClaimFollows
  <2>8. QED
    BY <2>1, <2>2, <2>3, <2>4, <2>5, <2>6, <2>7 DEF DdTypes
<1>14. CASE MonReserves
  <2>1. CASE ddCount < DdRestarts
    <3>1. DdFlags'
      BY <1>14, <2>1 DEF MonReserves, MonTo, ddDevice, ddPipes, ddPlugin, DdFlags, DdTypes
    <3>2. DdNumbers'
      BY <1>14, <2>1, RunsFacts
         DEF MonReserves, MonTo, ddDevice, ddPipes, ddPlugin, DdNumbers, DdTypes
    <3>3. DdPlaces'
      BY <1>14, <2>1 DEF MonReserves, MonTo, ddDevice, ddPipes, ddPlugin, DdPlaces, DdTypes
    <3>4. DdReaderTypes'
      BY <1>14, <2>1, RunsFacts
         DEF MonReserves, MonTo, ddDevice, ddPipes, ddPlugin, DdReaderTypes, DdNumbers, DdTypes
    <3>5. SupervisorFirst'
      BY <1>14, <2>1
         DEF MonReserves, MonTo, ddDevice, ddPipes, ddPlugin, DdTypes, DdFlags, DdNumbers, DdPlaces,
             SupervisorFirst, StopWaits, ClaimFollows
    <3>6. StopWaits'
      BY <1>14, <2>1
         DEF MonReserves, MonTo, ddDevice, ddPipes, ddPlugin, DdTypes, DdFlags, DdNumbers, DdPlaces,
             SupervisorFirst, StopWaits, ClaimFollows
    <3>7. ClaimFollows'
      BY <1>14, <2>1
         DEF MonReserves, MonTo, ddDevice, ddPipes, ddPlugin, DdTypes, DdFlags, DdNumbers, DdPlaces,
             SupervisorFirst, StopWaits, ClaimFollows
    <3>8. QED
      BY <3>1, <3>2, <3>3, <3>4, <3>5, <3>6, <3>7 DEF DdTypes
  <2>2. CASE ~(ddCount < DdRestarts)
    <3>1. DdFlags'
      BY <1>14, <2>2 DEF MonReserves, MonTo, ddDevice, ddPipes, ddPlugin, DdFlags, DdTypes
    <3>2. DdNumbers'
      BY <1>14, <2>2, RunsFacts
         DEF MonReserves, MonTo, ddDevice, ddPipes, ddPlugin, DdNumbers, DdTypes
    <3>3. DdPlaces'
      BY <1>14, <2>2 DEF MonReserves, MonTo, ddDevice, ddPipes, ddPlugin, DdPlaces, DdTypes
    <3>4. DdReaderTypes'
      BY <1>14, <2>2, RunsFacts
         DEF MonReserves, MonTo, ddDevice, ddPipes, ddPlugin, DdReaderTypes, DdNumbers, DdTypes
    <3>5. SupervisorFirst'
      BY <1>14, <2>2
         DEF MonReserves, MonTo, ddDevice, ddPipes, ddPlugin, DdTypes, DdFlags, DdNumbers, DdPlaces,
             SupervisorFirst, StopWaits, ClaimFollows
    <3>6. StopWaits'
      BY <1>14, <2>2
         DEF MonReserves, MonTo, ddDevice, ddPipes, ddPlugin, DdTypes, DdFlags, DdNumbers, DdPlaces,
             SupervisorFirst, StopWaits, ClaimFollows
    <3>7. ClaimFollows'
      BY <1>14, <2>2
         DEF MonReserves, MonTo, ddDevice, ddPipes, ddPlugin, DdTypes, DdFlags, DdNumbers, DdPlaces,
             SupervisorFirst, StopWaits, ClaimFollows
    <3>8. QED
      BY <3>1, <3>2, <3>3, <3>4, <3>5, <3>6, <3>7 DEF DdTypes
  <2>3. QED
    BY <1>14, <2>1, <2>2 DEF MonReserves, MonTo, ddDevice, ddPipes, ddPlugin
<1>15. CASE MonExhausted
  <2>1. DdFlags'
    BY <1>15 DEF MonExhausted, MonTo, ReleasesLease, ddDevice, ddPipes, DdFlags, DdTypes
  <2>2. DdNumbers'
    BY <1>15, RunsFacts
       DEF MonExhausted, MonTo, ReleasesLease, ddDevice, ddPipes, DdNumbers, DdTypes
  <2>3. DdPlaces'
    BY <1>15 DEF MonExhausted, MonTo, ReleasesLease, ddDevice, ddPipes, DdPlaces, DdTypes
  <2>4. DdReaderTypes'
    BY <1>15, RunsFacts
       DEF MonExhausted, MonTo, ReleasesLease, ddDevice, ddPipes, DdReaderTypes, DdNumbers, DdTypes
  <2>5. SupervisorFirst'
    BY <1>15
       DEF MonExhausted, MonTo, ReleasesLease, ddDevice, ddPipes, DdTypes, DdFlags, DdNumbers,
           DdPlaces, SupervisorFirst, StopWaits, ClaimFollows
  <2>6. StopWaits'
    BY <1>15
       DEF MonExhausted, MonTo, ReleasesLease, ddDevice, ddPipes, DdTypes, DdFlags, DdNumbers,
           DdPlaces, SupervisorFirst, StopWaits, ClaimFollows
  <2>7. ClaimFollows'
    BY <1>15
       DEF MonExhausted, MonTo, ReleasesLease, ddDevice, ddPipes, DdTypes, DdFlags, DdNumbers,
           DdPlaces, SupervisorFirst, StopWaits, ClaimFollows
  <2>8. QED
    BY <2>1, <2>2, <2>3, <2>4, <2>5, <2>6, <2>7 DEF DdTypes
<1>16. CASE MonBacksOff
  <2>1. DdFlags'
    BY <1>16 DEF MonBacksOff, MonTo, ddDevice, ddPipes, ddPlugin, DdFlags, DdTypes
  <2>2. DdNumbers'
    BY <1>16, RunsFacts DEF MonBacksOff, MonTo, ddDevice, ddPipes, ddPlugin, DdNumbers, DdTypes
  <2>3. DdPlaces'
    BY <1>16 DEF MonBacksOff, MonTo, ddDevice, ddPipes, ddPlugin, DdPlaces, DdTypes
  <2>4. DdReaderTypes'
    BY <1>16, RunsFacts
       DEF MonBacksOff, MonTo, ddDevice, ddPipes, ddPlugin, DdReaderTypes, DdNumbers, DdTypes
  <2>5. SupervisorFirst'
    BY <1>16
       DEF MonBacksOff, MonTo, ddDevice, ddPipes, ddPlugin, DdTypes, DdFlags, DdNumbers, DdPlaces,
           SupervisorFirst, StopWaits, ClaimFollows
  <2>6. StopWaits'
    BY <1>16
       DEF MonBacksOff, MonTo, ddDevice, ddPipes, ddPlugin, DdTypes, DdFlags, DdNumbers, DdPlaces,
           SupervisorFirst, StopWaits, ClaimFollows
  <2>7. ClaimFollows'
    BY <1>16
       DEF MonBacksOff, MonTo, ddDevice, ddPipes, ddPlugin, DdTypes, DdFlags, DdNumbers, DdPlaces,
           SupervisorFirst, StopWaits, ClaimFollows
  <2>8. QED
    BY <2>1, <2>2, <2>3, <2>4, <2>5, <2>6, <2>7 DEF DdTypes
<1>17. CASE MonPrepares
  <2>1. DdFlags'
    BY <1>17 DEF MonPrepares, MonTo, Wanted, ddDevice, ddPipes, ddPlugin, DdFlags, DdTypes
  <2>2. DdNumbers'
    BY <1>17, RunsFacts DEF MonPrepares, MonTo, Wanted, ddDevice, ddPipes, ddPlugin, DdNumbers, DdTypes
  <2>3. DdPlaces'
    BY <1>17 DEF MonPrepares, MonTo, Wanted, ddDevice, ddPipes, ddPlugin, DdPlaces, DdTypes
  <2>4. DdReaderTypes'
    BY <1>17, RunsFacts
       DEF MonPrepares, MonTo, Wanted, ddDevice, ddPipes, ddPlugin, DdReaderTypes, DdNumbers, DdTypes
  <2>5. SupervisorFirst'
    BY <1>17
       DEF MonPrepares, MonTo, Wanted, ddDevice, ddPipes, ddPlugin, DdTypes, DdFlags, DdNumbers, DdPlaces,
           SupervisorFirst, StopWaits, ClaimFollows
  <2>6. StopWaits'
    BY <1>17
       DEF MonPrepares, MonTo, Wanted, ddDevice, ddPipes, ddPlugin, DdTypes, DdFlags, DdNumbers, DdPlaces,
           SupervisorFirst, StopWaits, ClaimFollows
  <2>7. ClaimFollows'
    BY <1>17
       DEF MonPrepares, MonTo, Wanted, ddDevice, ddPipes, ddPlugin, DdTypes, DdFlags, DdNumbers, DdPlaces,
           SupervisorFirst, StopWaits, ClaimFollows
  <2>8. QED
    BY <2>1, <2>2, <2>3, <2>4, <2>5, <2>6, <2>7 DEF DdTypes
<1>17a. CASE MonClaims
  <2>1. CASE Claims
    <3>1. DdFlags'
      BY <1>17a, <2>1
         DEF MonClaims, Claims, MonTo, ddDevice, ddPipes, ddPlugin, DdFlags, DdTypes
    <3>2. DdNumbers'
      BY <1>17a, <2>1, RunsFacts
         DEF MonClaims, Claims, MonTo, ddDevice, ddPipes, ddPlugin, DdNumbers, DdTypes
    <3>3. DdPlaces'
      BY <1>17a, <2>1
         DEF MonClaims, Claims, MonTo, ddDevice, ddPipes, ddPlugin, DdPlaces, DdTypes
    <3>4. DdReaderTypes'
      BY <1>17a, <2>1, RunsFacts
         DEF MonClaims, Claims, MonTo, ddDevice, ddPipes, ddPlugin, DdReaderTypes,
             DdNumbers, DdTypes
    <3>5. SupervisorFirst'
      BY <1>17a, <2>1
         DEF MonClaims, Claims, MonTo, ddDevice, ddPipes, ddPlugin, DdTypes, DdFlags,
             DdNumbers, DdPlaces, SupervisorFirst, StopWaits, ClaimFollows
    <3>6. StopWaits'
      BY <1>17a, <2>1
         DEF MonClaims, Claims, MonTo, ddDevice, ddPipes, ddPlugin, DdTypes, DdFlags,
             DdNumbers, DdPlaces, SupervisorFirst, StopWaits, ClaimFollows
    <3>7. ClaimFollows'
      BY <1>17a, <2>1
         DEF MonClaims, Claims, MonTo, ddDevice, ddPipes, ddPlugin, DdTypes, DdFlags,
             DdNumbers, DdPlaces, SupervisorFirst, StopWaits, ClaimFollows
    <3>8. QED
      BY <3>1, <3>2, <3>3, <3>4, <3>5, <3>6, <3>7 DEF DdTypes
  <2>2. CASE UNCHANGED ddDevice
    <3>1. DdFlags'
      BY <1>17a, <2>2
         DEF MonClaims, Claims, MonTo, ddDevice, ddPipes, ddPlugin, DdFlags, DdTypes
    <3>2. DdNumbers'
      BY <1>17a, <2>2, RunsFacts
         DEF MonClaims, Claims, MonTo, ddDevice, ddPipes, ddPlugin, DdNumbers, DdTypes
    <3>3. DdPlaces'
      BY <1>17a, <2>2
         DEF MonClaims, Claims, MonTo, ddDevice, ddPipes, ddPlugin, DdPlaces, DdTypes
    <3>4. DdReaderTypes'
      BY <1>17a, <2>2, RunsFacts
         DEF MonClaims, Claims, MonTo, ddDevice, ddPipes, ddPlugin, DdReaderTypes,
             DdNumbers, DdTypes
    <3>5. SupervisorFirst'
      BY <1>17a, <2>2
         DEF MonClaims, Claims, MonTo, ddDevice, ddPipes, ddPlugin, DdTypes, DdFlags,
             DdNumbers, DdPlaces, SupervisorFirst, StopWaits, ClaimFollows
    <3>6. StopWaits'
      BY <1>17a, <2>2
         DEF MonClaims, Claims, MonTo, ddDevice, ddPipes, ddPlugin, DdTypes, DdFlags,
             DdNumbers, DdPlaces, SupervisorFirst, StopWaits, ClaimFollows
    <3>7. ClaimFollows'
      BY <1>17a, <2>2
         DEF MonClaims, Claims, MonTo, ddDevice, ddPipes, ddPlugin, DdTypes, DdFlags,
             DdNumbers, DdPlaces, SupervisorFirst, StopWaits, ClaimFollows
    <3>8. QED
      BY <3>1, <3>2, <3>3, <3>4, <3>5, <3>6, <3>7 DEF DdTypes
  <2>3. QED
    BY <1>17a, <2>1, <2>2 DEF MonClaims
<1>18. CASE MonAssigns
  <2>1. DdFlags'
    BY <1>18 DEF MonAssigns, MonTo, ddPipes, ddPlugin, DdFlags, DdTypes
  <2>2. DdNumbers'
    BY <1>18, RunsFacts DEF MonAssigns, MonTo, ddPipes, ddPlugin, DdNumbers, DdTypes
  <2>3. DdPlaces'
    BY <1>18 DEF MonAssigns, MonTo, ddPipes, ddPlugin, DdPlaces, DdTypes
  <2>4. DdReaderTypes'
    BY <1>18, RunsFacts DEF MonAssigns, MonTo, ddPipes, ddPlugin, DdReaderTypes, DdNumbers, DdTypes
  <2>5. SupervisorFirst'
    BY <1>18
       DEF MonAssigns, MonTo, ddPipes, ddPlugin, DdTypes, DdFlags, DdNumbers, DdPlaces,
           SupervisorFirst, StopWaits, ClaimFollows
  <2>6. StopWaits'
    BY <1>18
       DEF MonAssigns, MonTo, ddPipes, ddPlugin, DdTypes, DdFlags, DdNumbers, DdPlaces,
           SupervisorFirst, StopWaits, ClaimFollows
  <2>7. ClaimFollows'
    BY <1>18
       DEF MonAssigns, MonTo, ddPipes, ddPlugin, DdTypes, DdFlags, DdNumbers, DdPlaces,
           SupervisorFirst, StopWaits, ClaimFollows
  <2>8. QED
    BY <2>1, <2>2, <2>3, <2>4, <2>5, <2>6, <2>7 DEF DdTypes
<1>19. CASE MonLaunches
  <2>1. CASE Launches
    <3>1. DdFlags'
      BY <1>19, <2>1 DEF MonLaunches, Launches, MonTo, ddDevice, ddPipes, ddPlugin, DdFlags, DdTypes
    <3>2. DdNumbers'
      BY <1>19, <2>1, RunsFacts
         DEF MonLaunches, Launches, MonTo, ddDevice, ddPipes, ddPlugin, DdNumbers, DdTypes
    <3>3. DdPlaces'
      BY <1>19, <2>1
         DEF MonLaunches, Launches, MonTo, ddDevice, ddPipes, ddPlugin, DdPlaces, DdTypes
    <3>4. DdReaderTypes'
      BY <1>19, <2>1, RunsFacts
         DEF MonLaunches, Launches, MonTo, ddDevice, ddPipes, ddPlugin, DdReaderTypes, DdNumbers,
             DdTypes
    <3>5. SupervisorFirst'
      BY <1>19, <2>1
         DEF MonLaunches, Launches, MonTo, ddDevice, ddPipes, ddPlugin, DdTypes, DdFlags, DdNumbers,
             DdPlaces, SupervisorFirst, StopWaits, ClaimFollows
    <3>6. StopWaits'
      BY <1>19, <2>1
         DEF MonLaunches, Launches, MonTo, ddDevice, ddPipes, ddPlugin, DdTypes, DdFlags, DdNumbers,
             DdPlaces, SupervisorFirst, StopWaits, ClaimFollows
    <3>7. ClaimFollows'
      BY <1>19, <2>1
         DEF MonLaunches, Launches, MonTo, ddDevice, ddPipes, ddPlugin, DdTypes, DdFlags, DdNumbers,
             DdPlaces, SupervisorFirst, StopWaits, ClaimFollows
    <3>8. QED
      BY <3>1, <3>2, <3>3, <3>4, <3>5, <3>6, <3>7 DEF DdTypes
  <2>2. CASE UNCHANGED ddPipes
    <3>1. DdFlags'
      BY <1>19, <2>2 DEF MonLaunches, Launches, MonTo, ddDevice, ddPipes, ddPlugin, DdFlags, DdTypes
    <3>2. DdNumbers'
      BY <1>19, <2>2, RunsFacts
         DEF MonLaunches, Launches, MonTo, ddDevice, ddPipes, ddPlugin, DdNumbers, DdTypes
    <3>3. DdPlaces'
      BY <1>19, <2>2
         DEF MonLaunches, Launches, MonTo, ddDevice, ddPipes, ddPlugin, DdPlaces, DdTypes
    <3>4. DdReaderTypes'
      BY <1>19, <2>2, RunsFacts
         DEF MonLaunches, Launches, MonTo, ddDevice, ddPipes, ddPlugin, DdReaderTypes, DdNumbers,
             DdTypes
    <3>5. SupervisorFirst'
      BY <1>19, <2>2
         DEF MonLaunches, Launches, MonTo, ddDevice, ddPipes, ddPlugin, DdTypes, DdFlags, DdNumbers,
             DdPlaces, SupervisorFirst, StopWaits, ClaimFollows
    <3>6. StopWaits'
      BY <1>19, <2>2
         DEF MonLaunches, Launches, MonTo, ddDevice, ddPipes, ddPlugin, DdTypes, DdFlags, DdNumbers,
             DdPlaces, SupervisorFirst, StopWaits, ClaimFollows
    <3>7. ClaimFollows'
      BY <1>19, <2>2
         DEF MonLaunches, Launches, MonTo, ddDevice, ddPipes, ddPlugin, DdTypes, DdFlags, DdNumbers,
             DdPlaces, SupervisorFirst, StopWaits, ClaimFollows
    <3>8. QED
      BY <3>1, <3>2, <3>3, <3>4, <3>5, <3>6, <3>7 DEF DdTypes
  <2>3. QED
    BY <1>19, <2>1, <2>2 DEF MonLaunches, Launches, MonTo, ddDevice, ddPipes, ddPlugin
<1>20. CASE MonPublishes
  <2>1. CASE ddPg.stopped
    <3>0. ddPg' \in DdPgType
      BY <1>0, <1>20, <2>1, PgKeepsType DEF MonPublishes, Discards, MonTo, ddDevice, ddPlugin
    <3>10. ddPg.procs = 0 /\ ddSup = "done" /\ ddAlive \subseteq {ddLocal}
      BY <1>20, <2>1, <3>0
         DEF MonPublishes, Discards, MonTo, ddDevice, ddPlugin, DdTypes, DdNumbers, SupervisorFirst
    <3>11. ~ddPg.stopped => ddPg'.procs = ddLocal /\ ddPg'.starting = ddPg.starting /\ ddPg'.running = ddPg.running /\ ddPg'.stopped = ddPg.stopped
      BY <1>20, <2>1, <3>0
         DEF MonPublishes, Discards, MonTo, ddDevice, ddPlugin, DdTypes, DdFlags, DdPgType
    <3>1. DdFlags'
      BY <1>20, <2>1, <3>0 DEF MonPublishes, Discards, MonTo, ddDevice, ddPlugin, DdFlags, DdTypes
    <3>2. DdNumbers'
      BY <1>20, <2>1, <3>0, RunsFacts
         DEF MonPublishes, Discards, MonTo, ddDevice, ddPlugin, DdNumbers, DdTypes, DdPgType
    <3>3. DdPlaces'
      BY <1>20, <2>1, <3>0 DEF MonPublishes, Discards, MonTo, ddDevice, ddPlugin, DdPlaces, DdTypes
    <3>4. DdReaderTypes'
      BY <1>20, <2>1, <3>0, RunsFacts
         DEF MonPublishes, Discards, MonTo, ddDevice, ddPlugin, DdReaderTypes, DdNumbers, DdTypes
    <3>5. SupervisorFirst'
      BY <1>20, <2>1, <3>0, <3>10, <3>11
         DEF MonPublishes, Discards, MonTo, ddDevice, ddPlugin, DdTypes, DdFlags, DdNumbers,
             DdPlaces, SupervisorFirst, StopWaits, ClaimFollows, DdPgType
    <3>6. StopWaits'
      BY <1>20, <2>1, <3>0, <3>10, <3>11
         DEF MonPublishes, Discards, MonTo, ddDevice, ddPlugin, DdTypes, DdFlags, DdNumbers,
             DdPlaces, SupervisorFirst, StopWaits, ClaimFollows, DdPgType
    <3>7. ClaimFollows'
      BY <1>20, <2>1, <3>0, <3>10, <3>11
         DEF MonPublishes, Discards, MonTo, ddDevice, ddPlugin, DdTypes, DdFlags, DdNumbers,
             DdPlaces, SupervisorFirst, StopWaits, ClaimFollows, DdPgType
    <3>8. QED
      BY <3>1, <3>2, <3>3, <3>4, <3>5, <3>6, <3>7 DEF DdTypes
  <2>2. CASE ~ddPg.stopped
    <3>0. ddPg' \in DdPgType
      BY <1>0, <1>20, <2>2, PgKeepsType DEF MonPublishes, Discards, MonTo, ddDevice, ddPlugin
    <3>10. ddPg.procs = 0 /\ ddSup = "done" /\ ddAlive \subseteq {ddLocal}
      BY <1>20, <2>2, <3>0
         DEF MonPublishes, Discards, MonTo, ddDevice, ddPlugin, DdTypes, DdNumbers, SupervisorFirst
    <3>11. ~ddPg.stopped => ddPg'.procs = ddLocal /\ ddPg'.starting = ddPg.starting /\ ddPg'.running = ddPg.running /\ ddPg'.stopped = ddPg.stopped
      BY <1>20, <2>2, <3>0
         DEF MonPublishes, Discards, MonTo, ddDevice, ddPlugin, DdTypes, DdFlags, DdPgType
    <3>1. DdFlags'
      BY <1>20, <2>2, <3>0 DEF MonPublishes, Discards, MonTo, ddDevice, ddPlugin, DdFlags, DdTypes
    <3>2. DdNumbers'
      BY <1>20, <2>2, <3>0, RunsFacts
         DEF MonPublishes, Discards, MonTo, ddDevice, ddPlugin, DdNumbers, DdTypes, DdPgType
    <3>3. DdPlaces'
      BY <1>20, <2>2, <3>0 DEF MonPublishes, Discards, MonTo, ddDevice, ddPlugin, DdPlaces, DdTypes
    <3>4. DdReaderTypes'
      BY <1>20, <2>2, <3>0, RunsFacts
         DEF MonPublishes, Discards, MonTo, ddDevice, ddPlugin, DdReaderTypes, DdNumbers, DdTypes
    <3>5. SupervisorFirst'
      BY <1>20, <2>2, <3>0, <3>10, <3>11
         DEF MonPublishes, Discards, MonTo, ddDevice, ddPlugin, DdTypes, DdFlags, DdNumbers,
             DdPlaces, SupervisorFirst, StopWaits, ClaimFollows, DdPgType
    <3>6. StopWaits'
      BY <1>20, <2>2, <3>0, <3>10, <3>11
         DEF MonPublishes, Discards, MonTo, ddDevice, ddPlugin, DdTypes, DdFlags, DdNumbers,
             DdPlaces, SupervisorFirst, StopWaits, ClaimFollows, DdPgType
    <3>7. ClaimFollows'
      BY <1>20, <2>2, <3>0, <3>10, <3>11
         DEF MonPublishes, Discards, MonTo, ddDevice, ddPlugin, DdTypes, DdFlags, DdNumbers,
             DdPlaces, SupervisorFirst, StopWaits, ClaimFollows, DdPgType
    <3>8. QED
      BY <3>1, <3>2, <3>3, <3>4, <3>5, <3>6, <3>7 DEF DdTypes
  <2>3. QED
    BY <1>20, <2>1, <2>2 DEF MonPublishes, Discards, MonTo, ddDevice, ddPlugin
<1>21. CASE MonStarted
  <2>1. CASE Wanted /\ ddPg.procs # 0
    <3>0. ddPg' \in DdPgType
      BY <1>0, <1>21, <2>1, PgKeepsType
         DEF MonStarted, Adopts, MonTo, TerminatesCurrent, Wanted, ddDevice, ddPipes
    <3>1. DdFlags'
      BY <1>21, <2>1, <3>0
         DEF MonStarted, Adopts, MonTo, TerminatesCurrent, Wanted, ddDevice, ddPipes, DdFlags,
             DdTypes
    <3>2. DdNumbers'
      BY <1>21, <2>1, <3>0, RunsFacts
         DEF MonStarted, Adopts, MonTo, TerminatesCurrent, Wanted, ddDevice, ddPipes, DdNumbers,
             DdTypes, DdPgType
    <3>3. DdPlaces'
      BY <1>21, <2>1, <3>0
         DEF MonStarted, Adopts, MonTo, TerminatesCurrent, Wanted, ddDevice, ddPipes, DdPlaces,
             DdTypes
    <3>4. DdReaderTypes'
      BY <1>21, <2>1, <3>0, RunsFacts
         DEF MonStarted, Adopts, MonTo, TerminatesCurrent, Wanted, ddDevice, ddPipes, DdReaderTypes,
             DdNumbers, DdTypes
    <3>5. SupervisorFirst'
      BY <1>21, <2>1, <3>0
         DEF MonStarted, Adopts, MonTo, TerminatesCurrent, Wanted, ddDevice, ddPipes, DdTypes,
             DdFlags, DdNumbers, DdPlaces, SupervisorFirst, StopWaits, ClaimFollows, DdPgType
    <3>6. StopWaits'
      BY <1>21, <2>1, <3>0
         DEF MonStarted, Adopts, MonTo, TerminatesCurrent, Wanted, ddDevice, ddPipes, DdTypes,
             DdFlags, DdNumbers, DdPlaces, SupervisorFirst, StopWaits, ClaimFollows, DdPgType
    <3>7. ClaimFollows'
      BY <1>21, <2>1, <3>0
         DEF MonStarted, Adopts, MonTo, TerminatesCurrent, Wanted, ddDevice, ddPipes, DdTypes,
             DdFlags, DdNumbers, DdPlaces, SupervisorFirst, StopWaits, ClaimFollows, DdPgType
    <3>8. QED
      BY <3>1, <3>2, <3>3, <3>4, <3>5, <3>6, <3>7 DEF DdTypes
  <2>2. CASE ~(Wanted /\ ddPg.procs # 0)
    <3>0. ddPg' \in DdPgType
      BY <1>0, <1>21, <2>2, PgKeepsType
         DEF MonStarted, Adopts, MonTo, TerminatesCurrent, Wanted, ddDevice, ddPipes
    <3>1. DdFlags'
      BY <1>21, <2>2, <3>0
         DEF MonStarted, Adopts, MonTo, TerminatesCurrent, Wanted, ddDevice, ddPipes, DdFlags,
             DdTypes
    <3>2. DdNumbers'
      BY <1>21, <2>2, <3>0, RunsFacts
         DEF MonStarted, Adopts, MonTo, TerminatesCurrent, Wanted, ddDevice, ddPipes, DdNumbers,
             DdTypes, DdPgType
    <3>3. DdPlaces'
      BY <1>21, <2>2, <3>0
         DEF MonStarted, Adopts, MonTo, TerminatesCurrent, Wanted, ddDevice, ddPipes, DdPlaces,
             DdTypes
    <3>4. DdReaderTypes'
      BY <1>21, <2>2, <3>0, RunsFacts
         DEF MonStarted, Adopts, MonTo, TerminatesCurrent, Wanted, ddDevice, ddPipes, DdReaderTypes,
             DdNumbers, DdTypes
    <3>5. SupervisorFirst'
      BY <1>21, <2>2, <3>0
         DEF MonStarted, Adopts, MonTo, TerminatesCurrent, Wanted, ddDevice, ddPipes, DdTypes,
             DdFlags, DdNumbers, DdPlaces, SupervisorFirst, StopWaits, ClaimFollows, DdPgType
    <3>6. StopWaits'
      BY <1>21, <2>2, <3>0
         DEF MonStarted, Adopts, MonTo, TerminatesCurrent, Wanted, ddDevice, ddPipes, DdTypes,
             DdFlags, DdNumbers, DdPlaces, SupervisorFirst, StopWaits, ClaimFollows, DdPgType
    <3>7. ClaimFollows'
      BY <1>21, <2>2, <3>0
         DEF MonStarted, Adopts, MonTo, TerminatesCurrent, Wanted, ddDevice, ddPipes, DdTypes,
             DdFlags, DdNumbers, DdPlaces, SupervisorFirst, StopWaits, ClaimFollows, DdPgType
    <3>8. QED
      BY <3>1, <3>2, <3>3, <3>4, <3>5, <3>6, <3>7 DEF DdTypes
  <2>3. QED
    BY <1>21, <2>1, <2>2 DEF MonStarted, Adopts, MonTo, TerminatesCurrent, Wanted, ddDevice, ddPipes
<1>22. CASE MonRestartFailed
  <2>1. DdFlags'
    BY <1>22
       DEF MonRestartFailed, MonTo, ReleasesLease, ddDevice, ddPipes, ddPlugin, DdFlags, DdTypes
  <2>2. DdNumbers'
    BY <1>22, RunsFacts
       DEF MonRestartFailed, MonTo, ReleasesLease, ddDevice, ddPipes, ddPlugin, DdNumbers, DdTypes
  <2>3. DdPlaces'
    BY <1>22
       DEF MonRestartFailed, MonTo, ReleasesLease, ddDevice, ddPipes, ddPlugin, DdPlaces, DdTypes
  <2>4. DdReaderTypes'
    BY <1>22, RunsFacts
       DEF MonRestartFailed, MonTo, ReleasesLease, ddDevice, ddPipes, ddPlugin, DdReaderTypes,
           DdNumbers, DdTypes
  <2>5. SupervisorFirst'
    BY <1>22
       DEF MonRestartFailed, MonTo, ReleasesLease, ddDevice, ddPipes, ddPlugin, DdTypes, DdFlags,
           DdNumbers, DdPlaces, SupervisorFirst, StopWaits, ClaimFollows
  <2>6. StopWaits'
    BY <1>22
       DEF MonRestartFailed, MonTo, ReleasesLease, ddDevice, ddPipes, ddPlugin, DdTypes, DdFlags,
           DdNumbers, DdPlaces, SupervisorFirst, StopWaits, ClaimFollows
  <2>7. ClaimFollows'
    BY <1>22
       DEF MonRestartFailed, MonTo, ReleasesLease, ddDevice, ddPipes, ddPlugin, DdTypes, DdFlags,
           DdNumbers, DdPlaces, SupervisorFirst, StopWaits, ClaimFollows
  <2>8. QED
    BY <2>1, <2>2, <2>3, <2>4, <2>5, <2>6, <2>7 DEF DdTypes
<1>23. CASE MonExits
  <2>0. ddPg' \in DdPgType
    BY <1>0, <1>23, PgKeepsType DEF MonExits, MonTo, ddDevice, ddPipes, ddPlugin
  <2>1. DdFlags'
    BY <1>23, <2>0 DEF MonExits, MonTo, ddDevice, ddPipes, ddPlugin, DdFlags, DdTypes
  <2>2. DdNumbers'
    BY <1>23, <2>0, RunsFacts
       DEF MonExits, MonTo, ddDevice, ddPipes, ddPlugin, DdNumbers, DdTypes, DdPgType
  <2>3. DdPlaces'
    BY <1>23, <2>0 DEF MonExits, MonTo, ddDevice, ddPipes, ddPlugin, DdPlaces, DdTypes
  <2>4. DdReaderTypes'
    BY <1>23, <2>0, RunsFacts
       DEF MonExits, MonTo, ddDevice, ddPipes, ddPlugin, DdReaderTypes, DdNumbers, DdTypes
  <2>5. SupervisorFirst'
    BY <1>23, <2>0
       DEF MonExits, MonTo, ddDevice, ddPipes, ddPlugin, DdTypes, DdFlags, DdNumbers, DdPlaces,
           SupervisorFirst, StopWaits, ClaimFollows, DdPgType
  <2>6. StopWaits'
    BY <1>23, <2>0
       DEF MonExits, MonTo, ddDevice, ddPipes, ddPlugin, DdTypes, DdFlags, DdNumbers, DdPlaces,
           SupervisorFirst, StopWaits, ClaimFollows, DdPgType
  <2>7. ClaimFollows'
    BY <1>23, <2>0
       DEF MonExits, MonTo, ddDevice, ddPipes, ddPlugin, DdTypes, DdFlags, DdNumbers, DdPlaces,
           SupervisorFirst, StopWaits, ClaimFollows, DdPgType
  <2>8. QED
    BY <2>1, <2>2, <2>3, <2>4, <2>5, <2>6, <2>7 DEF DdTypes
<1>24. CASE DdStopBegins
  <2>1. DdFlags'
    BY <1>24 DEF DdStopBegins, StopTo, ddDevice, ddPipes, DdFlags, DdTypes
  <2>2. DdNumbers'
    BY <1>24, RunsFacts DEF DdStopBegins, StopTo, ddDevice, ddPipes, DdNumbers, DdTypes
  <2>3. DdPlaces'
    BY <1>24 DEF DdStopBegins, StopTo, ddDevice, ddPipes, DdPlaces, DdTypes
  <2>4. DdReaderTypes'
    BY <1>24, RunsFacts
       DEF DdStopBegins, StopTo, ddDevice, ddPipes, DdReaderTypes, DdNumbers, DdTypes
  <2>5. SupervisorFirst'
    BY <1>24
       DEF DdStopBegins, StopTo, ddDevice, ddPipes, DdTypes, DdFlags, DdNumbers, DdPlaces,
           SupervisorFirst, StopWaits, ClaimFollows
  <2>6. StopWaits'
    BY <1>24
       DEF DdStopBegins, StopTo, ddDevice, ddPipes, DdTypes, DdFlags, DdNumbers, DdPlaces,
           SupervisorFirst, StopWaits, ClaimFollows
  <2>7. ClaimFollows'
    BY <1>24
       DEF DdStopBegins, StopTo, ddDevice, ddPipes, DdTypes, DdFlags, DdNumbers, DdPlaces,
           SupervisorFirst, StopWaits, ClaimFollows
  <2>8. QED
    BY <2>1, <2>2, <2>3, <2>4, <2>5, <2>6, <2>7 DEF DdTypes
<1>25. CASE StopDetaches
  <2>1. DdFlags'
    BY <1>25 DEF StopDetaches, StopTo, ddDevice, ddPipes, DdFlags, DdTypes
  <2>2. DdNumbers'
    BY <1>25, RunsFacts DEF StopDetaches, StopTo, ddDevice, ddPipes, DdNumbers, DdTypes
  <2>3. DdPlaces'
    BY <1>25 DEF StopDetaches, StopTo, ddDevice, ddPipes, DdPlaces, DdTypes
  <2>4. DdReaderTypes'
    BY <1>25, RunsFacts
       DEF StopDetaches, StopTo, ddDevice, ddPipes, DdReaderTypes, DdNumbers, DdTypes
  <2>5. SupervisorFirst'
    BY <1>25
       DEF StopDetaches, StopTo, ddDevice, ddPipes, DdTypes, DdFlags, DdNumbers, DdPlaces,
           SupervisorFirst, StopWaits, ClaimFollows
  <2>6. StopWaits'
    BY <1>25
       DEF StopDetaches, StopTo, ddDevice, ddPipes, DdTypes, DdFlags, DdNumbers, DdPlaces,
           SupervisorFirst, StopWaits, ClaimFollows
  <2>7. ClaimFollows'
    BY <1>25
       DEF StopDetaches, StopTo, ddDevice, ddPipes, DdTypes, DdFlags, DdNumbers, DdPlaces,
           SupervisorFirst, StopWaits, ClaimFollows
  <2>8. QED
    BY <2>1, <2>2, <2>3, <2>4, <2>5, <2>6, <2>7 DEF DdTypes
<1>26. CASE GroupStop
  <2>1. CASE ddPg.starting
    <3>0. ddPg' \in DdPgType
      BY <1>0, <1>26, <2>1, PgKeepsType DEF GroupStop, StopTo, ddDevice, ddPipes, ddPlugin
    <3>10. ddPg'.running = FALSE /\ ddPg'.stopped = TRUE /\ ddPg'.starting = ddPg.starting /\ ddPg'.procs = ddPg.procs
      BY <1>26, <2>1, <3>0
         DEF GroupStop, StopTo, ddDevice, ddPipes, ddPlugin, DdTypes, DdFlags, DdPgType
    <3>11. ddSup \in DdEarly => ~ddPg.running /\ ~ddPg.starting /\ ddPg.procs = 0
      BY <1>26, <2>1, <3>0
         DEF GroupStop, StopTo, ddDevice, ddPipes, ddPlugin, DdTypes, DdPlaces, DdFlags,
             SupervisorFirst
    <3>1. DdFlags'
      BY <1>26, <2>1, <3>0 DEF GroupStop, StopTo, ddDevice, ddPipes, ddPlugin, DdFlags, DdTypes
    <3>2. DdNumbers'
      BY <1>26, <2>1, <3>0, RunsFacts
         DEF GroupStop, StopTo, ddDevice, ddPipes, ddPlugin, DdNumbers, DdTypes, DdPgType
    <3>3. DdPlaces'
      BY <1>26, <2>1, <3>0 DEF GroupStop, StopTo, ddDevice, ddPipes, ddPlugin, DdPlaces, DdTypes
    <3>4. DdReaderTypes'
      BY <1>26, <2>1, <3>0, RunsFacts
         DEF GroupStop, StopTo, ddDevice, ddPipes, ddPlugin, DdReaderTypes, DdNumbers, DdTypes
    <3>5. SupervisorFirst'
      BY <1>26, <2>1, <3>0, <3>10, <3>11
         DEF GroupStop, StopTo, ddDevice, ddPipes, ddPlugin, DdTypes, DdFlags, DdNumbers, DdPlaces,
             SupervisorFirst, StopWaits, ClaimFollows, DdPgType
    <3>6. StopWaits'
      BY <1>26, <2>1, <3>0, <3>10, <3>11
         DEF GroupStop, StopTo, ddDevice, ddPipes, ddPlugin, DdTypes, DdFlags, DdNumbers, DdPlaces,
             SupervisorFirst, StopWaits, ClaimFollows, DdPgType
    <3>7. ClaimFollows'
      BY <1>26, <2>1, <3>0, <3>10, <3>11
         DEF GroupStop, StopTo, ddDevice, ddPipes, ddPlugin, DdTypes, DdFlags, DdNumbers, DdPlaces,
             SupervisorFirst, StopWaits, ClaimFollows, DdPgType
    <3>8. QED
      BY <3>1, <3>2, <3>3, <3>4, <3>5, <3>6, <3>7 DEF DdTypes
  <2>2. CASE ~ddPg.starting
    <3>0. ddPg' \in DdPgType
      BY <1>0, <1>26, <2>2, PgKeepsType DEF GroupStop, StopTo, ddDevice, ddPipes, ddPlugin
    <3>10. ddPg'.running = FALSE /\ ddPg'.stopped = TRUE /\ ddPg'.starting = ddPg.starting /\ ddPg'.procs = ddPg.procs
      BY <1>26, <2>2, <3>0
         DEF GroupStop, StopTo, ddDevice, ddPipes, ddPlugin, DdTypes, DdFlags, DdPgType
    <3>11. ddSup \in DdEarly => ~ddPg.running /\ ~ddPg.starting /\ ddPg.procs = 0
      BY <1>26, <2>2, <3>0
         DEF GroupStop, StopTo, ddDevice, ddPipes, ddPlugin, DdTypes, DdPlaces, DdFlags,
             SupervisorFirst
    <3>1. DdFlags'
      BY <1>26, <2>2, <3>0 DEF GroupStop, StopTo, ddDevice, ddPipes, ddPlugin, DdFlags, DdTypes
    <3>2. DdNumbers'
      BY <1>26, <2>2, <3>0, RunsFacts
         DEF GroupStop, StopTo, ddDevice, ddPipes, ddPlugin, DdNumbers, DdTypes, DdPgType
    <3>3. DdPlaces'
      BY <1>26, <2>2, <3>0 DEF GroupStop, StopTo, ddDevice, ddPipes, ddPlugin, DdPlaces, DdTypes
    <3>4. DdReaderTypes'
      BY <1>26, <2>2, <3>0, RunsFacts
         DEF GroupStop, StopTo, ddDevice, ddPipes, ddPlugin, DdReaderTypes, DdNumbers, DdTypes
    <3>5. SupervisorFirst'
      BY <1>26, <2>2, <3>0, <3>10, <3>11
         DEF GroupStop, StopTo, ddDevice, ddPipes, ddPlugin, DdTypes, DdFlags, DdNumbers, DdPlaces,
             SupervisorFirst, StopWaits, ClaimFollows, DdPgType
    <3>6. StopWaits'
      BY <1>26, <2>2, <3>0, <3>10, <3>11
         DEF GroupStop, StopTo, ddDevice, ddPipes, ddPlugin, DdTypes, DdFlags, DdNumbers, DdPlaces,
             SupervisorFirst, StopWaits, ClaimFollows, DdPgType
    <3>7. ClaimFollows'
      BY <1>26, <2>2, <3>0, <3>10, <3>11
         DEF GroupStop, StopTo, ddDevice, ddPipes, ddPlugin, DdTypes, DdFlags, DdNumbers, DdPlaces,
             SupervisorFirst, StopWaits, ClaimFollows, DdPgType
    <3>8. QED
      BY <3>1, <3>2, <3>3, <3>4, <3>5, <3>6, <3>7 DEF DdTypes
  <2>3. QED
    BY <1>26, <2>1, <2>2 DEF GroupStop, StopTo, ddDevice, ddPipes, ddPlugin
<1>27. CASE StopWaitsLaunch
  <2>1. DdFlags'
    BY <1>27 DEF StopWaitsLaunch, StopTo, ddDevice, ddPipes, ddPlugin, DdFlags, DdTypes
  <2>2. DdNumbers'
    BY <1>27, RunsFacts DEF StopWaitsLaunch, StopTo, ddDevice, ddPipes, ddPlugin, DdNumbers, DdTypes
  <2>3. DdPlaces'
    BY <1>27 DEF StopWaitsLaunch, StopTo, ddDevice, ddPipes, ddPlugin, DdPlaces, DdTypes
  <2>4. DdReaderTypes'
    BY <1>27, RunsFacts
       DEF StopWaitsLaunch, StopTo, ddDevice, ddPipes, ddPlugin, DdReaderTypes, DdNumbers, DdTypes
  <2>5. SupervisorFirst'
    BY <1>27
       DEF StopWaitsLaunch, StopTo, ddDevice, ddPipes, ddPlugin, DdTypes, DdFlags, DdNumbers,
           DdPlaces, SupervisorFirst, StopWaits, ClaimFollows
  <2>6. StopWaits'
    BY <1>27
       DEF StopWaitsLaunch, StopTo, ddDevice, ddPipes, ddPlugin, DdTypes, DdFlags, DdNumbers,
           DdPlaces, SupervisorFirst, StopWaits, ClaimFollows
  <2>7. ClaimFollows'
    BY <1>27
       DEF StopWaitsLaunch, StopTo, ddDevice, ddPipes, ddPlugin, DdTypes, DdFlags, DdNumbers,
           DdPlaces, SupervisorFirst, StopWaits, ClaimFollows
  <2>8. QED
    BY <2>1, <2>2, <2>3, <2>4, <2>5, <2>6, <2>7 DEF DdTypes
<1>28. CASE StopTerminates
  <2>0. ddPg' \in DdPgType
    BY <1>0, <1>28, PgKeepsType DEF StopTerminates, StopTo, TerminatesCurrent, ddDevice, ddPlugin
  <2>1. DdFlags'
    BY <1>28, <2>0
       DEF StopTerminates, StopTo, TerminatesCurrent, ddDevice, ddPlugin, DdFlags, DdTypes
  <2>2. DdNumbers'
    BY <1>28, <2>0, RunsFacts
       DEF StopTerminates, StopTo, TerminatesCurrent, ddDevice, ddPlugin, DdNumbers, DdTypes,
           DdPgType
  <2>3. DdPlaces'
    BY <1>28, <2>0
       DEF StopTerminates, StopTo, TerminatesCurrent, ddDevice, ddPlugin, DdPlaces, DdTypes
  <2>4. DdReaderTypes'
    BY <1>28, <2>0, RunsFacts
       DEF StopTerminates, StopTo, TerminatesCurrent, ddDevice, ddPlugin, DdReaderTypes, DdNumbers,
           DdTypes
  <2>5. SupervisorFirst'
    BY <1>28, <2>0
       DEF StopTerminates, StopTo, TerminatesCurrent, ddDevice, ddPlugin, DdTypes, DdFlags,
           DdNumbers, DdPlaces, SupervisorFirst, StopWaits, ClaimFollows, DdPgType
  <2>6. StopWaits'
    BY <1>28, <2>0
       DEF StopTerminates, StopTo, TerminatesCurrent, ddDevice, ddPlugin, DdTypes, DdFlags,
           DdNumbers, DdPlaces, SupervisorFirst, StopWaits, ClaimFollows, DdPgType
  <2>7. ClaimFollows'
    BY <1>28, <2>0
       DEF StopTerminates, StopTo, TerminatesCurrent, ddDevice, ddPlugin, DdTypes, DdFlags,
           DdNumbers, DdPlaces, SupervisorFirst, StopWaits, ClaimFollows, DdPgType
  <2>8. QED
    BY <2>1, <2>2, <2>3, <2>4, <2>5, <2>6, <2>7 DEF DdTypes
<1>29. CASE StopJoinsMonitor
  <2>1. DdFlags'
    BY <1>29 DEF StopJoinsMonitor, StopTo, ddDevice, ddPipes, ddPlugin, DdFlags, DdTypes
  <2>2. DdNumbers'
    BY <1>29, RunsFacts
       DEF StopJoinsMonitor, StopTo, ddDevice, ddPipes, ddPlugin, DdNumbers, DdTypes
  <2>3. DdPlaces'
    BY <1>29 DEF StopJoinsMonitor, StopTo, ddDevice, ddPipes, ddPlugin, DdPlaces, DdTypes
  <2>4. DdReaderTypes'
    BY <1>29, RunsFacts
       DEF StopJoinsMonitor, StopTo, ddDevice, ddPipes, ddPlugin, DdReaderTypes, DdNumbers, DdTypes
  <2>5. SupervisorFirst'
    BY <1>29
       DEF StopJoinsMonitor, StopTo, ddDevice, ddPipes, ddPlugin, DdTypes, DdFlags, DdNumbers,
           DdPlaces, SupervisorFirst, StopWaits, ClaimFollows
  <2>6. StopWaits'
    BY <1>29
       DEF StopJoinsMonitor, StopTo, ddDevice, ddPipes, ddPlugin, DdTypes, DdFlags, DdNumbers,
           DdPlaces, SupervisorFirst, StopWaits, ClaimFollows
  <2>7. ClaimFollows'
    BY <1>29
       DEF StopJoinsMonitor, StopTo, ddDevice, ddPipes, ddPlugin, DdTypes, DdFlags, DdNumbers,
           DdPlaces, SupervisorFirst, StopWaits, ClaimFollows
  <2>8. QED
    BY <2>1, <2>2, <2>3, <2>4, <2>5, <2>6, <2>7 DEF DdTypes
<1>30. CASE StopReleases
  <2>1. DdFlags'
    BY <1>30 DEF StopReleases, ReleasesLease, StopTo, ddPipes, ddPlugin, DdFlags, DdTypes
  <2>2. DdNumbers'
    BY <1>30, RunsFacts
       DEF StopReleases, ReleasesLease, StopTo, ddPipes, ddPlugin, DdNumbers, DdTypes
  <2>3. DdPlaces'
    BY <1>30 DEF StopReleases, ReleasesLease, StopTo, ddPipes, ddPlugin, DdPlaces, DdTypes
  <2>4. DdReaderTypes'
    BY <1>30, RunsFacts
       DEF StopReleases, ReleasesLease, StopTo, ddPipes, ddPlugin, DdReaderTypes, DdNumbers, DdTypes
  <2>5. SupervisorFirst'
    BY <1>30
       DEF StopReleases, ReleasesLease, StopTo, ddPipes, ddPlugin, DdTypes, DdFlags, DdNumbers,
           DdPlaces, SupervisorFirst, StopWaits, ClaimFollows
  <2>6. StopWaits'
    BY <1>30
       DEF StopReleases, ReleasesLease, StopTo, ddPipes, ddPlugin, DdTypes, DdFlags, DdNumbers,
           DdPlaces, SupervisorFirst, StopWaits, ClaimFollows
  <2>7. ClaimFollows'
    BY <1>30
       DEF StopReleases, ReleasesLease, StopTo, ddPipes, ddPlugin, DdTypes, DdFlags, DdNumbers,
           DdPlaces, SupervisorFirst, StopWaits, ClaimFollows
  <2>8. QED
    BY <2>1, <2>2, <2>3, <2>4, <2>5, <2>6, <2>7 DEF DdTypes
<1>31. CASE StopJoinsThreads
  <2>1. DdFlags'
    BY <1>31 DEF StopJoinsThreads, StopTo, ddDevice, ddPipes, ddPlugin, DdFlags, DdTypes
  <2>2. DdNumbers'
    BY <1>31, RunsFacts
       DEF StopJoinsThreads, StopTo, ddDevice, ddPipes, ddPlugin, DdNumbers, DdTypes
  <2>3. DdPlaces'
    BY <1>31 DEF StopJoinsThreads, StopTo, ddDevice, ddPipes, ddPlugin, DdPlaces, DdTypes
  <2>4. DdReaderTypes'
    BY <1>31, RunsFacts
       DEF StopJoinsThreads, StopTo, ddDevice, ddPipes, ddPlugin, DdReaderTypes, DdNumbers, DdTypes
  <2>5. SupervisorFirst'
    BY <1>31
       DEF StopJoinsThreads, StopTo, ddDevice, ddPipes, ddPlugin, DdTypes, DdFlags, DdNumbers,
           DdPlaces, SupervisorFirst, StopWaits, ClaimFollows
  <2>6. StopWaits'
    BY <1>31
       DEF StopJoinsThreads, StopTo, ddDevice, ddPipes, ddPlugin, DdTypes, DdFlags, DdNumbers,
           DdPlaces, SupervisorFirst, StopWaits, ClaimFollows
  <2>7. ClaimFollows'
    BY <1>31
       DEF StopJoinsThreads, StopTo, ddDevice, ddPipes, ddPlugin, DdTypes, DdFlags, DdNumbers,
           DdPlaces, SupervisorFirst, StopWaits, ClaimFollows
  <2>8. QED
    BY <2>1, <2>2, <2>3, <2>4, <2>5, <2>6, <2>7 DEF DdTypes
<1>32. ASSUME NEW p \in 1..DdPipelines, ReaderEnds(p) PROVE DdInv'
  <2>1. DdFlags'
    BY <1>32 DEF ReaderEnds, ddDevice, ddPipes, ddPlugin, DdFlags, DdTypes
  <2>2. DdNumbers'
    BY <1>32, RunsFacts DEF ReaderEnds, ddDevice, ddPipes, ddPlugin, DdNumbers, DdTypes
  <2>3. DdPlaces'
    BY <1>32 DEF ReaderEnds, ddDevice, ddPipes, ddPlugin, DdPlaces, DdTypes
  <2>4. DdReaderTypes'
    BY <1>32, RunsFacts
       DEF ReaderEnds, ddDevice, ddPipes, ddPlugin, DdReaderTypes, DdNumbers, DdTypes
  <2>5. SupervisorFirst'
    BY <1>32
       DEF ReaderEnds, ddDevice, ddPipes, ddPlugin, DdTypes, DdFlags, DdNumbers, DdPlaces,
           SupervisorFirst, StopWaits, ClaimFollows
  <2>6. StopWaits'
    BY <1>32
       DEF ReaderEnds, ddDevice, ddPipes, ddPlugin, DdTypes, DdFlags, DdNumbers, DdPlaces,
           SupervisorFirst, StopWaits, ClaimFollows
  <2>7. ClaimFollows'
    BY <1>32
       DEF ReaderEnds, ddDevice, ddPipes, ddPlugin, DdTypes, DdFlags, DdNumbers, DdPlaces,
           SupervisorFirst, StopWaits, ClaimFollows
  <2>8. QED
    BY <2>1, <2>2, <2>3, <2>4, <2>5, <2>6, <2>7 DEF DdTypes
<1>33. ASSUME NEW p \in 1..DdPipelines, ReaderReports(p) PROVE DdInv'
  <2>0. ddPg' \in DdPgType
    BY <1>0, <1>33, PgKeepsType DEF ReaderReports, ddDevice, ddPipes, ddPlugin
  <2>1. DdFlags'
    BY <1>33, <2>0 DEF ReaderReports, ddDevice, ddPipes, ddPlugin, DdFlags, DdTypes
  <2>2. DdNumbers'
    BY <1>33, <2>0, RunsFacts
       DEF ReaderReports, ddDevice, ddPipes, ddPlugin, DdNumbers, DdTypes, DdPgType
  <2>3. DdPlaces'
    BY <1>33, <2>0 DEF ReaderReports, ddDevice, ddPipes, ddPlugin, DdPlaces, DdTypes
  <2>4. DdReaderTypes'
    BY <1>33, <2>0, RunsFacts
       DEF ReaderReports, ddDevice, ddPipes, ddPlugin, DdReaderTypes, DdNumbers, DdTypes
  <2>5. SupervisorFirst'
    BY <1>33, <2>0
       DEF ReaderReports, ddDevice, ddPipes, ddPlugin, DdTypes, DdFlags, DdNumbers, DdPlaces,
           SupervisorFirst, StopWaits, ClaimFollows, DdPgType
  <2>6. StopWaits'
    BY <1>33, <2>0
       DEF ReaderReports, ddDevice, ddPipes, ddPlugin, DdTypes, DdFlags, DdNumbers, DdPlaces,
           SupervisorFirst, StopWaits, ClaimFollows, DdPgType
  <2>7. ClaimFollows'
    BY <1>33, <2>0
       DEF ReaderReports, ddDevice, ddPipes, ddPlugin, DdTypes, DdFlags, DdNumbers, DdPlaces,
           SupervisorFirst, StopWaits, ClaimFollows, DdPgType
  <2>8. QED
    BY <2>1, <2>2, <2>3, <2>4, <2>5, <2>6, <2>7 DEF DdTypes
<1>34. ASSUME NEW p \in 1..DdPipelines, PipelineDies(p) PROVE DdInv'
  <2>1. DdFlags'
    BY <1>34 DEF PipelineDies, ddDevice, ddPlugin, DdFlags, DdTypes
  <2>2. DdNumbers'
    BY <1>34, RunsFacts DEF PipelineDies, ddDevice, ddPlugin, DdNumbers, DdTypes
  <2>3. DdPlaces'
    BY <1>34 DEF PipelineDies, ddDevice, ddPlugin, DdPlaces, DdTypes
  <2>4. DdReaderTypes'
    BY <1>34, RunsFacts DEF PipelineDies, ddDevice, ddPlugin, DdReaderTypes, DdNumbers, DdTypes
  <2>5. SupervisorFirst'
    BY <1>34
       DEF PipelineDies, ddDevice, ddPlugin, DdTypes, DdFlags, DdNumbers, DdPlaces, SupervisorFirst,
           StopWaits, ClaimFollows
  <2>6. StopWaits'
    BY <1>34
       DEF PipelineDies, ddDevice, ddPlugin, DdTypes, DdFlags, DdNumbers, DdPlaces, SupervisorFirst,
           StopWaits, ClaimFollows
  <2>7. ClaimFollows'
    BY <1>34
       DEF PipelineDies, ddDevice, ddPlugin, DdTypes, DdFlags, DdNumbers, DdPlaces, SupervisorFirst,
           StopWaits, ClaimFollows
  <2>8. QED
    BY <2>1, <2>2, <2>3, <2>4, <2>5, <2>6, <2>7 DEF DdTypes
<1>35. CASE UNCHANGED ddVars
  <2>1. DdTypes'
    <3>1. DdFlags'
      BY <1>35 DEF ddVars, DdTypes, DdFlags
    <3>2. DdNumbers'
      BY <1>35 DEF ddVars, DdTypes, DdNumbers
    <3>3. DdPlaces'
      BY <1>35 DEF ddVars, DdTypes, DdPlaces
    <3>4. DdReaderTypes'
      BY <1>35 DEF ddVars, DdTypes, DdReaderTypes
    <3>5. QED
      BY <3>1, <3>2, <3>3, <3>4 DEF DdTypes
  <2>2. SupervisorFirst' /\ StopWaits' /\ ClaimFollows'
    BY <1>35 DEF ddVars, SupervisorFirst, StopWaits, ClaimFollows
  <2>3. QED
    BY <2>1, <2>2
<1>36. QED
  BY <1>1, <1>2, <1>3, <1>4, <1>5, <1>6, <1>7, <1>8, <1>9, <1>10, <1>11, <1>12, <1>13, <1>14, <1>15,
     <1>16, <1>17, <1>17a, <1>18, <1>19, <1>20, <1>21, <1>22, <1>23, <1>24, <1>25, <1>26, <1>27, <1>28,
     <1>29, <1>30, <1>31, <1>32, <1>33, <1>34, <1>35
     DEF DdNext, SupSteps, MonSteps, StopSteps

LEMMA DdInvImplies == DdInv => DdTypeOK /\ OpenDeviceIsClaimed /\ StopFreesDongle
<1> SUFFICES ASSUME DdInv PROVE DdTypeOK /\ OpenDeviceIsClaimed /\ StopFreesDongle
  OBVIOUS
<1>1. DdTypeOK
  BY DEF DdInv, DdTypes, DdFlags, DdNumbers, DdPlaces, SupervisorFirst, DdPgType, DdRuns, DdCounts,
         DdTypeOK
<1>2. 0 \notin ddAlive /\ ddAlive \subseteq {ddLocal, ddPg.procs}
  BY DEF DdInv, DdTypes, DdFlags, DdNumbers, DdPlaces, SupervisorFirst
<1>3. OpenDeviceIsClaimed
  BY <1>2
     DEF DdInv, DdTypes, DdFlags, DdNumbers, DdPlaces, SupervisorFirst, StopWaits, ClaimFollows,
         DdEarly, DdLaunching, DdRestarting, OpenDeviceIsClaimed
<1>4. StopFreesDongle
  BY <1>2
     DEF DdInv, DdTypes, DdFlags, DdNumbers, DdPlaces, SupervisorFirst, StopWaits, ClaimFollows,
         DdEarly, DdLaunching, DdRestarting, StopFreesDongle, ThreadsEnded
<1>5. QED
  BY <1>1, <1>3, <1>4

-----------------------------------------------------------------------------
(***************************************************************************)
(* The FM receiver, for any number of generations, epochs and restarts, as *)
(* long as the operator's calls and the scheduler's plays do not overlap   *)
(* (FmOvertakes = FALSE): the threads that launch, fail, retry, tune, stop *)
(* and yield still interleave.                                             *)
(***************************************************************************)

FmOp == fmCaller["operator"]
FmSch == fmCaller["scheduler"]
FmLetPcs == {"detach", "detach tune", "detach stop", "detach yield"}
FmStopPcs == {"detach stop", "stop", "stopped"}
FmOpPcs == {"none", "play", "detach", "detach tune", "tune"} \cup FmStopPcs
FmSchPcs == {"none", "play", "yield", "detach yield", "yielded"}
FmFailing == {"failed", "schedule", "exhaust"}
FmSupPcs == {"none", "start", "take", "launch", "hook", "failed", "handler", "end", "done"}
FmMonPcs == {"none", "watch"} \cup FmFailing
FmCallType == [pc : FmOpPcs \cup FmSchPcs, group : FmRuns \cup {0}]
FmCallTypes == [{"operator", "scheduler"} -> FmCallType]
FmRetryType == [pending : BOOLEAN, epoch : 0..FmEpochs, count : 0..FmRestarts]
(* A call that has cleared what it stops and not yet detached the group *)
FmLetting(call) == call.pc \in FmLetPcs /\ call.group = 0
(* A call that waits for the group it has detached *)
FmStopping(g) == FmOp.group = g \/ FmSch.group = g
(* Nothing of the group's pipeline runs or is about to. *)
FmQuiet == fmGroup # 0 => fmMon[fmGroup] = "none" /\ fmSup[fmGroup] \in {"failed", "end", "done"}
FmWatched == fmGroup # 0 /\ fmMon[fmGroup] = "watch"

FmFlags ==
    /\ fmActive \in BOOLEAN /\ fmDongle \in BOOLEAN /\ fmPlaying \in BOOLEAN
    /\ fmAlive \in BOOLEAN /\ fmWas \in BOOLEAN
    /\ fmSlot \in {"idle", "held", "yielding", "suspended", "gone"}
FmNumbers ==
    /\ fmGen \in Nat /\ fmGroup \in FmRuns \cup {0} /\ fmOpen \subseteq FmRuns
    /\ fmRetry \in FmRetryType
FmSups == fmSup \in [FmRuns -> FmSupPcs]
FmMons == fmMon \in [FmRuns -> FmMonPcs]
FmCalls == fmCaller \in FmCallTypes /\ FmOp.pc \in FmOpPcs /\ FmSch.pc \in FmSchPcs
FmTypes == FmFlags /\ FmNumbers /\ FmSups /\ FmMons /\ FmCalls

(* What the bound leaves for calls and retries under way *)
FmOpDue == IF FmOp.pc \in {"play", "detach tune", "tune"} THEN 1 ELSE 0
FmSchDue == IF FmSch.pc \in {"play", "yield"} THEN 1 ELSE 0
FmStopDue == IF fmActive THEN 1 ELSE 0
FmBudget == fmGen + FmOpDue + FmSchDue + FmStopDue <= FmGens + fmRetry.epoch + 3

(* A generation goes through its threads in order. *)
FmPlaced(g) ==
    /\ g > fmGen => fmSup[g] = "none"
    /\ fmSup[g] \in {"none", "start", "take", "launch", "hook", "failed"} => fmMon[g] = "none"
    /\ fmSup[g] = "handler" => fmMon[g] \in FmFailing
    /\ g \in fmOpen => fmSup[g] = "hook" \/ fmMon[g] = "watch"
FmGroupPlaced ==
    /\ fmGroup # 0 => fmSup[fmGroup] \in {"launch", "hook", "failed", "end", "done"}
    /\ fmGen # 0 /\ fmSup[fmGen] \in {"launch", "hook", "failed"} => fmGroup = 0 \/ fmGroup = fmGen
FmPlaces == FmGroupPlaced /\ \A g \in FmRuns : FmPlaced(g)

(* The operator's calls and the scheduler's callbacks take turns. *)
FmTurns ==
    /\ FmOp.group # 0 => FmOp.pc \in FmLetPcs
    /\ FmSch.group # 0 => FmSch.pc \in FmLetPcs
    /\ fmActive <=> FmOp.pc \notin FmStopPcs
    /\ fmDongle /\ fmActive => fmSlot = "held"
    /\ FmSch.pc \in {"yield", "detach yield", "yielded"} => ~fmDongle
    /\ FmSch.pc = "play" => FmOp.pc \in {"none"} \cup FmStopPcs
    /\ FmSch.pc = "detach yield" => ~fmPlaying /\ FmOp.pc # "play"
    /\ FmOp.pc \in {"detach", "detach tune", "tune"} => fmGen = 0 \/ fmSup[fmGen] = "none"
    /\ FmOp.pc = "tune" \/ (FmOp.pc = "detach tune" /\ FmOp.group # 0) => fmGroup = 0

(* A pipeline that runs or whose failure is handled is the group's, or has
   been detached by a call that stops it; while a failure is handled, no
   other group is there.                                                    *)
FmHeldAt(g) ==
    /\ fmMon[g] = "watch" \/ (fmMon[g] \in FmFailing /\ fmSup[g] # "handler") => fmGroup = g \/ FmStopping(g)
    /\ fmMon[g] \in FmFailing => fmGroup = 0 \/ fmGroup = g
FmHeld == \A g \in FmRuns : FmHeldAt(g)

(* Whoever starts a supervisor has seen the last pipeline end. *)
FmFreshCall ==
    FmOp.pc = "play" \/ (FmSch.pc = "play" /\ fmActive) =>
       ~fmPlaying /\ FmQuiet /\ \A g \in FmRuns : fmMon[g] \in FmFailing => fmSup[g] = "handler"
FmFreshSup ==
    (fmGen # 0 /\ fmSup[fmGen] \in {"start", "take"}) /\ fmActive /\ fmPlaying =>
       FmQuiet /\ \A g \in FmRuns : fmMon[g] \notin FmFailing
FmFresh == FmFreshCall /\ FmFreshSup

(* A radio that is not playing is quiet, or a call is on its way to it. *)
FmSilentNow == fmActive /\ ~fmPlaying => FmQuiet \/ FmLetting(FmOp) \/ FmLetting(FmSch)
FmSilentEver == ~fmActive => ~FmWatched \/ FmLetting(FmOp) \/ FmLetting(FmSch)
FmSilentYield ==
    FmSch.pc = "yielded" \/ (FmSch.pc = "detach yield" /\ FmSch.group # 0) => ~FmWatched \/ FmLetting(FmOp)
FmSilent == FmSilentNow /\ FmSilentEver /\ FmSilentYield

(* A pipeline that goes on has the slot. *)
FmGranted == FmWatched => FmLetting(FmOp) \/ FmLetting(FmSch) \/ fmSlot \in {"held", "yielding"}

FmInv ==
    /\ FmTypes
    /\ FmBudget
    /\ FmPlaces
    /\ FmTurns
    /\ FmHeld
    /\ FmFresh
    /\ FmSilent
    /\ FmGranted

(* The bounds are numbers. *)
LEMMA FmNats == FmGens \in Nat /\ FmEpochs \in Nat /\ FmRestarts \in Nat
BY FmAssumption

LEMMA FmInitInv == FmInit => FmInv
<1> SUFFICES ASSUME FmInit PROVE FmInv
  OBVIOUS
<1> USE DEF FmInit, FmIdle
<1>0. FmOp = FmIdle /\ FmSch = FmIdle
  BY DEF FmOp, FmSch
<1>1. FmTypes
  <2>1. FmFlags /\ FmSups /\ FmMons
    BY DEF FmFlags, FmSups, FmMons, FmSupPcs, FmMonPcs
  <2>2. FmNumbers
    BY FmNats DEF FmNumbers, FmRetryType
  <2>3. FmCalls
    BY <1>0 DEF FmCalls, FmCallTypes, FmCallType, FmOpPcs, FmSchPcs
  <2>4. QED
    BY <2>1, <2>2, <2>3 DEF FmTypes
<1>2. FmBudget /\ FmTurns
  BY <1>0, FmNats DEF FmBudget, FmTurns, FmStopPcs, FmOpDue, FmSchDue, FmStopDue
<1>3. FmPlaces /\ FmHeld /\ FmFresh
  BY <1>0
     DEF FmPlaces, FmGroupPlaced, FmPlaced, FmHeld, FmHeldAt, FmFresh, FmFreshCall, FmFreshSup,
         FmFailing, FmQuiet
<1>4. FmSilent /\ FmGranted
  BY <1>0 DEF FmSilent, FmSilentNow, FmSilentEver, FmSilentYield, FmQuiet, FmWatched, FmGranted
<1>5. QED
  BY <1>1, <1>2, <1>3, <1>4 DEF FmInv

(* Every generation the bound admits has its threads. *)
LEMMA FmGenFits ==
    ASSUME FmTypes, FmBudget
    PROVE  /\ fmGen \in FmRuns \cup {0}
           /\ FmOp.pc \in {"play", "detach tune", "tune"} \/ FmSch.pc \in {"play", "yield"} \/ fmActive
                \/ fmRetry.epoch < FmEpochs \/ fmGen < FmGens => fmGen + 1 \in FmRuns
<1>1. fmRetry.epoch \in Nat /\ fmRetry.epoch <= FmEpochs /\ fmGen \in Nat
  BY FmNats DEF FmTypes, FmNumbers, FmRetryType
<1>2. FmOpDue \in {0, 1} /\ FmSchDue \in {0, 1} /\ FmStopDue \in {0, 1}
  BY DEF FmOpDue, FmSchDue, FmStopDue
<1>3. fmGen + FmOpDue + FmSchDue + FmStopDue <= FmGens + fmRetry.epoch + 3
  BY DEF FmBudget
<1>4. fmGen \in FmRuns \cup {0}
  BY <1>1, <1>2, <1>3, FmNats DEF FmRuns
<1>5. FmOpDue = 1 \/ FmSchDue = 1 \/ FmStopDue = 1 \/ fmRetry.epoch < FmEpochs \/ fmGen < FmGens => fmGen + 1 \in FmRuns
  BY <1>1, <1>2, <1>3, FmNats DEF FmRuns
<1>6. QED
  BY <1>4, <1>5 DEF FmOpDue, FmSchDue, FmStopDue

(* A new epoch keeps the type of the retry. *)
LEMMA FmRetryKeeps ==
    ASSUME NEW r \in FmRetryType, NEW b \in BOOLEAN, r.epoch < FmEpochs
    PROVE  /\ [r EXCEPT !.epoch = @ + 1, !.pending = b] \in FmRetryType
           /\ [r EXCEPT !.epoch = @ + 1, !.pending = b].epoch = r.epoch + 1
<1>1. r.epoch + 1 \in 0..FmEpochs
  BY FmNats DEF FmRetryType
<1>2. QED
  BY <1>1 DEF FmRetryType

LEMMA FmStepKeeps == ~FmOvertakes /\ FmInv /\ [FmNext]_fmVars => FmInv'
<1> SUFFICES ASSUME ~FmOvertakes, FmInv, [FmNext]_fmVars PROVE FmInv'
  OBVIOUS
<1> USE DEF FmInv
<1>0. /\ fmGen \in FmRuns \cup {0} /\ fmGen \in Nat
      /\ FmOp.pc \in {"play", "detach tune", "tune"} \/ FmSch.pc \in {"play", "yield"} \/ fmActive
           \/ fmRetry.epoch < FmEpochs \/ fmGen < FmGens => fmGen + 1 \in FmRuns
      /\ \A g \in FmRuns : g \in Nat /\ g # 0
      /\ FmGens \in Nat /\ FmEpochs \in Nat /\ FmRestarts \in Nat
  <2>1. fmGen \in FmRuns \cup {0} /\ fmGen \in Nat
    BY FmGenFits DEF FmTypes, FmNumbers
  <2>2. \A g \in FmRuns : g \in Nat /\ g # 0
    BY FmNats DEF FmRuns
  <2>3. QED
    BY <2>1, <2>2, FmGenFits, FmNats
<1>00. fmGen \in Nat /\ FmGens \in Nat /\ FmEpochs \in Nat
  BY <1>0
<1>01. fmGen + 1 \in FmRuns => fmSup[fmGen + 1] = "none" /\ fmMon[fmGen + 1] = "none" /\ fmGen + 1 # fmGroup /\ fmGen + 1 \notin fmOpen
  <2>1. ASSUME fmGen + 1 \in FmRuns PROVE fmSup[fmGen + 1] = "none"
    BY <1>00, <2>1 DEF FmPlaces, FmPlaced
  <2>2. ASSUME fmGen + 1 \in FmRuns PROVE fmMon[fmGen + 1] = "none"
    BY <2>1, <2>2 DEF FmPlaces, FmPlaced
  <2>3. ASSUME fmGen + 1 \in FmRuns PROVE fmGen + 1 \notin fmOpen
    BY <2>1, <2>2, <2>3 DEF FmPlaces, FmPlaced
  <2>4. ASSUME fmGen + 1 \in FmRuns, fmGen + 1 = fmGroup PROVE FALSE
    <3>1. fmGroup # 0
      BY <1>00, <2>4
    <3>2. fmSup[fmGroup] = "none"
      BY <2>1, <2>4
    <3>3. QED
      BY <3>1, <3>2 DEF FmPlaces, FmGroupPlaced
  <2>5. QED
    BY <2>1, <2>2, <2>3, <2>4
<1>1. CASE PlayChecks
  <2>10. FmOp.pc = "none" /\ FmOp'.pc = "play" /\ FmOp'.group = FmOp.group /\ FmSch' = FmSch
    BY <1>0, <1>1
       DEF PlayChecks, CallTo, Room, fmPlayer, fmThreads, FmOp, FmSch, FmCalls, FmCallTypes,
           FmCallType, FmTypes
  <2>13. fmCaller' \in FmCallTypes
    BY <1>0, <1>1, <2>10
       DEF PlayChecks, CallTo, Room, fmPlayer, fmThreads, FmOp, FmSch, FmCalls, FmCallTypes,
           FmCallType, FmTypes, FmNumbers, FmOpPcs, FmSchPcs, FmStopPcs
  <2>26. UNCHANGED <<fmActive, fmDongle, fmSlot, fmPlaying, fmGen, fmGroup, fmOpen, fmSup, fmMon, fmRetry>>
    BY <1>0, <1>1, <2>10, <2>13 DEF PlayChecks, CallTo, Room, fmPlayer, fmThreads, FmSups, FmMons
  <2>27. fmActive /\ ~fmPlaying /\ fmDongle /\ fmGen < FmGens /\ FmSch.pc # "play"
    BY <1>0, <1>1, <2>10, <2>13
       DEF PlayChecks, CallTo, Room, fmPlayer, fmThreads, FmSch, FmOp, FmTypes, FmSups, FmMons,
           FmFlags
  <2>28a. ~FmLetting(FmSch) /\ ~FmLetting(FmOp) /\ FmSch.group = 0 /\ FmOp.group = 0
    BY <1>0, <2>10, <2>13, <2>26, <2>27 DEF FmTypes, FmCalls, FmTurns, FmSchPcs, FmLetPcs, FmLetting
  <2>28b. FmQuiet
    BY <1>0, <2>10, <2>13, <2>26, <2>27, <2>28a DEF FmSilent, FmSilentNow
  <2>28c. \A h \in FmRuns : fmMon[h] \in FmFailing => fmSup[h] = "handler"
    BY <1>0, <2>10, <2>13, <2>26, <2>27, <2>28a, <2>28b
       DEF FmHeld, FmHeldAt, FmStopping, FmQuiet, FmFailing
  <2>30. FmFlags'
    BY <1>0, <1>1, <2>10, <2>13 DEF PlayChecks, CallTo, Room, fmPlayer, fmThreads, FmFlags, FmTypes
  <2>31. FmNumbers'
    BY <1>0, <1>1, <2>10, <2>13
       DEF PlayChecks, CallTo, Room, fmPlayer, fmThreads, FmNumbers, FmTypes, FmRetryType
  <2>32. FmSups'
    BY <1>0, <1>1, <2>10, <2>13
       DEF PlayChecks, CallTo, Room, fmPlayer, fmThreads, FmSups, FmTypes, FmSupPcs
  <2>33. FmMons'
    BY <1>0, <1>1, <2>10, <2>13
       DEF PlayChecks, CallTo, Room, fmPlayer, fmThreads, FmMons, FmTypes, FmMonPcs, FmFailing
  <2>34. FmCalls'
    BY <1>0, <1>1, <2>10, <2>13
       DEF PlayChecks, CallTo, Room, fmPlayer, fmThreads, FmCalls, FmTypes, FmOpPcs, FmSchPcs,
           FmStopPcs
  <2>35. FmBudget'
    <3>1. FmOpDue' = 1 /\ FmSchDue' = FmSchDue /\ FmStopDue' = FmStopDue /\ fmGen' = fmGen /\ fmRetry'.epoch = fmRetry.epoch /\ fmGen < FmGens
      BY <1>0, <1>1, <2>10, <2>13
         DEF PlayChecks, CallTo, Room, fmPlayer, fmThreads, FmTypes, FmFlags, FmNumbers,
             FmRetryType, FmOpDue, FmSchDue, FmStopDue
    <3>2. FmOpDue \in {0, 1} /\ FmSchDue \in {0, 1} /\ FmStopDue \in {0, 1} /\ fmRetry.epoch \in Nat
      BY FmNats DEF FmOpDue, FmSchDue, FmStopDue, FmTypes, FmNumbers, FmRetryType
    <3>3. fmGen' + FmOpDue' + FmSchDue' + FmStopDue' <= FmGens + fmRetry'.epoch + 3
      BY <1>00, <3>1, <3>2 DEF FmBudget
    <3>4. QED
      BY <3>3 DEF FmBudget
  <2>36. FmPlaces'
    <3>1. FmGroupPlaced'
      BY <1>0, <2>10, <2>13, <2>26, <2>27, <2>28a, <2>28b, <2>28c
         DEF FmFlags, FmNumbers, FmTypes, FmPlaces, FmGroupPlaced, FmPlaced, FmHeld, FmHeldAt,
             FmTurns, FmFailing, FmLetPcs
    <3>2. ASSUME NEW h \in FmRuns PROVE FmPlaced(h)'
      <4>1. FmPlaced(h) /\ FmHeldAt(h) /\ h \in Nat /\ h # 0
        BY <1>0 DEF FmPlaces, FmHeld
      <4>3. h > fmGen' => h > fmGen
        BY <4>1, <1>00, <2>26, <2>27
      <4>2. QED
        BY <1>00, <2>10, <2>26, <2>27, <2>28a, <2>28b, <2>28c, <4>1, <4>3
           DEF FmPlaced, FmHeldAt, FmFailing, FmStopping, FmLetPcs, FmTurns, FmTypes, FmNumbers
    <3>3. QED
      BY <3>1, <3>2 DEF FmPlaces
  <2>37. FmTurns'
    BY <1>0, <2>10, <2>13, <2>26, <2>27, <2>28a, <2>28b, <2>28c
       DEF FmFlags, FmNumbers, FmTypes, FmCalls, FmPlaces, FmGroupPlaced, FmPlaced, FmTurns,
           FmFresh, FmFreshCall, FmFreshSup, FmHeld, FmHeldAt, FmStopPcs, FmLetPcs, FmOpPcs,
           FmSchPcs
  <2>38. FmHeld'
    <3>1. ASSUME NEW h \in FmRuns PROVE FmHeldAt(h)'
      <4>1. FmPlaced(h) /\ FmHeldAt(h) /\ h \in Nat /\ h # 0
        BY <1>0 DEF FmPlaces, FmHeld
      <4>3. h > fmGen' => h > fmGen
        BY <4>1, <1>00, <2>26, <2>27
      <4>2. QED
        BY <1>00, <2>10, <2>26, <2>27, <2>28a, <2>28b, <2>28c, <4>1, <4>3
           DEF FmPlaced, FmHeldAt, FmFailing, FmStopping, FmQuiet, FmFresh, FmFreshSup, FmTypes,
               FmNumbers
    <3>2. QED
      BY <3>1 DEF FmHeld
  <2>39. FmFresh'
    <3>1. FmFreshCall'
      BY <1>0, <2>10, <2>13, <2>26, <2>27, <2>28a, <2>28b, <2>28c
         DEF FmFlags, FmNumbers, FmTypes, FmPlaces, FmGroupPlaced, FmPlaced, FmTurns, FmHeld,
             FmHeldAt, FmFresh, FmFreshCall, FmFreshSup, FmSilent, FmSilentNow, FmSilentEver,
             FmSilentYield, FmQuiet, FmLetting, FmStopping, FmFailing, FmStopPcs, FmLetPcs, FmMons,
             FmMonPcs
    <3>2. FmFreshSup'
      BY <1>0, <2>10, <2>13, <2>26, <2>27, <2>28a, <2>28b, <2>28c
         DEF FmFlags, FmNumbers, FmTypes, FmPlaces, FmGroupPlaced, FmPlaced, FmTurns, FmHeld,
             FmHeldAt, FmFresh, FmFreshCall, FmFreshSup, FmSilent, FmSilentNow, FmSilentEver,
             FmSilentYield, FmQuiet, FmLetting, FmStopping, FmFailing, FmStopPcs, FmLetPcs, FmMons,
             FmMonPcs
    <3>3. QED
      BY <3>1, <3>2 DEF FmFresh
  <2>40. FmSilent'
    <3>1. FmSilentNow'
      BY <1>0, <2>10, <2>13, <2>26, <2>27, <2>28a, <2>28b, <2>28c
         DEF FmFlags, FmNumbers, FmTypes, FmPlaces, FmGroupPlaced, FmPlaced, FmTurns, FmHeld,
             FmHeldAt, FmFresh, FmFreshCall, FmFreshSup, FmSilent, FmSilentNow, FmSilentEver,
             FmSilentYield, FmQuiet, FmLetting, FmWatched, FmFailing, FmStopPcs, FmLetPcs, FmMons,
             FmMonPcs
    <3>2. FmSilentEver'
      BY <1>0, <2>10, <2>13, <2>26, <2>27, <2>28a, <2>28b, <2>28c
         DEF FmFlags, FmNumbers, FmTypes, FmPlaces, FmGroupPlaced, FmPlaced, FmTurns, FmHeld,
             FmHeldAt, FmFresh, FmFreshCall, FmFreshSup, FmSilent, FmSilentNow, FmSilentEver,
             FmSilentYield, FmQuiet, FmLetting, FmWatched, FmFailing, FmStopPcs, FmLetPcs, FmMons,
             FmMonPcs
    <3>3. FmSilentYield'
      BY <1>0, <2>10, <2>13, <2>26, <2>27, <2>28a, <2>28b, <2>28c
         DEF FmFlags, FmNumbers, FmTypes, FmPlaces, FmGroupPlaced, FmPlaced, FmTurns, FmHeld,
             FmHeldAt, FmFresh, FmFreshCall, FmFreshSup, FmSilent, FmSilentNow, FmSilentEver,
             FmSilentYield, FmQuiet, FmLetting, FmWatched, FmFailing, FmStopPcs, FmLetPcs, FmMons,
             FmMonPcs
    <3>4. QED
      BY <3>1, <3>2, <3>3 DEF FmSilent
  <2>41. FmGranted'
    BY <1>0, <2>10, <2>13, <2>26, <2>27, <2>28a, <2>28b, <2>28c
       DEF FmFlags, FmNumbers, FmTypes, FmPlaces, FmGroupPlaced, FmPlaced, FmTurns, FmHeld,
           FmHeldAt, FmFresh, FmFreshCall, FmFreshSup, FmSilent, FmSilentNow, FmSilentEver,
           FmSilentYield, FmQuiet, FmLetting, FmWatched, FmGranted, FmFailing, FmStopPcs, FmLetPcs
  <2>60. QED
    BY <2>30, <2>31, <2>32, <2>33, <2>34, <2>35, <2>36, <2>37, <2>38, <2>39, <2>40, <2>41
       DEF FmTypes
<1>2. CASE PlayStarts("operator")
  <2>10. FmOp.pc = "play" /\ FmOp'.pc = "none" /\ FmOp'.group = FmOp.group /\ FmSch' = FmSch
    BY <1>0, <1>2
       DEF PlayStarts, CallTo, Range, StartsSupervisor, FmOp, FmSch, FmCalls, FmCallTypes,
           FmCallType, FmTypes
  <2>13. fmCaller' \in FmCallTypes
    BY <1>0, <1>2, <2>10
       DEF PlayStarts, CallTo, Range, StartsSupervisor, FmOp, FmSch, FmCalls, FmCallTypes,
           FmCallType, FmTypes, FmNumbers, FmOpPcs, FmSchPcs, FmStopPcs
  <2>09. fmGen + 1 \in FmRuns
    BY <1>0, <1>2, <2>10, <2>13 DEF PlayStarts, CallTo, Range, StartsSupervisor
  <2>11. \A h \in FmRuns : fmSup'[h] = IF h = fmGen + 1 THEN "start" ELSE fmSup[h]
    BY <1>0, <1>2, <2>10, <2>13, <2>09
       DEF PlayStarts, CallTo, Range, StartsSupervisor, FmSups, FmTypes
  <2>19. fmGen + 1 \in FmRuns /\ fmSup[fmGen + 1] = "none" /\ fmMon[fmGen + 1] = "none" /\ fmGen + 1 # fmGroup /\ fmGen + 1 \notin fmOpen
    BY <1>0, <1>2, <2>10, <2>13, <2>09, <2>11, <1>01 DEF PlayStarts, CallTo, Range, StartsSupervisor
  <2>26. UNCHANGED <<fmActive, fmDongle, fmSlot, fmGroup, fmOpen, fmMon, fmRetry>>
    BY <1>0, <1>2, <2>10, <2>13, <2>09, <2>11, <2>19
       DEF PlayStarts, CallTo, Range, StartsSupervisor, FmSups, FmMons
  <2>27. fmPlaying' = TRUE /\ fmGen' = fmGen + 1 /\ \A h \in FmRuns : fmSup[h] # "handler"
    BY <1>0, <1>2, <2>10, <2>13, <2>09, <2>11, <2>19
       DEF PlayStarts, CallTo, Range, StartsSupervisor, FmSch, FmOp, FmTypes, FmSups, FmMons,
           FmFlags
  <2>30. FmFlags'
    BY <1>0, <1>2, <2>10, <2>13, <2>09, <2>11, <2>19
       DEF PlayStarts, CallTo, Range, StartsSupervisor, FmFlags, FmTypes
  <2>31. FmNumbers'
    BY <1>0, <1>2, <2>10, <2>13, <2>09, <2>11, <2>19
       DEF PlayStarts, CallTo, Range, StartsSupervisor, FmNumbers, FmTypes, FmRetryType
  <2>32. FmSups'
    BY <1>0, <1>2, <2>10, <2>13, <2>09, <2>11, <2>19
       DEF PlayStarts, CallTo, Range, StartsSupervisor, FmSups, FmTypes, FmSupPcs
  <2>33. FmMons'
    BY <1>0, <1>2, <2>10, <2>13, <2>09, <2>11, <2>19
       DEF PlayStarts, CallTo, Range, StartsSupervisor, FmMons, FmTypes, FmMonPcs, FmFailing
  <2>34. FmCalls'
    BY <1>0, <1>2, <2>10, <2>13, <2>09, <2>11, <2>19
       DEF PlayStarts, CallTo, Range, StartsSupervisor, FmCalls, FmTypes, FmOpPcs, FmSchPcs,
           FmStopPcs
  <2>35. FmBudget'
    <3>1. FmOpDue' = 0 /\ FmSchDue' = FmSchDue /\ FmStopDue' = FmStopDue /\ fmGen' = fmGen + 1 /\ fmRetry'.epoch = fmRetry.epoch /\ FmOpDue = 1
      BY <1>0, <1>2, <2>10, <2>13, <2>09, <2>11, <2>19
         DEF PlayStarts, CallTo, Range, StartsSupervisor, FmTypes, FmFlags, FmNumbers, FmRetryType,
             FmOpDue, FmSchDue, FmStopDue
    <3>2. FmOpDue \in {0, 1} /\ FmSchDue \in {0, 1} /\ FmStopDue \in {0, 1} /\ fmRetry.epoch \in Nat
      BY FmNats DEF FmOpDue, FmSchDue, FmStopDue, FmTypes, FmNumbers, FmRetryType
    <3>3. fmGen' + FmOpDue' + FmSchDue' + FmStopDue' <= FmGens + fmRetry'.epoch + 3
      BY <1>00, <3>1, <3>2 DEF FmBudget
    <3>4. QED
      BY <3>3 DEF FmBudget
  <2>36. FmPlaces'
    <3>1. FmGroupPlaced'
      BY <1>0, <2>10, <2>13, <2>09, <2>11, <2>19, <2>26, <2>27
         DEF FmFlags, FmNumbers, FmTypes, FmPlaces, FmGroupPlaced, FmPlaced, FmHeld, FmHeldAt,
             FmTurns, FmFailing, FmLetPcs
    <3>2. ASSUME NEW h \in FmRuns PROVE FmPlaced(h)'
      <4>1. FmPlaced(h) /\ FmHeldAt(h) /\ h \in Nat /\ h # 0
        BY <1>0 DEF FmPlaces, FmHeld
      <4>3. h > fmGen' => h > fmGen /\ h # fmGen + 1
        BY <4>1, <1>00, <2>26, <2>27
      <4>2. QED
        BY <1>00, <2>10, <2>11, <2>19, <2>26, <2>27, <4>1, <4>3
           DEF FmPlaced, FmHeldAt, FmFailing, FmStopping, FmLetPcs, FmTurns, FmTypes, FmNumbers
    <3>3. QED
      BY <3>1, <3>2 DEF FmPlaces
  <2>37. FmTurns'
    BY <1>0, <2>10, <2>13, <2>09, <2>11, <2>19, <2>26, <2>27
       DEF FmFlags, FmNumbers, FmTypes, FmCalls, FmPlaces, FmGroupPlaced, FmPlaced, FmTurns,
           FmFresh, FmFreshCall, FmFreshSup, FmHeld, FmHeldAt, FmStopPcs, FmLetPcs, FmOpPcs,
           FmSchPcs
  <2>38. FmHeld'
    <3>1. ASSUME NEW h \in FmRuns PROVE FmHeldAt(h)'
      <4>1. FmPlaced(h) /\ FmHeldAt(h) /\ h \in Nat /\ h # 0
        BY <1>0 DEF FmPlaces, FmHeld
      <4>3. h > fmGen' => h > fmGen /\ h # fmGen + 1
        BY <4>1, <1>00, <2>26, <2>27
      <4>2. QED
        BY <1>00, <2>10, <2>11, <2>19, <2>26, <2>27, <4>1, <4>3
           DEF FmPlaced, FmHeldAt, FmFailing, FmStopping, FmQuiet, FmFresh, FmFreshSup, FmTypes,
               FmNumbers
    <3>2. QED
      BY <3>1 DEF FmHeld
  <2>39. FmFresh'
    <3>1. FmFreshCall'
      BY <1>0, <2>10, <2>13, <2>09, <2>11, <2>19, <2>26, <2>27
         DEF FmFlags, FmNumbers, FmTypes, FmPlaces, FmGroupPlaced, FmPlaced, FmTurns, FmHeld,
             FmHeldAt, FmFresh, FmFreshCall, FmFreshSup, FmSilent, FmSilentNow, FmSilentEver,
             FmSilentYield, FmQuiet, FmLetting, FmStopping, FmFailing, FmStopPcs, FmLetPcs, FmMons,
             FmMonPcs
    <3>2. FmFreshSup'
      BY <1>0, <2>10, <2>13, <2>09, <2>11, <2>19, <2>26, <2>27
         DEF FmFlags, FmNumbers, FmTypes, FmPlaces, FmGroupPlaced, FmPlaced, FmTurns, FmHeld,
             FmHeldAt, FmFresh, FmFreshCall, FmFreshSup, FmSilent, FmSilentNow, FmSilentEver,
             FmSilentYield, FmQuiet, FmLetting, FmStopping, FmFailing, FmStopPcs, FmLetPcs, FmMons,
             FmMonPcs
    <3>3. QED
      BY <3>1, <3>2 DEF FmFresh
  <2>40. FmSilent'
    <3>1. FmSilentNow'
      BY <1>0, <2>10, <2>13, <2>09, <2>11, <2>19, <2>26, <2>27
         DEF FmFlags, FmNumbers, FmTypes, FmPlaces, FmGroupPlaced, FmPlaced, FmTurns, FmHeld,
             FmHeldAt, FmFresh, FmFreshCall, FmFreshSup, FmSilent, FmSilentNow, FmSilentEver,
             FmSilentYield, FmQuiet, FmLetting, FmWatched, FmFailing, FmStopPcs, FmLetPcs, FmMons,
             FmMonPcs
    <3>2. FmSilentEver'
      BY <1>0, <2>10, <2>13, <2>09, <2>11, <2>19, <2>26, <2>27
         DEF FmFlags, FmNumbers, FmTypes, FmPlaces, FmGroupPlaced, FmPlaced, FmTurns, FmHeld,
             FmHeldAt, FmFresh, FmFreshCall, FmFreshSup, FmSilent, FmSilentNow, FmSilentEver,
             FmSilentYield, FmQuiet, FmLetting, FmWatched, FmFailing, FmStopPcs, FmLetPcs, FmMons,
             FmMonPcs
    <3>3. FmSilentYield'
      BY <1>0, <2>10, <2>13, <2>09, <2>11, <2>19, <2>26, <2>27
         DEF FmFlags, FmNumbers, FmTypes, FmPlaces, FmGroupPlaced, FmPlaced, FmTurns, FmHeld,
             FmHeldAt, FmFresh, FmFreshCall, FmFreshSup, FmSilent, FmSilentNow, FmSilentEver,
             FmSilentYield, FmQuiet, FmLetting, FmWatched, FmFailing, FmStopPcs, FmLetPcs, FmMons,
             FmMonPcs
    <3>4. QED
      BY <3>1, <3>2, <3>3 DEF FmSilent
  <2>41. FmGranted'
    BY <1>0, <2>10, <2>13, <2>09, <2>11, <2>19, <2>26, <2>27
       DEF FmFlags, FmNumbers, FmTypes, FmPlaces, FmGroupPlaced, FmPlaced, FmTurns, FmHeld,
           FmHeldAt, FmFresh, FmFreshCall, FmFreshSup, FmSilent, FmSilentNow, FmSilentEver,
           FmSilentYield, FmQuiet, FmLetting, FmWatched, FmGranted, FmFailing, FmStopPcs, FmLetPcs
  <2>60. QED
    BY <2>30, <2>31, <2>32, <2>33, <2>34, <2>35, <2>36, <2>37, <2>38, <2>39, <2>40, <2>41
       DEF FmTypes
<1>3. CASE PlayStarts("scheduler")
  <2>10. FmSch.pc = "play" /\ FmSch'.pc = "none" /\ FmSch'.group = FmSch.group /\ FmOp' = FmOp
    BY <1>0, <1>3
       DEF PlayStarts, CallTo, Range, StartsSupervisor, FmOp, FmSch, FmCalls, FmCallTypes,
           FmCallType, FmTypes
  <2>13. fmCaller' \in FmCallTypes
    BY <1>0, <1>3, <2>10
       DEF PlayStarts, CallTo, Range, StartsSupervisor, FmOp, FmSch, FmCalls, FmCallTypes,
           FmCallType, FmTypes, FmNumbers, FmOpPcs, FmSchPcs, FmStopPcs
  <2>09. fmGen + 1 \in FmRuns
    BY <1>0, <1>3, <2>10, <2>13 DEF PlayStarts, CallTo, Range, StartsSupervisor
  <2>11. \A h \in FmRuns : fmSup'[h] = IF h = fmGen + 1 THEN "start" ELSE fmSup[h]
    BY <1>0, <1>3, <2>10, <2>13, <2>09
       DEF PlayStarts, CallTo, Range, StartsSupervisor, FmSups, FmTypes
  <2>19. fmGen + 1 \in FmRuns /\ fmSup[fmGen + 1] = "none" /\ fmMon[fmGen + 1] = "none" /\ fmGen + 1 # fmGroup /\ fmGen + 1 \notin fmOpen
    BY <1>0, <1>3, <2>10, <2>13, <2>09, <2>11, <1>01 DEF PlayStarts, CallTo, Range, StartsSupervisor
  <2>26. UNCHANGED <<fmActive, fmDongle, fmSlot, fmGroup, fmOpen, fmMon, fmRetry>>
    BY <1>0, <1>3, <2>10, <2>13, <2>09, <2>11, <2>19
       DEF PlayStarts, CallTo, Range, StartsSupervisor, FmSups, FmMons
  <2>27. fmPlaying' = TRUE /\ fmGen' = fmGen + 1 /\ \A h \in FmRuns : fmSup[h] # "handler"
    BY <1>0, <1>3, <2>10, <2>13, <2>09, <2>11, <2>19
       DEF PlayStarts, CallTo, Range, StartsSupervisor, FmSch, FmOp, FmTypes, FmSups, FmMons,
           FmFlags
  <2>30. FmFlags'
    BY <1>0, <1>3, <2>10, <2>13, <2>09, <2>11, <2>19
       DEF PlayStarts, CallTo, Range, StartsSupervisor, FmFlags, FmTypes
  <2>31. FmNumbers'
    BY <1>0, <1>3, <2>10, <2>13, <2>09, <2>11, <2>19
       DEF PlayStarts, CallTo, Range, StartsSupervisor, FmNumbers, FmTypes, FmRetryType
  <2>32. FmSups'
    BY <1>0, <1>3, <2>10, <2>13, <2>09, <2>11, <2>19
       DEF PlayStarts, CallTo, Range, StartsSupervisor, FmSups, FmTypes, FmSupPcs
  <2>33. FmMons'
    BY <1>0, <1>3, <2>10, <2>13, <2>09, <2>11, <2>19
       DEF PlayStarts, CallTo, Range, StartsSupervisor, FmMons, FmTypes, FmMonPcs, FmFailing
  <2>34. FmCalls'
    BY <1>0, <1>3, <2>10, <2>13, <2>09, <2>11, <2>19
       DEF PlayStarts, CallTo, Range, StartsSupervisor, FmCalls, FmTypes, FmOpPcs, FmSchPcs,
           FmStopPcs
  <2>35. FmBudget'
    <3>1. FmOpDue' = FmOpDue /\ FmSchDue' = 0 /\ FmStopDue' = FmStopDue /\ fmGen' = fmGen + 1 /\ fmRetry'.epoch = fmRetry.epoch /\ FmSchDue = 1
      BY <1>0, <1>3, <2>10, <2>13, <2>09, <2>11, <2>19
         DEF PlayStarts, CallTo, Range, StartsSupervisor, FmTypes, FmFlags, FmNumbers, FmRetryType,
             FmOpDue, FmSchDue, FmStopDue
    <3>2. FmOpDue \in {0, 1} /\ FmSchDue \in {0, 1} /\ FmStopDue \in {0, 1} /\ fmRetry.epoch \in Nat
      BY FmNats DEF FmOpDue, FmSchDue, FmStopDue, FmTypes, FmNumbers, FmRetryType
    <3>3. fmGen' + FmOpDue' + FmSchDue' + FmStopDue' <= FmGens + fmRetry'.epoch + 3
      BY <1>00, <3>1, <3>2 DEF FmBudget
    <3>4. QED
      BY <3>3 DEF FmBudget
  <2>36. FmPlaces'
    <3>1. FmGroupPlaced'
      BY <1>0, <2>10, <2>13, <2>09, <2>11, <2>19, <2>26, <2>27
         DEF FmFlags, FmNumbers, FmTypes, FmPlaces, FmGroupPlaced, FmPlaced, FmHeld, FmHeldAt,
             FmTurns, FmFailing, FmLetPcs
    <3>2. ASSUME NEW h \in FmRuns PROVE FmPlaced(h)'
      <4>1. FmPlaced(h) /\ FmHeldAt(h) /\ h \in Nat /\ h # 0
        BY <1>0 DEF FmPlaces, FmHeld
      <4>3. h > fmGen' => h > fmGen /\ h # fmGen + 1
        BY <4>1, <1>00, <2>26, <2>27
      <4>2. QED
        BY <1>00, <2>10, <2>11, <2>19, <2>26, <2>27, <4>1, <4>3
           DEF FmPlaced, FmHeldAt, FmFailing, FmStopping, FmLetPcs, FmTurns, FmTypes, FmNumbers
    <3>3. QED
      BY <3>1, <3>2 DEF FmPlaces
  <2>37. FmTurns'
    BY <1>0, <2>10, <2>13, <2>09, <2>11, <2>19, <2>26, <2>27
       DEF FmFlags, FmNumbers, FmTypes, FmCalls, FmPlaces, FmGroupPlaced, FmPlaced, FmTurns,
           FmFresh, FmFreshCall, FmFreshSup, FmHeld, FmHeldAt, FmStopPcs, FmLetPcs, FmOpPcs,
           FmSchPcs
  <2>38. FmHeld'
    <3>1. ASSUME NEW h \in FmRuns PROVE FmHeldAt(h)'
      <4>1. FmPlaced(h) /\ FmHeldAt(h) /\ h \in Nat /\ h # 0
        BY <1>0 DEF FmPlaces, FmHeld
      <4>3. h > fmGen' => h > fmGen /\ h # fmGen + 1
        BY <4>1, <1>00, <2>26, <2>27
      <4>2. QED
        BY <1>00, <2>10, <2>11, <2>19, <2>26, <2>27, <4>1, <4>3
           DEF FmPlaced, FmHeldAt, FmFailing, FmStopping, FmQuiet, FmFresh, FmFreshSup, FmTypes,
               FmNumbers
    <3>2. QED
      BY <3>1 DEF FmHeld
  <2>39. FmFresh'
    <3>1. FmFreshCall'
      BY <1>0, <2>10, <2>13, <2>09, <2>11, <2>19, <2>26, <2>27
         DEF FmFlags, FmNumbers, FmTypes, FmPlaces, FmGroupPlaced, FmPlaced, FmTurns, FmHeld,
             FmHeldAt, FmFresh, FmFreshCall, FmFreshSup, FmSilent, FmSilentNow, FmSilentEver,
             FmSilentYield, FmQuiet, FmLetting, FmStopping, FmFailing, FmStopPcs, FmLetPcs, FmMons,
             FmMonPcs
    <3>2. FmFreshSup'
      BY <1>0, <2>10, <2>13, <2>09, <2>11, <2>19, <2>26, <2>27
         DEF FmFlags, FmNumbers, FmTypes, FmPlaces, FmGroupPlaced, FmPlaced, FmTurns, FmHeld,
             FmHeldAt, FmFresh, FmFreshCall, FmFreshSup, FmSilent, FmSilentNow, FmSilentEver,
             FmSilentYield, FmQuiet, FmLetting, FmStopping, FmFailing, FmStopPcs, FmLetPcs, FmMons,
             FmMonPcs
    <3>3. QED
      BY <3>1, <3>2 DEF FmFresh
  <2>40. FmSilent'
    <3>1. FmSilentNow'
      BY <1>0, <2>10, <2>13, <2>09, <2>11, <2>19, <2>26, <2>27
         DEF FmFlags, FmNumbers, FmTypes, FmPlaces, FmGroupPlaced, FmPlaced, FmTurns, FmHeld,
             FmHeldAt, FmFresh, FmFreshCall, FmFreshSup, FmSilent, FmSilentNow, FmSilentEver,
             FmSilentYield, FmQuiet, FmLetting, FmWatched, FmFailing, FmStopPcs, FmLetPcs, FmMons,
             FmMonPcs
    <3>2. FmSilentEver'
      BY <1>0, <2>10, <2>13, <2>09, <2>11, <2>19, <2>26, <2>27
         DEF FmFlags, FmNumbers, FmTypes, FmPlaces, FmGroupPlaced, FmPlaced, FmTurns, FmHeld,
             FmHeldAt, FmFresh, FmFreshCall, FmFreshSup, FmSilent, FmSilentNow, FmSilentEver,
             FmSilentYield, FmQuiet, FmLetting, FmWatched, FmFailing, FmStopPcs, FmLetPcs, FmMons,
             FmMonPcs
    <3>3. FmSilentYield'
      BY <1>0, <2>10, <2>13, <2>09, <2>11, <2>19, <2>26, <2>27
         DEF FmFlags, FmNumbers, FmTypes, FmPlaces, FmGroupPlaced, FmPlaced, FmTurns, FmHeld,
             FmHeldAt, FmFresh, FmFreshCall, FmFreshSup, FmSilent, FmSilentNow, FmSilentEver,
             FmSilentYield, FmQuiet, FmLetting, FmWatched, FmFailing, FmStopPcs, FmLetPcs, FmMons,
             FmMonPcs
    <3>4. QED
      BY <3>1, <3>2, <3>3 DEF FmSilent
  <2>41. FmGranted'
    BY <1>0, <2>10, <2>13, <2>09, <2>11, <2>19, <2>26, <2>27
       DEF FmFlags, FmNumbers, FmTypes, FmPlaces, FmGroupPlaced, FmPlaced, FmTurns, FmHeld,
           FmHeldAt, FmFresh, FmFreshCall, FmFreshSup, FmSilent, FmSilentNow, FmSilentEver,
           FmSilentYield, FmQuiet, FmLetting, FmWatched, FmGranted, FmFailing, FmStopPcs, FmLetPcs
  <2>60. QED
    BY <2>30, <2>31, <2>32, <2>33, <2>34, <2>35, <2>36, <2>37, <2>38, <2>39, <2>40, <2>41
       DEF FmTypes
<1>4. CASE StopPlayback
  <2>10. FmOp.pc = "none" /\ FmOp'.pc = "detach" /\ FmOp'.group = FmOp.group /\ FmSch' = FmSch
    BY <1>0, <1>4
       DEF StopPlayback, CallTo, Invalidates, NewEpoch, Room, fmThreads, FmOp, FmSch, FmCalls,
           FmCallTypes, FmCallType, FmTypes
  <2>13. fmCaller' \in FmCallTypes
    BY <1>0, <1>4, <2>10
       DEF StopPlayback, CallTo, Invalidates, NewEpoch, Room, fmThreads, FmOp, FmSch, FmCalls,
           FmCallTypes, FmCallType, FmTypes, FmNumbers, FmOpPcs, FmSchPcs, FmStopPcs
  <2>09. fmGen + 1 \in FmRuns
    BY <1>0, <1>4, <2>10, <2>13 DEF StopPlayback, CallTo, Invalidates, NewEpoch, Room, fmThreads
  <2>19. fmGen + 1 \in FmRuns /\ fmSup[fmGen + 1] = "none" /\ fmMon[fmGen + 1] = "none" /\ fmGen + 1 # fmGroup /\ fmGen + 1 \notin fmOpen
    BY <1>0, <1>4, <2>10, <2>13, <2>09, <1>01
       DEF StopPlayback, CallTo, Invalidates, NewEpoch, Room, fmThreads
  <2>20. fmRetry' \in FmRetryType /\ fmRetry'.epoch = fmRetry.epoch + 1
    BY <1>0, <1>4, <2>10, <2>13, <2>09, <2>19, FmRetryKeeps
       DEF StopPlayback, CallTo, Invalidates, NewEpoch, Room, fmThreads, FmTypes, FmNumbers
  <2>26. UNCHANGED <<fmActive, fmDongle, fmGroup, fmOpen, fmSup, fmMon>>
    BY <1>0, <1>4, <2>10, <2>13, <2>09, <2>19, <2>20
       DEF StopPlayback, CallTo, Invalidates, NewEpoch, Room, fmThreads, FmSups, FmMons
  <2>27. fmActive /\ fmGen < FmGens /\ FmSch.pc # "play" /\ fmPlaying' = FALSE /\ fmGen' = fmGen + 1
        /\ (fmSlot' = fmSlot \/ (fmSlot = "suspended" /\ fmSlot' = "idle"))
    BY <1>0, <1>4, <2>10, <2>13, <2>09, <2>19, <2>20
       DEF StopPlayback, CallTo, Invalidates, NewEpoch, Room, fmThreads, FmSch, FmOp, FmTypes,
           FmSups, FmMons, FmFlags
  <2>30. FmFlags'
    BY <1>0, <1>4, <2>10, <2>13, <2>09, <2>19, <2>20
       DEF StopPlayback, CallTo, Invalidates, NewEpoch, Room, fmThreads, FmFlags, FmTypes
  <2>31. FmNumbers'
    BY <1>0, <1>4, <2>10, <2>13, <2>09, <2>19, <2>20
       DEF StopPlayback, CallTo, Invalidates, NewEpoch, Room, fmThreads, FmNumbers, FmTypes,
           FmRetryType
  <2>32. FmSups'
    BY <1>0, <1>4, <2>10, <2>13, <2>09, <2>19, <2>20
       DEF StopPlayback, CallTo, Invalidates, NewEpoch, Room, fmThreads, FmSups, FmTypes, FmSupPcs
  <2>33. FmMons'
    BY <1>0, <1>4, <2>10, <2>13, <2>09, <2>19, <2>20
       DEF StopPlayback, CallTo, Invalidates, NewEpoch, Room, fmThreads, FmMons, FmTypes, FmMonPcs,
           FmFailing
  <2>34. FmCalls'
    BY <1>0, <1>4, <2>10, <2>13, <2>09, <2>19, <2>20
       DEF StopPlayback, CallTo, Invalidates, NewEpoch, Room, fmThreads, FmCalls, FmTypes, FmOpPcs,
           FmSchPcs, FmStopPcs
  <2>35. FmBudget'
    <3>1. FmOpDue' = 0 /\ FmSchDue' = FmSchDue /\ FmStopDue' = FmStopDue /\ fmGen' = fmGen + 1 /\ fmRetry'.epoch = fmRetry.epoch + 1 /\ fmGen < FmGens
      BY <1>0, <1>4, <2>10, <2>13, <2>09, <2>19, <2>20
         DEF StopPlayback, CallTo, Invalidates, NewEpoch, Room, fmThreads, FmTypes, FmFlags,
             FmNumbers, FmRetryType, FmOpDue, FmSchDue, FmStopDue
    <3>2. FmOpDue \in {0, 1} /\ FmSchDue \in {0, 1} /\ FmStopDue \in {0, 1} /\ fmRetry.epoch \in Nat
      BY FmNats DEF FmOpDue, FmSchDue, FmStopDue, FmTypes, FmNumbers, FmRetryType
    <3>3. fmGen' + FmOpDue' + FmSchDue' + FmStopDue' <= FmGens + fmRetry'.epoch + 3
      BY <1>00, <3>1, <3>2 DEF FmBudget
    <3>4. QED
      BY <3>3 DEF FmBudget
  <2>36. FmPlaces'
    <3>1. FmGroupPlaced'
      BY <1>0, <2>10, <2>13, <2>09, <2>19, <2>20, <2>26, <2>27
         DEF FmFlags, FmNumbers, FmTypes, FmPlaces, FmGroupPlaced, FmPlaced, FmHeld, FmHeldAt,
             FmTurns, FmFailing, FmLetPcs
    <3>2. ASSUME NEW h \in FmRuns PROVE FmPlaced(h)'
      <4>1. FmPlaced(h) /\ FmHeldAt(h) /\ h \in Nat /\ h # 0
        BY <1>0 DEF FmPlaces, FmHeld
      <4>3. h > fmGen' => h > fmGen
        BY <4>1, <1>00, <2>26, <2>27
      <4>2. QED
        BY <1>00, <2>10, <2>19, <2>20, <2>26, <2>27, <4>1, <4>3
           DEF FmPlaced, FmHeldAt, FmFailing, FmStopping, FmLetPcs, FmTurns, FmTypes, FmNumbers
    <3>3. QED
      BY <3>1, <3>2 DEF FmPlaces
  <2>37. FmTurns'
    BY <1>0, <2>10, <2>13, <2>09, <2>19, <2>20, <2>26, <2>27
       DEF FmFlags, FmNumbers, FmTypes, FmCalls, FmPlaces, FmGroupPlaced, FmPlaced, FmTurns,
           FmFresh, FmFreshCall, FmFreshSup, FmHeld, FmHeldAt, FmStopPcs, FmLetPcs, FmOpPcs,
           FmSchPcs
  <2>38. FmHeld'
    <3>1. ASSUME NEW h \in FmRuns PROVE FmHeldAt(h)'
      <4>1. FmPlaced(h) /\ FmHeldAt(h) /\ h \in Nat /\ h # 0
        BY <1>0 DEF FmPlaces, FmHeld
      <4>3. h > fmGen' => h > fmGen
        BY <4>1, <1>00, <2>26, <2>27
      <4>2. QED
        BY <1>00, <2>10, <2>19, <2>20, <2>26, <2>27, <4>1, <4>3
           DEF FmPlaced, FmHeldAt, FmFailing, FmStopping, FmQuiet, FmFresh, FmFreshSup, FmTypes,
               FmNumbers
    <3>2. QED
      BY <3>1 DEF FmHeld
  <2>39. FmFresh'
    <3>1. FmFreshCall'
      BY <1>0, <2>10, <2>13, <2>09, <2>19, <2>20, <2>26, <2>27
         DEF FmFlags, FmNumbers, FmTypes, FmPlaces, FmGroupPlaced, FmPlaced, FmTurns, FmHeld,
             FmHeldAt, FmFresh, FmFreshCall, FmFreshSup, FmSilent, FmSilentNow, FmSilentEver,
             FmSilentYield, FmQuiet, FmLetting, FmStopping, FmFailing, FmStopPcs, FmLetPcs, FmMons,
             FmMonPcs
    <3>2. FmFreshSup'
      BY <1>0, <2>10, <2>13, <2>09, <2>19, <2>20, <2>26, <2>27
         DEF FmFlags, FmNumbers, FmTypes, FmPlaces, FmGroupPlaced, FmPlaced, FmTurns, FmHeld,
             FmHeldAt, FmFresh, FmFreshCall, FmFreshSup, FmSilent, FmSilentNow, FmSilentEver,
             FmSilentYield, FmQuiet, FmLetting, FmStopping, FmFailing, FmStopPcs, FmLetPcs, FmMons,
             FmMonPcs
    <3>3. QED
      BY <3>1, <3>2 DEF FmFresh
  <2>40. FmSilent'
    <3>1. FmSilentNow'
      BY <1>0, <2>10, <2>13, <2>09, <2>19, <2>20, <2>26, <2>27
         DEF FmFlags, FmNumbers, FmTypes, FmPlaces, FmGroupPlaced, FmPlaced, FmTurns, FmHeld,
             FmHeldAt, FmFresh, FmFreshCall, FmFreshSup, FmSilent, FmSilentNow, FmSilentEver,
             FmSilentYield, FmQuiet, FmLetting, FmWatched, FmFailing, FmStopPcs, FmLetPcs, FmMons,
             FmMonPcs
    <3>2. FmSilentEver'
      BY <1>0, <2>10, <2>13, <2>09, <2>19, <2>20, <2>26, <2>27
         DEF FmFlags, FmNumbers, FmTypes, FmPlaces, FmGroupPlaced, FmPlaced, FmTurns, FmHeld,
             FmHeldAt, FmFresh, FmFreshCall, FmFreshSup, FmSilent, FmSilentNow, FmSilentEver,
             FmSilentYield, FmQuiet, FmLetting, FmWatched, FmFailing, FmStopPcs, FmLetPcs, FmMons,
             FmMonPcs
    <3>3. FmSilentYield'
      BY <1>0, <2>10, <2>13, <2>09, <2>19, <2>20, <2>26, <2>27
         DEF FmFlags, FmNumbers, FmTypes, FmPlaces, FmGroupPlaced, FmPlaced, FmTurns, FmHeld,
             FmHeldAt, FmFresh, FmFreshCall, FmFreshSup, FmSilent, FmSilentNow, FmSilentEver,
             FmSilentYield, FmQuiet, FmLetting, FmWatched, FmFailing, FmStopPcs, FmLetPcs, FmMons,
             FmMonPcs
    <3>4. QED
      BY <3>1, <3>2, <3>3 DEF FmSilent
  <2>41. FmGranted'
    BY <1>0, <2>10, <2>13, <2>09, <2>19, <2>20, <2>26, <2>27
       DEF FmFlags, FmNumbers, FmTypes, FmPlaces, FmGroupPlaced, FmPlaced, FmTurns, FmHeld,
           FmHeldAt, FmFresh, FmFreshCall, FmFreshSup, FmSilent, FmSilentNow, FmSilentEver,
           FmSilentYield, FmQuiet, FmLetting, FmWatched, FmGranted, FmFailing, FmStopPcs, FmLetPcs
  <2>60. QED
    BY <2>30, <2>31, <2>32, <2>33, <2>34, <2>35, <2>36, <2>37, <2>38, <2>39, <2>40, <2>41
       DEF FmTypes
<1>5. CASE Tune
  <2>10. FmOp.pc = "none" /\ FmOp'.pc = "detach tune" /\ FmOp'.group = FmOp.group /\ FmSch' = FmSch
    BY <1>0, <1>5
       DEF Tune, CallTo, Invalidates, Room, fmThreads, FmOp, FmSch, FmCalls, FmCallTypes,
           FmCallType, FmTypes
  <2>13. fmCaller' \in FmCallTypes
    BY <1>0, <1>5, <2>10
       DEF Tune, CallTo, Invalidates, Room, fmThreads, FmOp, FmSch, FmCalls, FmCallTypes,
           FmCallType, FmTypes, FmNumbers, FmOpPcs, FmSchPcs, FmStopPcs
  <2>09. fmGen + 1 \in FmRuns
    BY <1>0, <1>5, <2>10, <2>13 DEF Tune, CallTo, Invalidates, Room, fmThreads
  <2>19. fmGen + 1 \in FmRuns /\ fmSup[fmGen + 1] = "none" /\ fmMon[fmGen + 1] = "none" /\ fmGen + 1 # fmGroup /\ fmGen + 1 \notin fmOpen
    BY <1>0, <1>5, <2>10, <2>13, <2>09, <1>01 DEF Tune, CallTo, Invalidates, Room, fmThreads
  <2>26. UNCHANGED <<fmActive, fmDongle, fmSlot, fmPlaying, fmGroup, fmOpen, fmSup, fmMon, fmRetry>>
    BY <1>0, <1>5, <2>10, <2>13, <2>09, <2>19
       DEF Tune, CallTo, Invalidates, Room, fmThreads, FmSups, FmMons
  <2>27. fmActive /\ fmPlaying /\ fmGen < FmGens /\ FmSch.pc # "play" /\ fmGen' = fmGen + 1
    BY <1>0, <1>5, <2>10, <2>13, <2>09, <2>19
       DEF Tune, CallTo, Invalidates, Room, fmThreads, FmSch, FmOp, FmTypes, FmSups, FmMons, FmFlags
  <2>30. FmFlags'
    BY <1>0, <1>5, <2>10, <2>13, <2>09, <2>19
       DEF Tune, CallTo, Invalidates, Room, fmThreads, FmFlags, FmTypes
  <2>31. FmNumbers'
    BY <1>0, <1>5, <2>10, <2>13, <2>09, <2>19
       DEF Tune, CallTo, Invalidates, Room, fmThreads, FmNumbers, FmTypes, FmRetryType
  <2>32. FmSups'
    BY <1>0, <1>5, <2>10, <2>13, <2>09, <2>19
       DEF Tune, CallTo, Invalidates, Room, fmThreads, FmSups, FmTypes, FmSupPcs
  <2>33. FmMons'
    BY <1>0, <1>5, <2>10, <2>13, <2>09, <2>19
       DEF Tune, CallTo, Invalidates, Room, fmThreads, FmMons, FmTypes, FmMonPcs, FmFailing
  <2>34. FmCalls'
    BY <1>0, <1>5, <2>10, <2>13, <2>09, <2>19
       DEF Tune, CallTo, Invalidates, Room, fmThreads, FmCalls, FmTypes, FmOpPcs, FmSchPcs,
           FmStopPcs
  <2>35. FmBudget'
    <3>1. FmOpDue' = 1 /\ FmSchDue' = FmSchDue /\ FmStopDue' = FmStopDue /\ fmGen' = fmGen + 1 /\ fmRetry'.epoch = fmRetry.epoch /\ fmGen < FmGens
      BY <1>0, <1>5, <2>10, <2>13, <2>09, <2>19
         DEF Tune, CallTo, Invalidates, Room, fmThreads, FmTypes, FmFlags, FmNumbers, FmRetryType,
             FmOpDue, FmSchDue, FmStopDue
    <3>2. FmOpDue \in {0, 1} /\ FmSchDue \in {0, 1} /\ FmStopDue \in {0, 1} /\ fmRetry.epoch \in Nat
      BY FmNats DEF FmOpDue, FmSchDue, FmStopDue, FmTypes, FmNumbers, FmRetryType
    <3>3. fmGen' + FmOpDue' + FmSchDue' + FmStopDue' <= FmGens + fmRetry'.epoch + 3
      BY <1>00, <3>1, <3>2 DEF FmBudget
    <3>4. QED
      BY <3>3 DEF FmBudget
  <2>36. FmPlaces'
    <3>1. FmGroupPlaced'
      BY <1>0, <2>10, <2>13, <2>09, <2>19, <2>26, <2>27
         DEF FmFlags, FmNumbers, FmTypes, FmPlaces, FmGroupPlaced, FmPlaced, FmHeld, FmHeldAt,
             FmTurns, FmFailing, FmLetPcs
    <3>2. ASSUME NEW h \in FmRuns PROVE FmPlaced(h)'
      <4>1. FmPlaced(h) /\ FmHeldAt(h) /\ h \in Nat /\ h # 0
        BY <1>0 DEF FmPlaces, FmHeld
      <4>3. h > fmGen' => h > fmGen
        BY <4>1, <1>00, <2>26, <2>27
      <4>2. QED
        BY <1>00, <2>10, <2>19, <2>26, <2>27, <4>1, <4>3
           DEF FmPlaced, FmHeldAt, FmFailing, FmStopping, FmLetPcs, FmTurns, FmTypes, FmNumbers
    <3>3. QED
      BY <3>1, <3>2 DEF FmPlaces
  <2>37. FmTurns'
    BY <1>0, <2>10, <2>13, <2>09, <2>19, <2>26, <2>27
       DEF FmFlags, FmNumbers, FmTypes, FmCalls, FmPlaces, FmGroupPlaced, FmPlaced, FmTurns,
           FmFresh, FmFreshCall, FmFreshSup, FmHeld, FmHeldAt, FmStopPcs, FmLetPcs, FmOpPcs,
           FmSchPcs
  <2>38. FmHeld'
    <3>1. ASSUME NEW h \in FmRuns PROVE FmHeldAt(h)'
      <4>1. FmPlaced(h) /\ FmHeldAt(h) /\ h \in Nat /\ h # 0
        BY <1>0 DEF FmPlaces, FmHeld
      <4>3. h > fmGen' => h > fmGen
        BY <4>1, <1>00, <2>26, <2>27
      <4>2. QED
        BY <1>00, <2>10, <2>19, <2>26, <2>27, <4>1, <4>3
           DEF FmPlaced, FmHeldAt, FmFailing, FmStopping, FmQuiet, FmFresh, FmFreshSup, FmTypes,
               FmNumbers
    <3>2. QED
      BY <3>1 DEF FmHeld
  <2>39. FmFresh'
    <3>1. FmFreshCall'
      BY <1>0, <2>10, <2>13, <2>09, <2>19, <2>26, <2>27
         DEF FmFlags, FmNumbers, FmTypes, FmPlaces, FmGroupPlaced, FmPlaced, FmTurns, FmHeld,
             FmHeldAt, FmFresh, FmFreshCall, FmFreshSup, FmSilent, FmSilentNow, FmSilentEver,
             FmSilentYield, FmQuiet, FmLetting, FmStopping, FmFailing, FmStopPcs, FmLetPcs, FmMons,
             FmMonPcs
    <3>2. FmFreshSup'
      BY <1>0, <2>10, <2>13, <2>09, <2>19, <2>26, <2>27
         DEF FmFlags, FmNumbers, FmTypes, FmPlaces, FmGroupPlaced, FmPlaced, FmTurns, FmHeld,
             FmHeldAt, FmFresh, FmFreshCall, FmFreshSup, FmSilent, FmSilentNow, FmSilentEver,
             FmSilentYield, FmQuiet, FmLetting, FmStopping, FmFailing, FmStopPcs, FmLetPcs, FmMons,
             FmMonPcs
    <3>3. QED
      BY <3>1, <3>2 DEF FmFresh
  <2>40. FmSilent'
    <3>1. FmSilentNow'
      BY <1>0, <2>10, <2>13, <2>09, <2>19, <2>26, <2>27
         DEF FmFlags, FmNumbers, FmTypes, FmPlaces, FmGroupPlaced, FmPlaced, FmTurns, FmHeld,
             FmHeldAt, FmFresh, FmFreshCall, FmFreshSup, FmSilent, FmSilentNow, FmSilentEver,
             FmSilentYield, FmQuiet, FmLetting, FmWatched, FmFailing, FmStopPcs, FmLetPcs, FmMons,
             FmMonPcs
    <3>2. FmSilentEver'
      BY <1>0, <2>10, <2>13, <2>09, <2>19, <2>26, <2>27
         DEF FmFlags, FmNumbers, FmTypes, FmPlaces, FmGroupPlaced, FmPlaced, FmTurns, FmHeld,
             FmHeldAt, FmFresh, FmFreshCall, FmFreshSup, FmSilent, FmSilentNow, FmSilentEver,
             FmSilentYield, FmQuiet, FmLetting, FmWatched, FmFailing, FmStopPcs, FmLetPcs, FmMons,
             FmMonPcs
    <3>3. FmSilentYield'
      BY <1>0, <2>10, <2>13, <2>09, <2>19, <2>26, <2>27
         DEF FmFlags, FmNumbers, FmTypes, FmPlaces, FmGroupPlaced, FmPlaced, FmTurns, FmHeld,
             FmHeldAt, FmFresh, FmFreshCall, FmFreshSup, FmSilent, FmSilentNow, FmSilentEver,
             FmSilentYield, FmQuiet, FmLetting, FmWatched, FmFailing, FmStopPcs, FmLetPcs, FmMons,
             FmMonPcs
    <3>4. QED
      BY <3>1, <3>2, <3>3 DEF FmSilent
  <2>41. FmGranted'
    BY <1>0, <2>10, <2>13, <2>09, <2>19, <2>26, <2>27
       DEF FmFlags, FmNumbers, FmTypes, FmPlaces, FmGroupPlaced, FmPlaced, FmTurns, FmHeld,
           FmHeldAt, FmFresh, FmFreshCall, FmFreshSup, FmSilent, FmSilentNow, FmSilentEver,
           FmSilentYield, FmQuiet, FmLetting, FmWatched, FmGranted, FmFailing, FmStopPcs, FmLetPcs
  <2>60. QED
    BY <2>30, <2>31, <2>32, <2>33, <2>34, <2>35, <2>36, <2>37, <2>38, <2>39, <2>40, <2>41
       DEF FmTypes
<1>6. CASE TuneRestarts
  <2>10. FmOp.pc = "tune" /\ FmOp'.pc = "none" /\ FmOp'.group = FmOp.group /\ FmSch' = FmSch
    BY <1>0, <1>6
       DEF TuneRestarts, CallTo, Range, StartsSupervisor, FmOp, FmSch, FmCalls, FmCallTypes,
           FmCallType, FmTypes
  <2>13. fmCaller' \in FmCallTypes
    BY <1>0, <1>6, <2>10
       DEF TuneRestarts, CallTo, Range, StartsSupervisor, FmOp, FmSch, FmCalls, FmCallTypes,
           FmCallType, FmTypes, FmNumbers, FmOpPcs, FmSchPcs, FmStopPcs
  <2>09. fmGen + 1 \in FmRuns
    BY <1>0, <1>6, <2>10, <2>13 DEF TuneRestarts, CallTo, Range, StartsSupervisor
  <2>11. fmActive /\ fmPlaying /\ fmDongle => \A h \in FmRuns : fmSup'[h] = IF h = fmGen + 1 THEN "start" ELSE fmSup[h]
    BY <1>0, <1>6, <2>10, <2>13, <2>09
       DEF TuneRestarts, CallTo, Range, StartsSupervisor, FmSups, FmTypes
  <2>19. fmGen + 1 \in FmRuns /\ fmSup[fmGen + 1] = "none" /\ fmMon[fmGen + 1] = "none" /\ fmGen + 1 # fmGroup /\ fmGen + 1 \notin fmOpen
    BY <1>0, <1>6, <2>10, <2>13, <2>09, <2>11, <1>01
       DEF TuneRestarts, CallTo, Range, StartsSupervisor
  <2>26. UNCHANGED <<fmActive, fmDongle, fmSlot, fmPlaying, fmGroup, fmOpen, fmMon, fmRetry>>
    BY <1>0, <1>6, <2>10, <2>13, <2>09, <2>11, <2>19
       DEF TuneRestarts, CallTo, Range, StartsSupervisor, FmSups, FmMons
  <2>27. (fmActive /\ fmPlaying /\ fmDongle /\ fmGen' = fmGen + 1 /\ \A h \in FmRuns : fmSup[h] # "handler")
        \/ (~(fmActive /\ fmPlaying /\ fmDongle) /\ fmGen' = fmGen /\ fmSup' = fmSup)
    BY <1>0, <1>6, <2>10, <2>13, <2>09, <2>11, <2>19
       DEF TuneRestarts, CallTo, Range, StartsSupervisor, FmSch, FmOp, FmTypes, FmSups, FmMons,
           FmFlags
  <2>28a. fmGroup = 0 /\ FmOp.group = 0 /\ (fmPlaying => FmSch.group = 0)
    BY <1>0, <2>10, <2>13, <2>09, <2>11, <2>19, <2>26, <2>27
       DEF FmTypes, FmCalls, FmTurns, FmSchPcs, FmLetPcs
  <2>28b. fmActive /\ fmPlaying /\ fmDongle => \A h \in FmRuns : fmMon[h] \notin FmFailing
    BY <1>0, <2>10, <2>13, <2>09, <2>11, <2>19, <2>26, <2>27, <2>28a
       DEF FmHeld, FmHeldAt, FmStopping, FmFailing
  <2>30. FmFlags'
    BY <1>0, <1>6, <2>10, <2>13, <2>09, <2>11, <2>19
       DEF TuneRestarts, CallTo, Range, StartsSupervisor, FmFlags, FmTypes
  <2>31. FmNumbers'
    BY <1>0, <1>6, <2>10, <2>13, <2>09, <2>11, <2>19
       DEF TuneRestarts, CallTo, Range, StartsSupervisor, FmNumbers, FmTypes, FmRetryType
  <2>32. FmSups'
    BY <1>0, <1>6, <2>10, <2>13, <2>09, <2>11, <2>19
       DEF TuneRestarts, CallTo, Range, StartsSupervisor, FmSups, FmTypes, FmSupPcs
  <2>33. FmMons'
    BY <1>0, <1>6, <2>10, <2>13, <2>09, <2>11, <2>19
       DEF TuneRestarts, CallTo, Range, StartsSupervisor, FmMons, FmTypes, FmMonPcs, FmFailing
  <2>34. FmCalls'
    BY <1>0, <1>6, <2>10, <2>13, <2>09, <2>11, <2>19
       DEF TuneRestarts, CallTo, Range, StartsSupervisor, FmCalls, FmTypes, FmOpPcs, FmSchPcs,
           FmStopPcs
  <2>35. FmBudget'
    <3>1. FmOpDue' = 0 /\ FmSchDue' = FmSchDue /\ FmStopDue' = FmStopDue /\ fmGen' \in {fmGen, fmGen + 1} /\ fmRetry'.epoch = fmRetry.epoch /\ FmOpDue = 1
      BY <1>0, <1>6, <2>10, <2>13, <2>09, <2>11, <2>19
         DEF TuneRestarts, CallTo, Range, StartsSupervisor, FmTypes, FmFlags, FmNumbers,
             FmRetryType, FmOpDue, FmSchDue, FmStopDue
    <3>2. FmOpDue \in {0, 1} /\ FmSchDue \in {0, 1} /\ FmStopDue \in {0, 1} /\ fmRetry.epoch \in Nat
      BY FmNats DEF FmOpDue, FmSchDue, FmStopDue, FmTypes, FmNumbers, FmRetryType
    <3>3. fmGen' + FmOpDue' + FmSchDue' + FmStopDue' <= FmGens + fmRetry'.epoch + 3
      BY <1>00, <3>1, <3>2 DEF FmBudget
    <3>4. QED
      BY <3>3 DEF FmBudget
  <2>36. FmPlaces'
    <3>1. FmGroupPlaced'
      BY <1>0, <2>10, <2>13, <2>09, <2>11, <2>19, <2>26, <2>27, <2>28a, <2>28b
         DEF FmFlags, FmNumbers, FmTypes, FmPlaces, FmGroupPlaced, FmPlaced, FmHeld, FmHeldAt,
             FmTurns, FmFailing, FmLetPcs
    <3>2. ASSUME NEW h \in FmRuns PROVE FmPlaced(h)'
      <4>1. FmPlaced(h) /\ FmHeldAt(h) /\ h \in Nat /\ h # 0
        BY <1>0 DEF FmPlaces, FmHeld
      <4>3. (h > fmGen' => h > fmGen) /\ (fmGen' = fmGen + 1 /\ h > fmGen' => h # fmGen + 1)
        BY <4>1, <1>00, <2>26, <2>27
      <4>2. QED
        BY <1>00, <2>10, <2>11, <2>19, <2>26, <2>27, <2>28a, <2>28b, <4>1, <4>3
           DEF FmPlaced, FmHeldAt, FmFailing, FmStopping, FmLetPcs, FmTurns, FmTypes, FmNumbers
    <3>3. QED
      BY <3>1, <3>2 DEF FmPlaces
  <2>37. FmTurns'
    BY <1>0, <2>10, <2>13, <2>09, <2>11, <2>19, <2>26, <2>27, <2>28a, <2>28b
       DEF FmFlags, FmNumbers, FmTypes, FmCalls, FmPlaces, FmGroupPlaced, FmPlaced, FmTurns,
           FmFresh, FmFreshCall, FmFreshSup, FmHeld, FmHeldAt, FmStopPcs, FmLetPcs, FmOpPcs,
           FmSchPcs
  <2>38. FmHeld'
    <3>1. ASSUME NEW h \in FmRuns PROVE FmHeldAt(h)'
      <4>1. FmPlaced(h) /\ FmHeldAt(h) /\ h \in Nat /\ h # 0
        BY <1>0 DEF FmPlaces, FmHeld
      <4>3. (h > fmGen' => h > fmGen) /\ (fmGen' = fmGen + 1 /\ h > fmGen' => h # fmGen + 1)
        BY <4>1, <1>00, <2>26, <2>27
      <4>2. QED
        BY <1>00, <2>10, <2>11, <2>19, <2>26, <2>27, <2>28a, <2>28b, <4>1, <4>3
           DEF FmPlaced, FmHeldAt, FmFailing, FmStopping, FmQuiet, FmFresh, FmFreshSup, FmTypes,
               FmNumbers
    <3>2. QED
      BY <3>1 DEF FmHeld
  <2>39. FmFresh'
    <3>1. FmFreshCall'
      BY <1>0, <2>10, <2>13, <2>09, <2>11, <2>19, <2>26, <2>27, <2>28a, <2>28b
         DEF FmFlags, FmNumbers, FmTypes, FmPlaces, FmGroupPlaced, FmPlaced, FmTurns, FmHeld,
             FmHeldAt, FmFresh, FmFreshCall, FmFreshSup, FmSilent, FmSilentNow, FmSilentEver,
             FmSilentYield, FmQuiet, FmLetting, FmStopping, FmFailing, FmStopPcs, FmLetPcs, FmMons,
             FmMonPcs
    <3>2. FmFreshSup'
      BY <1>0, <2>10, <2>13, <2>09, <2>11, <2>19, <2>26, <2>27, <2>28a, <2>28b
         DEF FmFlags, FmNumbers, FmTypes, FmPlaces, FmGroupPlaced, FmPlaced, FmTurns, FmHeld,
             FmHeldAt, FmFresh, FmFreshCall, FmFreshSup, FmSilent, FmSilentNow, FmSilentEver,
             FmSilentYield, FmQuiet, FmLetting, FmStopping, FmFailing, FmStopPcs, FmLetPcs, FmMons,
             FmMonPcs
    <3>3. QED
      BY <3>1, <3>2 DEF FmFresh
  <2>40. FmSilent'
    <3>1. FmSilentNow'
      BY <1>0, <2>10, <2>13, <2>09, <2>11, <2>19, <2>26, <2>27, <2>28a, <2>28b
         DEF FmFlags, FmNumbers, FmTypes, FmPlaces, FmGroupPlaced, FmPlaced, FmTurns, FmHeld,
             FmHeldAt, FmFresh, FmFreshCall, FmFreshSup, FmSilent, FmSilentNow, FmSilentEver,
             FmSilentYield, FmQuiet, FmLetting, FmWatched, FmFailing, FmStopPcs, FmLetPcs, FmMons,
             FmMonPcs
    <3>2. FmSilentEver'
      BY <1>0, <2>10, <2>13, <2>09, <2>11, <2>19, <2>26, <2>27, <2>28a, <2>28b
         DEF FmFlags, FmNumbers, FmTypes, FmPlaces, FmGroupPlaced, FmPlaced, FmTurns, FmHeld,
             FmHeldAt, FmFresh, FmFreshCall, FmFreshSup, FmSilent, FmSilentNow, FmSilentEver,
             FmSilentYield, FmQuiet, FmLetting, FmWatched, FmFailing, FmStopPcs, FmLetPcs, FmMons,
             FmMonPcs
    <3>3. FmSilentYield'
      BY <1>0, <2>10, <2>13, <2>09, <2>11, <2>19, <2>26, <2>27, <2>28a, <2>28b
         DEF FmFlags, FmNumbers, FmTypes, FmPlaces, FmGroupPlaced, FmPlaced, FmTurns, FmHeld,
             FmHeldAt, FmFresh, FmFreshCall, FmFreshSup, FmSilent, FmSilentNow, FmSilentEver,
             FmSilentYield, FmQuiet, FmLetting, FmWatched, FmFailing, FmStopPcs, FmLetPcs, FmMons,
             FmMonPcs
    <3>4. QED
      BY <3>1, <3>2, <3>3 DEF FmSilent
  <2>41. FmGranted'
    BY <1>0, <2>10, <2>13, <2>09, <2>11, <2>19, <2>26, <2>27, <2>28a, <2>28b
       DEF FmFlags, FmNumbers, FmTypes, FmPlaces, FmGroupPlaced, FmPlaced, FmTurns, FmHeld,
           FmHeldAt, FmFresh, FmFreshCall, FmFreshSup, FmSilent, FmSilentNow, FmSilentEver,
           FmSilentYield, FmQuiet, FmLetting, FmWatched, FmGranted, FmFailing, FmStopPcs, FmLetPcs
  <2>60. QED
    BY <2>30, <2>31, <2>32, <2>33, <2>34, <2>35, <2>36, <2>37, <2>38, <2>39, <2>40, <2>41
       DEF FmTypes
<1>7. CASE FmStop
  <2>10. FmOp.pc = "none" /\ FmOp'.pc = "detach stop" /\ FmOp'.group = FmOp.group /\ FmSch' = FmSch
    BY <1>0, <1>7
       DEF FmStop, CallTo, Invalidates, NewEpoch, fmThreads, FmOp, FmSch, FmCalls, FmCallTypes,
           FmCallType, FmTypes
  <2>13. fmCaller' \in FmCallTypes
    BY <1>0, <1>7, <2>10
       DEF FmStop, CallTo, Invalidates, NewEpoch, fmThreads, FmOp, FmSch, FmCalls, FmCallTypes,
           FmCallType, FmTypes, FmNumbers, FmOpPcs, FmSchPcs, FmStopPcs
  <2>09. fmGen + 1 \in FmRuns
    BY <1>0, <1>7, <2>10, <2>13 DEF FmStop, CallTo, Invalidates, NewEpoch, fmThreads
  <2>19. fmGen + 1 \in FmRuns /\ fmSup[fmGen + 1] = "none" /\ fmMon[fmGen + 1] = "none" /\ fmGen + 1 # fmGroup /\ fmGen + 1 \notin fmOpen
    BY <1>0, <1>7, <2>10, <2>13, <2>09, <1>01 DEF FmStop, CallTo, Invalidates, NewEpoch, fmThreads
  <2>20. fmRetry' \in FmRetryType /\ fmRetry'.epoch = fmRetry.epoch + 1
    BY <1>0, <1>7, <2>10, <2>13, <2>09, <2>19, FmRetryKeeps
       DEF FmStop, CallTo, Invalidates, NewEpoch, fmThreads, FmTypes, FmNumbers
  <2>26. UNCHANGED <<fmDongle, fmSlot, fmGroup, fmOpen, fmSup, fmMon>>
    BY <1>0, <1>7, <2>10, <2>13, <2>09, <2>19, <2>20
       DEF FmStop, CallTo, Invalidates, NewEpoch, fmThreads, FmSups, FmMons
  <2>27. fmActive /\ fmActive' = FALSE /\ fmPlaying' = FALSE /\ fmGen' = fmGen + 1
    BY <1>0, <1>7, <2>10, <2>13, <2>09, <2>19, <2>20
       DEF FmStop, CallTo, Invalidates, NewEpoch, fmThreads, FmSch, FmOp, FmTypes, FmSups, FmMons,
           FmFlags
  <2>30. FmFlags'
    BY <1>0, <1>7, <2>10, <2>13, <2>09, <2>19, <2>20
       DEF FmStop, CallTo, Invalidates, NewEpoch, fmThreads, FmFlags, FmTypes
  <2>31. FmNumbers'
    BY <1>0, <1>7, <2>10, <2>13, <2>09, <2>19, <2>20
       DEF FmStop, CallTo, Invalidates, NewEpoch, fmThreads, FmNumbers, FmTypes, FmRetryType
  <2>32. FmSups'
    BY <1>0, <1>7, <2>10, <2>13, <2>09, <2>19, <2>20
       DEF FmStop, CallTo, Invalidates, NewEpoch, fmThreads, FmSups, FmTypes, FmSupPcs
  <2>33. FmMons'
    BY <1>0, <1>7, <2>10, <2>13, <2>09, <2>19, <2>20
       DEF FmStop, CallTo, Invalidates, NewEpoch, fmThreads, FmMons, FmTypes, FmMonPcs, FmFailing
  <2>34. FmCalls'
    BY <1>0, <1>7, <2>10, <2>13, <2>09, <2>19, <2>20
       DEF FmStop, CallTo, Invalidates, NewEpoch, fmThreads, FmCalls, FmTypes, FmOpPcs, FmSchPcs,
           FmStopPcs
  <2>35. FmBudget'
    <3>1. FmOpDue' = FmOpDue /\ FmSchDue' = FmSchDue /\ FmStopDue' = 0 /\ fmGen' = fmGen + 1 /\ fmRetry'.epoch = fmRetry.epoch + 1 /\ FmStopDue = 1
      BY <1>0, <1>7, <2>10, <2>13, <2>09, <2>19, <2>20
         DEF FmStop, CallTo, Invalidates, NewEpoch, fmThreads, FmTypes, FmFlags, FmNumbers,
             FmRetryType, FmOpDue, FmSchDue, FmStopDue
    <3>2. FmOpDue \in {0, 1} /\ FmSchDue \in {0, 1} /\ FmStopDue \in {0, 1} /\ fmRetry.epoch \in Nat
      BY FmNats DEF FmOpDue, FmSchDue, FmStopDue, FmTypes, FmNumbers, FmRetryType
    <3>3. fmGen' + FmOpDue' + FmSchDue' + FmStopDue' <= FmGens + fmRetry'.epoch + 3
      BY <1>00, <3>1, <3>2 DEF FmBudget
    <3>4. QED
      BY <3>3 DEF FmBudget
  <2>36. FmPlaces'
    <3>1. FmGroupPlaced'
      BY <1>0, <2>10, <2>13, <2>09, <2>19, <2>20, <2>26, <2>27
         DEF FmFlags, FmNumbers, FmTypes, FmPlaces, FmGroupPlaced, FmPlaced, FmHeld, FmHeldAt,
             FmTurns, FmFailing, FmLetPcs
    <3>2. ASSUME NEW h \in FmRuns PROVE FmPlaced(h)'
      <4>1. FmPlaced(h) /\ FmHeldAt(h) /\ h \in Nat /\ h # 0
        BY <1>0 DEF FmPlaces, FmHeld
      <4>3. h > fmGen' => h > fmGen
        BY <4>1, <1>00, <2>26, <2>27
      <4>2. QED
        BY <1>00, <2>10, <2>19, <2>20, <2>26, <2>27, <4>1, <4>3
           DEF FmPlaced, FmHeldAt, FmFailing, FmStopping, FmLetPcs, FmTurns, FmTypes, FmNumbers
    <3>3. QED
      BY <3>1, <3>2 DEF FmPlaces
  <2>37. FmTurns'
    BY <1>0, <2>10, <2>13, <2>09, <2>19, <2>20, <2>26, <2>27
       DEF FmFlags, FmNumbers, FmTypes, FmCalls, FmPlaces, FmGroupPlaced, FmPlaced, FmTurns,
           FmFresh, FmFreshCall, FmFreshSup, FmHeld, FmHeldAt, FmStopPcs, FmLetPcs, FmOpPcs,
           FmSchPcs
  <2>38. FmHeld'
    <3>1. ASSUME NEW h \in FmRuns PROVE FmHeldAt(h)'
      <4>1. FmPlaced(h) /\ FmHeldAt(h) /\ h \in Nat /\ h # 0
        BY <1>0 DEF FmPlaces, FmHeld
      <4>3. h > fmGen' => h > fmGen
        BY <4>1, <1>00, <2>26, <2>27
      <4>2. QED
        BY <1>00, <2>10, <2>19, <2>20, <2>26, <2>27, <4>1, <4>3
           DEF FmPlaced, FmHeldAt, FmFailing, FmStopping, FmQuiet, FmFresh, FmFreshSup, FmTypes,
               FmNumbers
    <3>2. QED
      BY <3>1 DEF FmHeld
  <2>39. FmFresh'
    <3>1. FmFreshCall'
      BY <1>0, <2>10, <2>13, <2>09, <2>19, <2>20, <2>26, <2>27
         DEF FmFlags, FmNumbers, FmTypes, FmPlaces, FmGroupPlaced, FmPlaced, FmTurns, FmHeld,
             FmHeldAt, FmFresh, FmFreshCall, FmFreshSup, FmSilent, FmSilentNow, FmSilentEver,
             FmSilentYield, FmQuiet, FmLetting, FmStopping, FmFailing, FmStopPcs, FmLetPcs, FmMons,
             FmMonPcs
    <3>2. FmFreshSup'
      BY <1>0, <2>10, <2>13, <2>09, <2>19, <2>20, <2>26, <2>27
         DEF FmFlags, FmNumbers, FmTypes, FmPlaces, FmGroupPlaced, FmPlaced, FmTurns, FmHeld,
             FmHeldAt, FmFresh, FmFreshCall, FmFreshSup, FmSilent, FmSilentNow, FmSilentEver,
             FmSilentYield, FmQuiet, FmLetting, FmStopping, FmFailing, FmStopPcs, FmLetPcs, FmMons,
             FmMonPcs
    <3>3. QED
      BY <3>1, <3>2 DEF FmFresh
  <2>40. FmSilent'
    <3>1. FmSilentNow'
      BY <1>0, <2>10, <2>13, <2>09, <2>19, <2>20, <2>26, <2>27
         DEF FmFlags, FmNumbers, FmTypes, FmPlaces, FmGroupPlaced, FmPlaced, FmTurns, FmHeld,
             FmHeldAt, FmFresh, FmFreshCall, FmFreshSup, FmSilent, FmSilentNow, FmSilentEver,
             FmSilentYield, FmQuiet, FmLetting, FmWatched, FmFailing, FmStopPcs, FmLetPcs, FmMons,
             FmMonPcs
    <3>2. FmSilentEver'
      BY <1>0, <2>10, <2>13, <2>09, <2>19, <2>20, <2>26, <2>27
         DEF FmFlags, FmNumbers, FmTypes, FmPlaces, FmGroupPlaced, FmPlaced, FmTurns, FmHeld,
             FmHeldAt, FmFresh, FmFreshCall, FmFreshSup, FmSilent, FmSilentNow, FmSilentEver,
             FmSilentYield, FmQuiet, FmLetting, FmWatched, FmFailing, FmStopPcs, FmLetPcs, FmMons,
             FmMonPcs
    <3>3. FmSilentYield'
      BY <1>0, <2>10, <2>13, <2>09, <2>19, <2>20, <2>26, <2>27
         DEF FmFlags, FmNumbers, FmTypes, FmPlaces, FmGroupPlaced, FmPlaced, FmTurns, FmHeld,
             FmHeldAt, FmFresh, FmFreshCall, FmFreshSup, FmSilent, FmSilentNow, FmSilentEver,
             FmSilentYield, FmQuiet, FmLetting, FmWatched, FmFailing, FmStopPcs, FmLetPcs, FmMons,
             FmMonPcs
    <3>4. QED
      BY <3>1, <3>2, <3>3 DEF FmSilent
  <2>41. FmGranted'
    BY <1>0, <2>10, <2>13, <2>09, <2>19, <2>20, <2>26, <2>27
       DEF FmFlags, FmNumbers, FmTypes, FmPlaces, FmGroupPlaced, FmPlaced, FmTurns, FmHeld,
           FmHeldAt, FmFresh, FmFreshCall, FmFreshSup, FmSilent, FmSilentNow, FmSilentEver,
           FmSilentYield, FmQuiet, FmLetting, FmWatched, FmGranted, FmFailing, FmStopPcs, FmLetPcs
  <2>60. QED
    BY <2>30, <2>31, <2>32, <2>33, <2>34, <2>35, <2>36, <2>37, <2>38, <2>39, <2>40, <2>41
       DEF FmTypes
<1>8. CASE Unregisters
  <2>10. FmOp.pc = "stop" /\ FmOp'.pc = "stopped" /\ FmOp'.group = FmOp.group /\ FmSch' = FmSch
    BY <1>0, <1>8
       DEF Unregisters, CallTo, fmPlayer, fmThreads, FmOp, FmSch, FmCalls, FmCallTypes, FmCallType,
           FmTypes
  <2>13. fmCaller' \in FmCallTypes
    BY <1>0, <1>8, <2>10
       DEF Unregisters, CallTo, fmPlayer, fmThreads, FmOp, FmSch, FmCalls, FmCallTypes, FmCallType,
           FmTypes, FmNumbers, FmOpPcs, FmSchPcs, FmStopPcs
  <2>26. UNCHANGED <<fmActive, fmDongle, fmPlaying, fmGen, fmGroup, fmOpen, fmSup, fmMon, fmRetry>>
    BY <1>0, <1>8, <2>10, <2>13 DEF Unregisters, CallTo, fmPlayer, fmThreads, FmSups, FmMons
  <2>27. FmSch.pc = "none" /\ fmSlot' = "gone"
    BY <1>0, <1>8, <2>10, <2>13
       DEF Unregisters, CallTo, fmPlayer, fmThreads, FmSch, FmOp, FmTypes, FmSups, FmMons, FmFlags
  <2>30. FmFlags'
    BY <1>0, <1>8, <2>10, <2>13 DEF Unregisters, CallTo, fmPlayer, fmThreads, FmFlags, FmTypes
  <2>31. FmNumbers'
    BY <1>0, <1>8, <2>10, <2>13
       DEF Unregisters, CallTo, fmPlayer, fmThreads, FmNumbers, FmTypes, FmRetryType
  <2>32. FmSups'
    BY <1>0, <1>8, <2>10, <2>13
       DEF Unregisters, CallTo, fmPlayer, fmThreads, FmSups, FmTypes, FmSupPcs
  <2>33. FmMons'
    BY <1>0, <1>8, <2>10, <2>13
       DEF Unregisters, CallTo, fmPlayer, fmThreads, FmMons, FmTypes, FmMonPcs, FmFailing
  <2>34. FmCalls'
    BY <1>0, <1>8, <2>10, <2>13
       DEF Unregisters, CallTo, fmPlayer, fmThreads, FmCalls, FmTypes, FmOpPcs, FmSchPcs, FmStopPcs
  <2>35. FmBudget'
    <3>1. FmOpDue' = FmOpDue /\ FmSchDue' = FmSchDue /\ FmStopDue' = FmStopDue /\ fmGen' = fmGen /\ fmRetry'.epoch = fmRetry.epoch
      BY <1>0, <1>8, <2>10, <2>13
         DEF Unregisters, CallTo, fmPlayer, fmThreads, FmTypes, FmFlags, FmNumbers, FmRetryType,
             FmOpDue, FmSchDue, FmStopDue
    <3>2. FmOpDue \in {0, 1} /\ FmSchDue \in {0, 1} /\ FmStopDue \in {0, 1} /\ fmRetry.epoch \in Nat
      BY FmNats DEF FmOpDue, FmSchDue, FmStopDue, FmTypes, FmNumbers, FmRetryType
    <3>3. fmGen' + FmOpDue' + FmSchDue' + FmStopDue' <= FmGens + fmRetry'.epoch + 3
      BY <1>00, <3>1, <3>2 DEF FmBudget
    <3>4. QED
      BY <3>3 DEF FmBudget
  <2>36. FmPlaces'
    <3>1. FmGroupPlaced'
      BY <1>0, <2>10, <2>13, <2>26, <2>27
         DEF FmFlags, FmNumbers, FmTypes, FmPlaces, FmGroupPlaced, FmPlaced, FmHeld, FmHeldAt,
             FmTurns, FmFailing, FmLetPcs
    <3>2. ASSUME NEW h \in FmRuns PROVE FmPlaced(h)'
      <4>1. FmPlaced(h) /\ FmHeldAt(h) /\ h \in Nat /\ h # 0
        BY <1>0 DEF FmPlaces, FmHeld
      <4>3. h > fmGen' => h > fmGen
        BY <4>1, <1>00, <2>26, <2>27
      <4>2. QED
        BY <1>00, <2>10, <2>26, <2>27, <4>1, <4>3
           DEF FmPlaced, FmHeldAt, FmFailing, FmStopping, FmLetPcs, FmTurns, FmTypes, FmNumbers
    <3>3. QED
      BY <3>1, <3>2 DEF FmPlaces
  <2>37. FmTurns'
    BY <1>0, <2>10, <2>13, <2>26, <2>27
       DEF FmFlags, FmNumbers, FmTypes, FmCalls, FmPlaces, FmGroupPlaced, FmPlaced, FmTurns,
           FmFresh, FmFreshCall, FmFreshSup, FmHeld, FmHeldAt, FmStopPcs, FmLetPcs, FmOpPcs,
           FmSchPcs
  <2>38. FmHeld'
    <3>1. ASSUME NEW h \in FmRuns PROVE FmHeldAt(h)'
      <4>1. FmPlaced(h) /\ FmHeldAt(h) /\ h \in Nat /\ h # 0
        BY <1>0 DEF FmPlaces, FmHeld
      <4>3. h > fmGen' => h > fmGen
        BY <4>1, <1>00, <2>26, <2>27
      <4>2. QED
        BY <1>00, <2>10, <2>26, <2>27, <4>1, <4>3
           DEF FmPlaced, FmHeldAt, FmFailing, FmStopping, FmQuiet, FmFresh, FmFreshSup, FmTypes,
               FmNumbers
    <3>2. QED
      BY <3>1 DEF FmHeld
  <2>39. FmFresh'
    <3>1. FmFreshCall'
      BY <1>0, <2>10, <2>13, <2>26, <2>27
         DEF FmFlags, FmNumbers, FmTypes, FmPlaces, FmGroupPlaced, FmPlaced, FmTurns, FmHeld,
             FmHeldAt, FmFresh, FmFreshCall, FmFreshSup, FmSilent, FmSilentNow, FmSilentEver,
             FmSilentYield, FmQuiet, FmLetting, FmStopping, FmFailing, FmStopPcs, FmLetPcs, FmMons,
             FmMonPcs
    <3>2. FmFreshSup'
      BY <1>0, <2>10, <2>13, <2>26, <2>27
         DEF FmFlags, FmNumbers, FmTypes, FmPlaces, FmGroupPlaced, FmPlaced, FmTurns, FmHeld,
             FmHeldAt, FmFresh, FmFreshCall, FmFreshSup, FmSilent, FmSilentNow, FmSilentEver,
             FmSilentYield, FmQuiet, FmLetting, FmStopping, FmFailing, FmStopPcs, FmLetPcs, FmMons,
             FmMonPcs
    <3>3. QED
      BY <3>1, <3>2 DEF FmFresh
  <2>40. FmSilent'
    <3>1. FmSilentNow'
      BY <1>0, <2>10, <2>13, <2>26, <2>27
         DEF FmFlags, FmNumbers, FmTypes, FmPlaces, FmGroupPlaced, FmPlaced, FmTurns, FmHeld,
             FmHeldAt, FmFresh, FmFreshCall, FmFreshSup, FmSilent, FmSilentNow, FmSilentEver,
             FmSilentYield, FmQuiet, FmLetting, FmWatched, FmFailing, FmStopPcs, FmLetPcs, FmMons,
             FmMonPcs
    <3>2. FmSilentEver'
      BY <1>0, <2>10, <2>13, <2>26, <2>27
         DEF FmFlags, FmNumbers, FmTypes, FmPlaces, FmGroupPlaced, FmPlaced, FmTurns, FmHeld,
             FmHeldAt, FmFresh, FmFreshCall, FmFreshSup, FmSilent, FmSilentNow, FmSilentEver,
             FmSilentYield, FmQuiet, FmLetting, FmWatched, FmFailing, FmStopPcs, FmLetPcs, FmMons,
             FmMonPcs
    <3>3. FmSilentYield'
      BY <1>0, <2>10, <2>13, <2>26, <2>27
         DEF FmFlags, FmNumbers, FmTypes, FmPlaces, FmGroupPlaced, FmPlaced, FmTurns, FmHeld,
             FmHeldAt, FmFresh, FmFreshCall, FmFreshSup, FmSilent, FmSilentNow, FmSilentEver,
             FmSilentYield, FmQuiet, FmLetting, FmWatched, FmFailing, FmStopPcs, FmLetPcs, FmMons,
             FmMonPcs
    <3>4. QED
      BY <3>1, <3>2, <3>3 DEF FmSilent
  <2>41. FmGranted'
    BY <1>0, <2>10, <2>13, <2>26, <2>27
       DEF FmFlags, FmNumbers, FmTypes, FmPlaces, FmGroupPlaced, FmPlaced, FmTurns, FmHeld,
           FmHeldAt, FmFresh, FmFreshCall, FmFreshSup, FmSilent, FmSilentNow, FmSilentEver,
           FmSilentYield, FmQuiet, FmLetting, FmWatched, FmGranted, FmFailing, FmStopPcs, FmLetPcs
  <2>60. QED
    BY <2>30, <2>31, <2>32, <2>33, <2>34, <2>35, <2>36, <2>37, <2>38, <2>39, <2>40, <2>41
       DEF FmTypes
<1>9. CASE Detaches("operator")
  <2>10. FmOp.pc \in FmLetPcs /\ FmOp.group = 0 /\ FmSch' = FmSch
    BY <1>0, <1>9
       DEF Detaches, Resumes, fmPlayer, fmThreads, FmOp, FmSch, FmCalls, FmCallTypes, FmCallType,
           FmTypes, FmLetPcs
  <2>14. fmGroup # 0 => FmOp'.pc = FmOp.pc /\ FmOp'.group = fmGroup
    BY <1>0, <1>9, <2>10
       DEF Detaches, Resumes, fmPlayer, fmThreads, FmOp, FmSch, FmCalls, FmCallTypes, FmCallType,
           FmTypes
  <2>15. fmGroup = 0 => FmOp'.group = 0 /\ FmOp'.pc = Resumes(FmOp.pc)
    BY <1>0, <1>9, <2>10, <2>14
       DEF Detaches, Resumes, fmPlayer, fmThreads, FmOp, FmSch, FmCalls, FmCallTypes, FmCallType,
           FmTypes
  <2>16. Resumes(FmOp.pc) = IF FmOp.pc = "detach tune" THEN "tune" ELSE IF FmOp.pc = "detach stop" THEN "stop" ELSE "none"
    BY <1>0, <1>9, <2>10, <2>14, <2>15
       DEF Detaches, Resumes, fmPlayer, fmThreads, FmCalls, FmTypes, FmOpPcs, FmStopPcs
  <2>13. fmCaller' \in FmCallTypes
    BY <1>0, <1>9, <2>10, <2>14, <2>15, <2>16
       DEF Detaches, Resumes, fmPlayer, fmThreads, FmOp, FmSch, FmCalls, FmCallTypes, FmCallType,
           FmTypes, FmNumbers, FmOpPcs, FmSchPcs, FmStopPcs
  <2>26. UNCHANGED <<fmActive, fmDongle, fmSlot, fmPlaying, fmGen, fmOpen, fmSup, fmMon, fmRetry>>
    BY <1>0, <1>9, <2>10, <2>14, <2>15, <2>16, <2>13
       DEF Detaches, Resumes, fmPlayer, fmThreads, FmSups, FmMons
  <2>27. fmGroup' = 0
    BY <1>0, <1>9, <2>10, <2>14, <2>15, <2>16, <2>13
       DEF Detaches, Resumes, fmPlayer, fmThreads, FmSch, FmOp, FmTypes, FmSups, FmMons, FmFlags
  <2>28a. FmOp.pc \in {"detach", "detach tune", "detach stop"}
    BY <1>0, <2>10, <2>14, <2>15, <2>16, <2>13, <2>26, <2>27
       DEF FmTypes, FmCalls, FmOpPcs, FmStopPcs, FmLetPcs
  <2>30. FmFlags'
    BY <1>0, <1>9, <2>10, <2>14, <2>15, <2>16, <2>13
       DEF Detaches, Resumes, fmPlayer, fmThreads, FmFlags, FmTypes
  <2>31. FmNumbers'
    BY <1>0, <1>9, <2>10, <2>14, <2>15, <2>16, <2>13
       DEF Detaches, Resumes, fmPlayer, fmThreads, FmNumbers, FmTypes, FmRetryType
  <2>32. FmSups'
    BY <1>0, <1>9, <2>10, <2>14, <2>15, <2>16, <2>13
       DEF Detaches, Resumes, fmPlayer, fmThreads, FmSups, FmTypes, FmSupPcs
  <2>33. FmMons'
    BY <1>0, <1>9, <2>10, <2>14, <2>15, <2>16, <2>13
       DEF Detaches, Resumes, fmPlayer, fmThreads, FmMons, FmTypes, FmMonPcs, FmFailing
  <2>34. FmCalls'
    BY <1>0, <1>9, <2>10, <2>14, <2>15, <2>16, <2>13
       DEF Detaches, Resumes, fmPlayer, fmThreads, FmCalls, FmTypes, FmOpPcs, FmSchPcs, FmStopPcs
  <2>35. FmBudget'
    <3>1. FmOpDue' = FmOpDue /\ FmSchDue' = FmSchDue /\ FmStopDue' = FmStopDue /\ fmGen' = fmGen /\ fmRetry'.epoch = fmRetry.epoch
      BY <1>0, <2>10, <2>14, <2>15, <2>16, <2>13, <2>26, <2>27, <2>28a
         DEF FmOpDue, FmSchDue, FmStopDue, FmLetPcs
    <3>2. FmOpDue \in {0, 1} /\ FmSchDue \in {0, 1} /\ FmStopDue \in {0, 1} /\ fmRetry.epoch \in Nat
      BY FmNats DEF FmOpDue, FmSchDue, FmStopDue, FmTypes, FmNumbers, FmRetryType
    <3>3. fmGen' + FmOpDue' + FmSchDue' + FmStopDue' <= FmGens + fmRetry'.epoch + 3
      BY <1>00, <3>1, <3>2 DEF FmBudget
    <3>4. QED
      BY <3>3 DEF FmBudget
  <2>36. FmPlaces'
    <3>1. FmGroupPlaced'
      BY <1>0, <2>10, <2>14, <2>15, <2>16, <2>13, <2>26, <2>27, <2>28a
         DEF FmFlags, FmNumbers, FmTypes, FmPlaces, FmGroupPlaced, FmPlaced, FmHeld, FmHeldAt,
             FmTurns, FmFailing, FmLetPcs
    <3>2. ASSUME NEW h \in FmRuns PROVE FmPlaced(h)'
      <4>1. FmPlaced(h) /\ FmHeldAt(h) /\ h \in Nat /\ h # 0
        BY <1>0 DEF FmPlaces, FmHeld
      <4>3. h > fmGen' => h > fmGen
        BY <4>1, <1>00, <2>26, <2>27
      <4>2. QED
        BY <1>00, <2>10, <2>14, <2>15, <2>16, <2>26, <2>27, <2>28a, <4>1, <4>3
           DEF FmPlaced, FmHeldAt, FmFailing, FmStopping, FmLetPcs, FmTurns, FmTypes, FmNumbers
    <3>3. QED
      BY <3>1, <3>2 DEF FmPlaces
  <2>37. FmTurns'
    BY <1>0, <2>10, <2>14, <2>15, <2>16, <2>13, <2>26, <2>27, <2>28a
       DEF FmFlags, FmNumbers, FmTypes, FmCalls, FmPlaces, FmGroupPlaced, FmPlaced, FmTurns,
           FmFresh, FmFreshCall, FmFreshSup, FmHeld, FmHeldAt, FmStopPcs, FmLetPcs, FmOpPcs,
           FmSchPcs
  <2>38. FmHeld'
    <3>1. ASSUME NEW h \in FmRuns PROVE FmHeldAt(h)'
      <4>1. FmPlaced(h) /\ FmHeldAt(h) /\ h \in Nat /\ h # 0
        BY <1>0 DEF FmPlaces, FmHeld
      <4>3. h > fmGen' => h > fmGen
        BY <4>1, <1>00, <2>26, <2>27
      <4>2. QED
        BY <1>00, <2>10, <2>14, <2>15, <2>16, <2>26, <2>27, <2>28a, <4>1, <4>3
           DEF FmPlaced, FmHeldAt, FmFailing, FmStopping, FmQuiet, FmFresh, FmFreshSup, FmTypes,
               FmNumbers
    <3>2. QED
      BY <3>1 DEF FmHeld
  <2>39. FmFresh'
    <3>1. FmFreshCall'
      BY <1>0, <2>10, <2>14, <2>15, <2>16, <2>13, <2>26, <2>27, <2>28a
         DEF FmFlags, FmNumbers, FmTypes, FmPlaces, FmGroupPlaced, FmPlaced, FmTurns, FmHeld,
             FmHeldAt, FmFresh, FmFreshCall, FmFreshSup, FmSilent, FmSilentNow, FmSilentEver,
             FmSilentYield, FmQuiet, FmLetting, FmStopping, FmFailing, FmStopPcs, FmLetPcs, FmMons,
             FmMonPcs
    <3>2. FmFreshSup'
      BY <1>0, <2>10, <2>14, <2>15, <2>16, <2>13, <2>26, <2>27, <2>28a
         DEF FmFlags, FmNumbers, FmTypes, FmPlaces, FmGroupPlaced, FmPlaced, FmTurns, FmHeld,
             FmHeldAt, FmFresh, FmFreshCall, FmFreshSup, FmSilent, FmSilentNow, FmSilentEver,
             FmSilentYield, FmQuiet, FmLetting, FmStopping, FmFailing, FmStopPcs, FmLetPcs, FmMons,
             FmMonPcs
    <3>3. QED
      BY <3>1, <3>2 DEF FmFresh
  <2>40. FmSilent'
    <3>1. FmSilentNow'
      BY <1>0, <2>10, <2>14, <2>15, <2>16, <2>13, <2>26, <2>27, <2>28a
         DEF FmFlags, FmNumbers, FmTypes, FmPlaces, FmGroupPlaced, FmPlaced, FmTurns, FmHeld,
             FmHeldAt, FmFresh, FmFreshCall, FmFreshSup, FmSilent, FmSilentNow, FmSilentEver,
             FmSilentYield, FmQuiet, FmLetting, FmWatched, FmFailing, FmStopPcs, FmLetPcs, FmMons,
             FmMonPcs
    <3>2. FmSilentEver'
      BY <1>0, <2>10, <2>14, <2>15, <2>16, <2>13, <2>26, <2>27, <2>28a
         DEF FmFlags, FmNumbers, FmTypes, FmPlaces, FmGroupPlaced, FmPlaced, FmTurns, FmHeld,
             FmHeldAt, FmFresh, FmFreshCall, FmFreshSup, FmSilent, FmSilentNow, FmSilentEver,
             FmSilentYield, FmQuiet, FmLetting, FmWatched, FmFailing, FmStopPcs, FmLetPcs, FmMons,
             FmMonPcs
    <3>3. FmSilentYield'
      BY <1>0, <2>10, <2>14, <2>15, <2>16, <2>13, <2>26, <2>27, <2>28a
         DEF FmFlags, FmNumbers, FmTypes, FmPlaces, FmGroupPlaced, FmPlaced, FmTurns, FmHeld,
             FmHeldAt, FmFresh, FmFreshCall, FmFreshSup, FmSilent, FmSilentNow, FmSilentEver,
             FmSilentYield, FmQuiet, FmLetting, FmWatched, FmFailing, FmStopPcs, FmLetPcs, FmMons,
             FmMonPcs
    <3>4. QED
      BY <3>1, <3>2, <3>3 DEF FmSilent
  <2>41. FmGranted'
    BY <1>0, <2>10, <2>14, <2>15, <2>16, <2>13, <2>26, <2>27, <2>28a
       DEF FmFlags, FmNumbers, FmTypes, FmPlaces, FmGroupPlaced, FmPlaced, FmTurns, FmHeld,
           FmHeldAt, FmFresh, FmFreshCall, FmFreshSup, FmSilent, FmSilentNow, FmSilentEver,
           FmSilentYield, FmQuiet, FmLetting, FmWatched, FmGranted, FmFailing, FmStopPcs, FmLetPcs
  <2>60. QED
    BY <2>30, <2>31, <2>32, <2>33, <2>34, <2>35, <2>36, <2>37, <2>38, <2>39, <2>40, <2>41
       DEF FmTypes
<1>10. CASE Detaches("scheduler")
  <2>10. FmSch.pc \in FmLetPcs /\ FmSch.group = 0 /\ FmOp' = FmOp
    BY <1>0, <1>10
       DEF Detaches, Resumes, fmPlayer, fmThreads, FmOp, FmSch, FmCalls, FmCallTypes, FmCallType,
           FmTypes, FmLetPcs
  <2>14. fmGroup # 0 => FmSch'.pc = FmSch.pc /\ FmSch'.group = fmGroup
    BY <1>0, <1>10, <2>10
       DEF Detaches, Resumes, fmPlayer, fmThreads, FmOp, FmSch, FmCalls, FmCallTypes, FmCallType,
           FmTypes
  <2>15. fmGroup = 0 => FmSch'.group = 0 /\ FmSch'.pc = Resumes(FmSch.pc)
    BY <1>0, <1>10, <2>10, <2>14
       DEF Detaches, Resumes, fmPlayer, fmThreads, FmOp, FmSch, FmCalls, FmCallTypes, FmCallType,
           FmTypes
  <2>16. FmSch.pc = "detach yield" /\ Resumes(FmSch.pc) = "yielded"
    BY <1>0, <1>10, <2>10, <2>14, <2>15
       DEF Detaches, Resumes, fmPlayer, fmThreads, FmCalls, FmTypes, FmSchPcs, FmLetPcs
  <2>13. fmCaller' \in FmCallTypes
    BY <1>0, <1>10, <2>10, <2>14, <2>15, <2>16
       DEF Detaches, Resumes, fmPlayer, fmThreads, FmOp, FmSch, FmCalls, FmCallTypes, FmCallType,
           FmTypes, FmNumbers, FmOpPcs, FmSchPcs, FmStopPcs
  <2>26. UNCHANGED <<fmActive, fmDongle, fmSlot, fmPlaying, fmGen, fmOpen, fmSup, fmMon, fmRetry>>
    BY <1>0, <1>10, <2>10, <2>14, <2>15, <2>16, <2>13
       DEF Detaches, Resumes, fmPlayer, fmThreads, FmSups, FmMons
  <2>27. fmGroup' = 0
    BY <1>0, <1>10, <2>10, <2>14, <2>15, <2>16, <2>13
       DEF Detaches, Resumes, fmPlayer, fmThreads, FmSch, FmOp, FmTypes, FmSups, FmMons, FmFlags
  <2>30. FmFlags'
    BY <1>0, <1>10, <2>10, <2>14, <2>15, <2>16, <2>13
       DEF Detaches, Resumes, fmPlayer, fmThreads, FmFlags, FmTypes
  <2>31. FmNumbers'
    BY <1>0, <1>10, <2>10, <2>14, <2>15, <2>16, <2>13
       DEF Detaches, Resumes, fmPlayer, fmThreads, FmNumbers, FmTypes, FmRetryType
  <2>32. FmSups'
    BY <1>0, <1>10, <2>10, <2>14, <2>15, <2>16, <2>13
       DEF Detaches, Resumes, fmPlayer, fmThreads, FmSups, FmTypes, FmSupPcs
  <2>33. FmMons'
    BY <1>0, <1>10, <2>10, <2>14, <2>15, <2>16, <2>13
       DEF Detaches, Resumes, fmPlayer, fmThreads, FmMons, FmTypes, FmMonPcs, FmFailing
  <2>34. FmCalls'
    BY <1>0, <1>10, <2>10, <2>14, <2>15, <2>16, <2>13
       DEF Detaches, Resumes, fmPlayer, fmThreads, FmCalls, FmTypes, FmOpPcs, FmSchPcs, FmStopPcs
  <2>35. FmBudget'
    <3>1. FmOpDue' = FmOpDue /\ FmSchDue' = FmSchDue /\ FmStopDue' = FmStopDue /\ fmGen' = fmGen /\ fmRetry'.epoch = fmRetry.epoch
      BY <1>0, <2>10, <2>14, <2>15, <2>16, <2>13, <2>26, <2>27
         DEF FmOpDue, FmSchDue, FmStopDue, FmLetPcs
    <3>2. FmOpDue \in {0, 1} /\ FmSchDue \in {0, 1} /\ FmStopDue \in {0, 1} /\ fmRetry.epoch \in Nat
      BY FmNats DEF FmOpDue, FmSchDue, FmStopDue, FmTypes, FmNumbers, FmRetryType
    <3>3. fmGen' + FmOpDue' + FmSchDue' + FmStopDue' <= FmGens + fmRetry'.epoch + 3
      BY <1>00, <3>1, <3>2 DEF FmBudget
    <3>4. QED
      BY <3>3 DEF FmBudget
  <2>36. FmPlaces'
    <3>1. FmGroupPlaced'
      BY <1>0, <2>10, <2>14, <2>15, <2>16, <2>13, <2>26, <2>27
         DEF FmFlags, FmNumbers, FmTypes, FmPlaces, FmGroupPlaced, FmPlaced, FmHeld, FmHeldAt,
             FmTurns, FmFailing, FmLetPcs
    <3>2. ASSUME NEW h \in FmRuns PROVE FmPlaced(h)'
      <4>1. FmPlaced(h) /\ FmHeldAt(h) /\ h \in Nat /\ h # 0
        BY <1>0 DEF FmPlaces, FmHeld
      <4>3. h > fmGen' => h > fmGen
        BY <4>1, <1>00, <2>26, <2>27
      <4>2. QED
        BY <1>00, <2>10, <2>14, <2>15, <2>16, <2>26, <2>27, <4>1, <4>3
           DEF FmPlaced, FmHeldAt, FmFailing, FmStopping, FmLetPcs, FmTurns, FmTypes, FmNumbers
    <3>3. QED
      BY <3>1, <3>2 DEF FmPlaces
  <2>37. FmTurns'
    BY <1>0, <2>10, <2>14, <2>15, <2>16, <2>13, <2>26, <2>27
       DEF FmFlags, FmNumbers, FmTypes, FmCalls, FmPlaces, FmGroupPlaced, FmPlaced, FmTurns,
           FmFresh, FmFreshCall, FmFreshSup, FmHeld, FmHeldAt, FmStopPcs, FmLetPcs, FmOpPcs,
           FmSchPcs
  <2>38. FmHeld'
    <3>1. ASSUME NEW h \in FmRuns PROVE FmHeldAt(h)'
      <4>1. FmPlaced(h) /\ FmHeldAt(h) /\ h \in Nat /\ h # 0
        BY <1>0 DEF FmPlaces, FmHeld
      <4>3. h > fmGen' => h > fmGen
        BY <4>1, <1>00, <2>26, <2>27
      <4>2. QED
        BY <1>00, <2>10, <2>14, <2>15, <2>16, <2>26, <2>27, <4>1, <4>3
           DEF FmPlaced, FmHeldAt, FmFailing, FmStopping, FmQuiet, FmFresh, FmFreshSup, FmTypes,
               FmNumbers
    <3>2. QED
      BY <3>1 DEF FmHeld
  <2>39. FmFresh'
    <3>1. FmFreshCall'
      BY <1>0, <2>10, <2>14, <2>15, <2>16, <2>13, <2>26, <2>27
         DEF FmFlags, FmNumbers, FmTypes, FmPlaces, FmGroupPlaced, FmPlaced, FmTurns, FmHeld,
             FmHeldAt, FmFresh, FmFreshCall, FmFreshSup, FmSilent, FmSilentNow, FmSilentEver,
             FmSilentYield, FmQuiet, FmLetting, FmStopping, FmFailing, FmStopPcs, FmLetPcs, FmMons,
             FmMonPcs
    <3>2. FmFreshSup'
      BY <1>0, <2>10, <2>14, <2>15, <2>16, <2>13, <2>26, <2>27
         DEF FmFlags, FmNumbers, FmTypes, FmPlaces, FmGroupPlaced, FmPlaced, FmTurns, FmHeld,
             FmHeldAt, FmFresh, FmFreshCall, FmFreshSup, FmSilent, FmSilentNow, FmSilentEver,
             FmSilentYield, FmQuiet, FmLetting, FmStopping, FmFailing, FmStopPcs, FmLetPcs, FmMons,
             FmMonPcs
    <3>3. QED
      BY <3>1, <3>2 DEF FmFresh
  <2>40. FmSilent'
    <3>1. FmSilentNow'
      BY <1>0, <2>10, <2>14, <2>15, <2>16, <2>13, <2>26, <2>27
         DEF FmFlags, FmNumbers, FmTypes, FmPlaces, FmGroupPlaced, FmPlaced, FmTurns, FmHeld,
             FmHeldAt, FmFresh, FmFreshCall, FmFreshSup, FmSilent, FmSilentNow, FmSilentEver,
             FmSilentYield, FmQuiet, FmLetting, FmWatched, FmFailing, FmStopPcs, FmLetPcs, FmMons,
             FmMonPcs
    <3>2. FmSilentEver'
      BY <1>0, <2>10, <2>14, <2>15, <2>16, <2>13, <2>26, <2>27
         DEF FmFlags, FmNumbers, FmTypes, FmPlaces, FmGroupPlaced, FmPlaced, FmTurns, FmHeld,
             FmHeldAt, FmFresh, FmFreshCall, FmFreshSup, FmSilent, FmSilentNow, FmSilentEver,
             FmSilentYield, FmQuiet, FmLetting, FmWatched, FmFailing, FmStopPcs, FmLetPcs, FmMons,
             FmMonPcs
    <3>3. FmSilentYield'
      BY <1>0, <2>10, <2>14, <2>15, <2>16, <2>13, <2>26, <2>27
         DEF FmFlags, FmNumbers, FmTypes, FmPlaces, FmGroupPlaced, FmPlaced, FmTurns, FmHeld,
             FmHeldAt, FmFresh, FmFreshCall, FmFreshSup, FmSilent, FmSilentNow, FmSilentEver,
             FmSilentYield, FmQuiet, FmLetting, FmWatched, FmFailing, FmStopPcs, FmLetPcs, FmMons,
             FmMonPcs
    <3>4. QED
      BY <3>1, <3>2, <3>3 DEF FmSilent
  <2>41. FmGranted'
    BY <1>0, <2>10, <2>14, <2>15, <2>16, <2>13, <2>26, <2>27
       DEF FmFlags, FmNumbers, FmTypes, FmPlaces, FmGroupPlaced, FmPlaced, FmTurns, FmHeld,
           FmHeldAt, FmFresh, FmFreshCall, FmFreshSup, FmSilent, FmSilentNow, FmSilentEver,
           FmSilentYield, FmQuiet, FmLetting, FmWatched, FmGranted, FmFailing, FmStopPcs, FmLetPcs
  <2>60. QED
    BY <2>30, <2>31, <2>32, <2>33, <2>34, <2>35, <2>36, <2>37, <2>38, <2>39, <2>40, <2>41
       DEF FmTypes
<1>11. CASE StopsGroup("operator")
  <2>10. FmOp.group # 0 /\ FmOp.group \in FmRuns /\ FmOp'.group = 0 /\ FmOp'.pc = Resumes(FmOp.pc) /\ FmSch' = FmSch
    BY <1>0, <1>11
       DEF StopsGroup, Resumes, fmPlayer, FmOp, FmSch, FmCalls, FmCallTypes, FmCallType, FmTypes
  <2>16. Resumes(FmOp.pc) = IF FmOp.pc = "detach tune" THEN "tune" ELSE IF FmOp.pc = "detach stop" THEN "stop" ELSE "none"
    BY <1>0, <1>11, <2>10
       DEF StopsGroup, Resumes, fmPlayer, FmCalls, FmTypes, FmOpPcs, FmStopPcs, FmTurns, FmLetPcs
  <2>12. fmOpen' = fmOpen \ {FmOp.group} /\ fmSup[FmOp.group] # "hook" /\ \A h \in FmRuns : fmMon'[h] = IF h = FmOp.group THEN "none" ELSE fmMon[h]
    BY <1>0, <1>11, <2>10, <2>16 DEF StopsGroup, Resumes, fmPlayer, FmMons, FmTypes, FmOp
  <2>17. fmMon[FmOp.group] \notin FmFailing
    BY <1>0, <1>11, <2>10, <2>16, <2>12 DEF StopsGroup, Resumes, fmPlayer, FmOp, FmFailing
  <2>13. fmCaller' \in FmCallTypes
    BY <1>0, <1>11, <2>10, <2>16, <2>12, <2>17
       DEF StopsGroup, Resumes, fmPlayer, FmOp, FmSch, FmCalls, FmCallTypes, FmCallType, FmTypes,
           FmNumbers, FmOpPcs, FmSchPcs, FmStopPcs
  <2>26. UNCHANGED <<fmActive, fmDongle, fmSlot, fmPlaying, fmGen, fmGroup, fmSup, fmRetry>>
    BY <1>0, <1>11, <2>10, <2>16, <2>12, <2>17, <2>13
       DEF StopsGroup, Resumes, fmPlayer, FmSups, FmMons
  <2>28a. FmOp.pc \in {"detach", "detach tune", "detach stop"}
    BY <1>0, <2>10, <2>16, <2>12, <2>17, <2>13, <2>26
       DEF FmTypes, FmCalls, FmOpPcs, FmStopPcs, FmLetPcs, FmTurns
  <2>30. FmFlags'
    BY <1>0, <1>11, <2>10, <2>16, <2>12, <2>17, <2>13
       DEF StopsGroup, Resumes, fmPlayer, FmFlags, FmTypes
  <2>31. FmNumbers'
    BY <1>0, <1>11, <2>10, <2>16, <2>12, <2>17, <2>13
       DEF StopsGroup, Resumes, fmPlayer, FmNumbers, FmTypes, FmRetryType
  <2>32. FmSups'
    BY <1>0, <1>11, <2>10, <2>16, <2>12, <2>17, <2>13
       DEF StopsGroup, Resumes, fmPlayer, FmSups, FmTypes, FmSupPcs
  <2>33. FmMons'
    BY <1>0, <1>11, <2>10, <2>16, <2>12, <2>17, <2>13
       DEF StopsGroup, Resumes, fmPlayer, FmMons, FmTypes, FmMonPcs, FmFailing
  <2>34. FmCalls'
    BY <1>0, <1>11, <2>10, <2>16, <2>12, <2>17, <2>13
       DEF StopsGroup, Resumes, fmPlayer, FmCalls, FmTypes, FmOpPcs, FmSchPcs, FmStopPcs
  <2>35. FmBudget'
    <3>1. FmOpDue' = FmOpDue /\ FmSchDue' = FmSchDue /\ FmStopDue' = FmStopDue /\ fmGen' = fmGen /\ fmRetry'.epoch = fmRetry.epoch
      BY <1>0, <2>10, <2>16, <2>12, <2>17, <2>13, <2>26, <2>28a
         DEF FmOpDue, FmSchDue, FmStopDue, FmLetPcs
    <3>2. FmOpDue \in {0, 1} /\ FmSchDue \in {0, 1} /\ FmStopDue \in {0, 1} /\ fmRetry.epoch \in Nat
      BY FmNats DEF FmOpDue, FmSchDue, FmStopDue, FmTypes, FmNumbers, FmRetryType
    <3>3. fmGen' + FmOpDue' + FmSchDue' + FmStopDue' <= FmGens + fmRetry'.epoch + 3
      BY <1>00, <3>1, <3>2 DEF FmBudget
    <3>4. QED
      BY <3>3 DEF FmBudget
  <2>36. FmPlaces'
    <3>1. FmGroupPlaced'
      BY <1>0, <2>10, <2>16, <2>12, <2>17, <2>13, <2>26, <2>28a
         DEF FmFlags, FmNumbers, FmTypes, FmPlaces, FmGroupPlaced, FmPlaced, FmHeld, FmHeldAt,
             FmTurns, FmFailing, FmLetPcs
    <3>2. ASSUME NEW h \in FmRuns PROVE FmPlaced(h)'
      <4>1. FmPlaced(h) /\ FmHeldAt(h) /\ h \in Nat /\ h # 0
        BY <1>0 DEF FmPlaces, FmHeld
      <4>3. h > fmGen' => h > fmGen
        BY <4>1, <1>00, <2>26
      <4>2. QED
        BY <1>00, <2>10, <2>16, <2>12, <2>17, <2>26, <2>28a, <4>1, <4>3
           DEF FmPlaced, FmHeldAt, FmFailing, FmStopping, FmLetPcs, FmTurns, FmTypes, FmNumbers
    <3>3. QED
      BY <3>1, <3>2 DEF FmPlaces
  <2>37. FmTurns'
    BY <1>0, <2>10, <2>16, <2>12, <2>17, <2>13, <2>26, <2>28a
       DEF FmFlags, FmNumbers, FmTypes, FmCalls, FmPlaces, FmGroupPlaced, FmPlaced, FmTurns,
           FmFresh, FmFreshCall, FmFreshSup, FmHeld, FmHeldAt, FmStopPcs, FmLetPcs, FmOpPcs,
           FmSchPcs
  <2>38. FmHeld'
    <3>1. ASSUME NEW h \in FmRuns PROVE FmHeldAt(h)'
      <4>1. FmPlaced(h) /\ FmHeldAt(h) /\ h \in Nat /\ h # 0
        BY <1>0 DEF FmPlaces, FmHeld
      <4>3. h > fmGen' => h > fmGen
        BY <4>1, <1>00, <2>26
      <4>2. QED
        BY <1>00, <2>10, <2>16, <2>12, <2>17, <2>26, <2>28a, <4>1, <4>3
           DEF FmPlaced, FmHeldAt, FmFailing, FmStopping, FmQuiet, FmFresh, FmFreshSup, FmTypes,
               FmNumbers
    <3>2. QED
      BY <3>1 DEF FmHeld
  <2>39. FmFresh'
    <3>1. FmFreshCall'
      BY <1>0, <2>10, <2>16, <2>12, <2>17, <2>13, <2>26, <2>28a
         DEF FmFlags, FmNumbers, FmTypes, FmPlaces, FmGroupPlaced, FmPlaced, FmTurns, FmHeld,
             FmHeldAt, FmFresh, FmFreshCall, FmFreshSup, FmSilent, FmSilentNow, FmSilentEver,
             FmSilentYield, FmQuiet, FmLetting, FmStopping, FmFailing, FmStopPcs, FmLetPcs, FmMons,
             FmMonPcs
    <3>2. FmFreshSup'
      BY <1>0, <2>10, <2>16, <2>12, <2>17, <2>13, <2>26, <2>28a
         DEF FmFlags, FmNumbers, FmTypes, FmPlaces, FmGroupPlaced, FmPlaced, FmTurns, FmHeld,
             FmHeldAt, FmFresh, FmFreshCall, FmFreshSup, FmSilent, FmSilentNow, FmSilentEver,
             FmSilentYield, FmQuiet, FmLetting, FmStopping, FmFailing, FmStopPcs, FmLetPcs, FmMons,
             FmMonPcs
    <3>3. QED
      BY <3>1, <3>2 DEF FmFresh
  <2>40. FmSilent'
    <3>1. FmSilentNow'
      BY <1>0, <2>10, <2>16, <2>12, <2>17, <2>13, <2>26, <2>28a
         DEF FmFlags, FmNumbers, FmTypes, FmPlaces, FmGroupPlaced, FmPlaced, FmTurns, FmHeld,
             FmHeldAt, FmFresh, FmFreshCall, FmFreshSup, FmSilent, FmSilentNow, FmSilentEver,
             FmSilentYield, FmQuiet, FmLetting, FmWatched, FmFailing, FmStopPcs, FmLetPcs, FmMons,
             FmMonPcs
    <3>2. FmSilentEver'
      BY <1>0, <2>10, <2>16, <2>12, <2>17, <2>13, <2>26, <2>28a
         DEF FmFlags, FmNumbers, FmTypes, FmPlaces, FmGroupPlaced, FmPlaced, FmTurns, FmHeld,
             FmHeldAt, FmFresh, FmFreshCall, FmFreshSup, FmSilent, FmSilentNow, FmSilentEver,
             FmSilentYield, FmQuiet, FmLetting, FmWatched, FmFailing, FmStopPcs, FmLetPcs, FmMons,
             FmMonPcs
    <3>3. FmSilentYield'
      BY <1>0, <2>10, <2>16, <2>12, <2>17, <2>13, <2>26, <2>28a
         DEF FmFlags, FmNumbers, FmTypes, FmPlaces, FmGroupPlaced, FmPlaced, FmTurns, FmHeld,
             FmHeldAt, FmFresh, FmFreshCall, FmFreshSup, FmSilent, FmSilentNow, FmSilentEver,
             FmSilentYield, FmQuiet, FmLetting, FmWatched, FmFailing, FmStopPcs, FmLetPcs, FmMons,
             FmMonPcs
    <3>4. QED
      BY <3>1, <3>2, <3>3 DEF FmSilent
  <2>41. FmGranted'
    BY <1>0, <2>10, <2>16, <2>12, <2>17, <2>13, <2>26, <2>28a
       DEF FmFlags, FmNumbers, FmTypes, FmPlaces, FmGroupPlaced, FmPlaced, FmTurns, FmHeld,
           FmHeldAt, FmFresh, FmFreshCall, FmFreshSup, FmSilent, FmSilentNow, FmSilentEver,
           FmSilentYield, FmQuiet, FmLetting, FmWatched, FmGranted, FmFailing, FmStopPcs, FmLetPcs
  <2>60. QED
    BY <2>30, <2>31, <2>32, <2>33, <2>34, <2>35, <2>36, <2>37, <2>38, <2>39, <2>40, <2>41
       DEF FmTypes
<1>12. CASE StopsGroup("scheduler")
  <2>10. FmSch.group # 0 /\ FmSch.group \in FmRuns /\ FmSch'.group = 0 /\ FmSch'.pc = Resumes(FmSch.pc) /\ FmOp' = FmOp
    BY <1>0, <1>12
       DEF StopsGroup, Resumes, fmPlayer, FmOp, FmSch, FmCalls, FmCallTypes, FmCallType, FmTypes
  <2>16. FmSch.pc = "detach yield" /\ Resumes(FmSch.pc) = "yielded"
    BY <1>0, <1>12, <2>10
       DEF StopsGroup, Resumes, fmPlayer, FmCalls, FmTypes, FmSchPcs, FmLetPcs, FmTurns
  <2>12. fmOpen' = fmOpen \ {FmSch.group} /\ fmSup[FmSch.group] # "hook" /\ \A h \in FmRuns : fmMon'[h] = IF h = FmSch.group THEN "none" ELSE fmMon[h]
    BY <1>0, <1>12, <2>10, <2>16 DEF StopsGroup, Resumes, fmPlayer, FmMons, FmTypes, FmSch
  <2>17. fmMon[FmSch.group] \notin FmFailing
    BY <1>0, <1>12, <2>10, <2>16, <2>12 DEF StopsGroup, Resumes, fmPlayer, FmSch, FmFailing
  <2>13. fmCaller' \in FmCallTypes
    BY <1>0, <1>12, <2>10, <2>16, <2>12, <2>17
       DEF StopsGroup, Resumes, fmPlayer, FmOp, FmSch, FmCalls, FmCallTypes, FmCallType, FmTypes,
           FmNumbers, FmOpPcs, FmSchPcs, FmStopPcs
  <2>26. UNCHANGED <<fmActive, fmDongle, fmSlot, fmPlaying, fmGen, fmGroup, fmSup, fmRetry>>
    BY <1>0, <1>12, <2>10, <2>16, <2>12, <2>17, <2>13
       DEF StopsGroup, Resumes, fmPlayer, FmSups, FmMons
  <2>30. FmFlags'
    BY <1>0, <1>12, <2>10, <2>16, <2>12, <2>17, <2>13
       DEF StopsGroup, Resumes, fmPlayer, FmFlags, FmTypes
  <2>31. FmNumbers'
    BY <1>0, <1>12, <2>10, <2>16, <2>12, <2>17, <2>13
       DEF StopsGroup, Resumes, fmPlayer, FmNumbers, FmTypes, FmRetryType
  <2>32. FmSups'
    BY <1>0, <1>12, <2>10, <2>16, <2>12, <2>17, <2>13
       DEF StopsGroup, Resumes, fmPlayer, FmSups, FmTypes, FmSupPcs
  <2>33. FmMons'
    BY <1>0, <1>12, <2>10, <2>16, <2>12, <2>17, <2>13
       DEF StopsGroup, Resumes, fmPlayer, FmMons, FmTypes, FmMonPcs, FmFailing
  <2>34. FmCalls'
    BY <1>0, <1>12, <2>10, <2>16, <2>12, <2>17, <2>13
       DEF StopsGroup, Resumes, fmPlayer, FmCalls, FmTypes, FmOpPcs, FmSchPcs, FmStopPcs
  <2>35. FmBudget'
    <3>1. FmOpDue' = FmOpDue /\ FmSchDue' = FmSchDue /\ FmStopDue' = FmStopDue /\ fmGen' = fmGen /\ fmRetry'.epoch = fmRetry.epoch
      BY <1>0, <2>10, <2>16, <2>12, <2>17, <2>13, <2>26 DEF FmOpDue, FmSchDue, FmStopDue, FmLetPcs
    <3>2. FmOpDue \in {0, 1} /\ FmSchDue \in {0, 1} /\ FmStopDue \in {0, 1} /\ fmRetry.epoch \in Nat
      BY FmNats DEF FmOpDue, FmSchDue, FmStopDue, FmTypes, FmNumbers, FmRetryType
    <3>3. fmGen' + FmOpDue' + FmSchDue' + FmStopDue' <= FmGens + fmRetry'.epoch + 3
      BY <1>00, <3>1, <3>2 DEF FmBudget
    <3>4. QED
      BY <3>3 DEF FmBudget
  <2>36. FmPlaces'
    <3>1. FmGroupPlaced'
      BY <1>0, <2>10, <2>16, <2>12, <2>17, <2>13, <2>26
         DEF FmFlags, FmNumbers, FmTypes, FmPlaces, FmGroupPlaced, FmPlaced, FmHeld, FmHeldAt,
             FmTurns, FmFailing, FmLetPcs
    <3>2. ASSUME NEW h \in FmRuns PROVE FmPlaced(h)'
      <4>1. FmPlaced(h) /\ FmHeldAt(h) /\ h \in Nat /\ h # 0
        BY <1>0 DEF FmPlaces, FmHeld
      <4>3. h > fmGen' => h > fmGen
        BY <4>1, <1>00, <2>26
      <4>2. QED
        BY <1>00, <2>10, <2>16, <2>12, <2>17, <2>26, <4>1, <4>3
           DEF FmPlaced, FmHeldAt, FmFailing, FmStopping, FmLetPcs, FmTurns, FmTypes, FmNumbers
    <3>3. QED
      BY <3>1, <3>2 DEF FmPlaces
  <2>37. FmTurns'
    BY <1>0, <2>10, <2>16, <2>12, <2>17, <2>13, <2>26
       DEF FmFlags, FmNumbers, FmTypes, FmCalls, FmPlaces, FmGroupPlaced, FmPlaced, FmTurns,
           FmFresh, FmFreshCall, FmFreshSup, FmHeld, FmHeldAt, FmStopPcs, FmLetPcs, FmOpPcs,
           FmSchPcs
  <2>38. FmHeld'
    <3>1. ASSUME NEW h \in FmRuns PROVE FmHeldAt(h)'
      <4>1. FmPlaced(h) /\ FmHeldAt(h) /\ h \in Nat /\ h # 0
        BY <1>0 DEF FmPlaces, FmHeld
      <4>3. h > fmGen' => h > fmGen
        BY <4>1, <1>00, <2>26
      <4>2. QED
        BY <1>00, <2>10, <2>16, <2>12, <2>17, <2>26, <4>1, <4>3
           DEF FmPlaced, FmHeldAt, FmFailing, FmStopping, FmQuiet, FmFresh, FmFreshSup, FmTypes,
               FmNumbers
    <3>2. QED
      BY <3>1 DEF FmHeld
  <2>39. FmFresh'
    <3>1. FmFreshCall'
      BY <1>0, <2>10, <2>16, <2>12, <2>17, <2>13, <2>26
         DEF FmFlags, FmNumbers, FmTypes, FmPlaces, FmGroupPlaced, FmPlaced, FmTurns, FmHeld,
             FmHeldAt, FmFresh, FmFreshCall, FmFreshSup, FmSilent, FmSilentNow, FmSilentEver,
             FmSilentYield, FmQuiet, FmLetting, FmStopping, FmFailing, FmStopPcs, FmLetPcs, FmMons,
             FmMonPcs
    <3>2. FmFreshSup'
      BY <1>0, <2>10, <2>16, <2>12, <2>17, <2>13, <2>26
         DEF FmFlags, FmNumbers, FmTypes, FmPlaces, FmGroupPlaced, FmPlaced, FmTurns, FmHeld,
             FmHeldAt, FmFresh, FmFreshCall, FmFreshSup, FmSilent, FmSilentNow, FmSilentEver,
             FmSilentYield, FmQuiet, FmLetting, FmStopping, FmFailing, FmStopPcs, FmLetPcs, FmMons,
             FmMonPcs
    <3>3. QED
      BY <3>1, <3>2 DEF FmFresh
  <2>40. FmSilent'
    <3>1. FmSilentNow'
      BY <1>0, <2>10, <2>16, <2>12, <2>17, <2>13, <2>26
         DEF FmFlags, FmNumbers, FmTypes, FmPlaces, FmGroupPlaced, FmPlaced, FmTurns, FmHeld,
             FmHeldAt, FmFresh, FmFreshCall, FmFreshSup, FmSilent, FmSilentNow, FmSilentEver,
             FmSilentYield, FmQuiet, FmLetting, FmWatched, FmFailing, FmStopPcs, FmLetPcs, FmMons,
             FmMonPcs
    <3>2. FmSilentEver'
      BY <1>0, <2>10, <2>16, <2>12, <2>17, <2>13, <2>26
         DEF FmFlags, FmNumbers, FmTypes, FmPlaces, FmGroupPlaced, FmPlaced, FmTurns, FmHeld,
             FmHeldAt, FmFresh, FmFreshCall, FmFreshSup, FmSilent, FmSilentNow, FmSilentEver,
             FmSilentYield, FmQuiet, FmLetting, FmWatched, FmFailing, FmStopPcs, FmLetPcs, FmMons,
             FmMonPcs
    <3>3. FmSilentYield'
      BY <1>0, <2>10, <2>16, <2>12, <2>17, <2>13, <2>26
         DEF FmFlags, FmNumbers, FmTypes, FmPlaces, FmGroupPlaced, FmPlaced, FmTurns, FmHeld,
             FmHeldAt, FmFresh, FmFreshCall, FmFreshSup, FmSilent, FmSilentNow, FmSilentEver,
             FmSilentYield, FmQuiet, FmLetting, FmWatched, FmFailing, FmStopPcs, FmLetPcs, FmMons,
             FmMonPcs
    <3>4. QED
      BY <3>1, <3>2, <3>3 DEF FmSilent
  <2>41. FmGranted'
    BY <1>0, <2>10, <2>16, <2>12, <2>17, <2>13, <2>26
       DEF FmFlags, FmNumbers, FmTypes, FmPlaces, FmGroupPlaced, FmPlaced, FmTurns, FmHeld,
           FmHeldAt, FmFresh, FmFreshCall, FmFreshSup, FmSilent, FmSilentNow, FmSilentEver,
           FmSilentYield, FmQuiet, FmLetting, FmWatched, FmGranted, FmFailing, FmStopPcs, FmLetPcs
  <2>60. QED
    BY <2>30, <2>31, <2>32, <2>33, <2>34, <2>35, <2>36, <2>37, <2>38, <2>39, <2>40, <2>41
       DEF FmTypes
<1>13. CASE Acquire
  <2>10. FmSch.pc = "none" /\ FmSch'.pc \in {"none", "play"} /\ FmSch'.group = FmSch.group /\ FmOp' = FmOp
    BY <1>0, <1>13
       DEF Acquire, CallTo, Room, fmPlayer, fmThreads, FmOp, FmSch, FmCalls, FmCallTypes,
           FmCallType, FmTypes
  <2>14. FmSch'.pc = "play" => fmGen < FmGens /\ ~fmPlaying /\ FmOp.pc \notin {"play", "tune", "detach", "detach tune"}
    BY <1>0, <1>13, <2>10
       DEF Acquire, CallTo, Room, fmPlayer, fmThreads, FmOp, FmSch, FmCalls, FmCallTypes,
           FmCallType, FmTypes
  <2>13. fmCaller' \in FmCallTypes
    BY <1>0, <1>13, <2>10, <2>14
       DEF Acquire, CallTo, Room, fmPlayer, fmThreads, FmOp, FmSch, FmCalls, FmCallTypes,
           FmCallType, FmTypes, FmNumbers, FmOpPcs, FmSchPcs, FmStopPcs
  <2>17. fmRetry'.epoch = fmRetry.epoch
    BY <1>0, <1>13, <2>10, <2>14, <2>13
       DEF Acquire, CallTo, Room, fmPlayer, fmThreads, FmTypes, FmNumbers, FmRetryType
  <2>26. UNCHANGED <<fmActive, fmPlaying, fmGen, fmGroup, fmOpen, fmSup, fmMon>>
    BY <1>0, <1>13, <2>10, <2>14, <2>13, <2>17
       DEF Acquire, CallTo, Room, fmPlayer, fmThreads, FmSups, FmMons
  <2>27. fmSlot = "idle" /\ fmSlot' = "held" /\ fmDongle' = TRUE
    BY <1>0, <1>13, <2>10, <2>14, <2>13, <2>17
       DEF Acquire, CallTo, Room, fmPlayer, fmThreads, FmSch, FmOp, FmTypes, FmSups, FmMons, FmFlags
  <2>27c. FmSchDue = 0 /\ FmSchDue' \in {0, 1} /\ FmOpDue' = FmOpDue /\ FmStopDue' = FmStopDue
    BY <2>10, <2>26 DEF FmSchDue, FmOpDue, FmStopDue
  <2>27d. FmSchDue' = 0 \/ FmSch'.pc = "play"
    BY <2>10 DEF FmSchDue
  <2>28. FmSch'.pc = "play" /\ fmActive => FmOp.pc = "none"
    BY <1>0, <2>10, <2>14, <2>13, <2>17, <2>26, <2>27
       DEF FmTypes, FmCalls, FmTurns, FmOpPcs, FmStopPcs
  <2>28a. FmSch'.pc = "play" /\ fmActive => ~FmLetting(FmSch) /\ ~FmLetting(FmOp) /\ FmSch.group = 0 /\ FmOp.group = 0
    BY <1>0, <2>10, <2>14, <2>13, <2>17, <2>26, <2>27, <2>28 DEF FmTurns, FmLetPcs, FmLetting
  <2>28b. FmSch'.pc = "play" /\ fmActive => FmQuiet
    BY <1>0, <2>10, <2>14, <2>13, <2>17, <2>26, <2>27, <2>28, <2>28a DEF FmSilent, FmSilentNow
  <2>28c. FmSch'.pc = "play" /\ fmActive => \A h \in FmRuns : fmMon[h] \in FmFailing => fmSup[h] = "handler"
    BY <1>0, <2>10, <2>14, <2>13, <2>17, <2>26, <2>27, <2>28, <2>28a, <2>28b
       DEF FmHeld, FmHeldAt, FmStopping, FmQuiet, FmFailing
  <2>30. FmFlags'
    BY <1>0, <1>13, <2>10, <2>14, <2>13, <2>17
       DEF Acquire, CallTo, Room, fmPlayer, fmThreads, FmFlags, FmTypes
  <2>31. FmNumbers'
    BY <1>0, <1>13, <2>10, <2>14, <2>13, <2>17
       DEF Acquire, CallTo, Room, fmPlayer, fmThreads, FmNumbers, FmTypes, FmRetryType
  <2>32. FmSups'
    BY <1>0, <1>13, <2>10, <2>14, <2>13, <2>17
       DEF Acquire, CallTo, Room, fmPlayer, fmThreads, FmSups, FmTypes, FmSupPcs
  <2>33. FmMons'
    BY <1>0, <1>13, <2>10, <2>14, <2>13, <2>17
       DEF Acquire, CallTo, Room, fmPlayer, fmThreads, FmMons, FmTypes, FmMonPcs, FmFailing
  <2>34. FmCalls'
    BY <1>0, <1>13, <2>10, <2>14, <2>13, <2>17
       DEF Acquire, CallTo, Room, fmPlayer, fmThreads, FmCalls, FmTypes, FmOpPcs, FmSchPcs,
           FmStopPcs
  <2>35. FmBudget'
    <3>1. FmOpDue' = FmOpDue /\ FmSchDue' \in {0, 1} /\ FmStopDue' = FmStopDue /\ fmGen' = fmGen /\ fmRetry'.epoch = fmRetry.epoch /\ (FmSchDue' = 0 \/ fmGen < FmGens) /\ FmSchDue = 0
      BY <2>14, <2>17, <2>26, <2>27c, <2>27d DEF FmOpDue, FmSchDue, FmStopDue, FmLetPcs
    <3>2. FmOpDue \in {0, 1} /\ FmSchDue \in {0, 1} /\ FmStopDue \in {0, 1} /\ fmRetry.epoch \in Nat
      BY FmNats DEF FmOpDue, FmSchDue, FmStopDue, FmTypes, FmNumbers, FmRetryType
    <3>3. fmGen' + FmOpDue' + FmSchDue' + FmStopDue' <= FmGens + fmRetry'.epoch + 3
      BY <1>00, <3>1, <3>2 DEF FmBudget
    <3>4. QED
      BY <3>3 DEF FmBudget
  <2>36. FmPlaces'
    <3>1. FmGroupPlaced'
      BY <1>0, <2>10, <2>14, <2>13, <2>17, <2>26, <2>27, <2>28, <2>28a, <2>28b, <2>28c
         DEF FmFlags, FmNumbers, FmTypes, FmPlaces, FmGroupPlaced, FmPlaced, FmHeld, FmHeldAt,
             FmTurns, FmFailing, FmLetPcs
    <3>2. ASSUME NEW h \in FmRuns PROVE FmPlaced(h)'
      <4>1. FmPlaced(h) /\ FmHeldAt(h) /\ h \in Nat /\ h # 0
        BY <1>0 DEF FmPlaces, FmHeld
      <4>3. h > fmGen' => h > fmGen
        BY <4>1, <1>00, <2>26, <2>27
      <4>2. QED
        BY <1>00, <2>10, <2>14, <2>17, <2>26, <2>27, <2>28, <2>28a, <2>28b, <2>28c, <4>1, <4>3
           DEF FmPlaced, FmHeldAt, FmFailing, FmStopping, FmLetPcs, FmTurns, FmTypes, FmNumbers
    <3>3. QED
      BY <3>1, <3>2 DEF FmPlaces
  <2>37. FmTurns'
    BY <1>0, <2>10, <2>14, <2>13, <2>17, <2>26, <2>27, <2>28, <2>28a, <2>28b, <2>28c
       DEF FmFlags, FmNumbers, FmTypes, FmCalls, FmPlaces, FmGroupPlaced, FmPlaced, FmTurns,
           FmFresh, FmFreshCall, FmFreshSup, FmHeld, FmHeldAt, FmStopPcs, FmLetPcs, FmOpPcs,
           FmSchPcs
  <2>38. FmHeld'
    <3>1. ASSUME NEW h \in FmRuns PROVE FmHeldAt(h)'
      <4>1. FmPlaced(h) /\ FmHeldAt(h) /\ h \in Nat /\ h # 0
        BY <1>0 DEF FmPlaces, FmHeld
      <4>3. h > fmGen' => h > fmGen
        BY <4>1, <1>00, <2>26, <2>27
      <4>2. QED
        BY <1>00, <2>10, <2>14, <2>17, <2>26, <2>27, <2>28, <2>28a, <2>28b, <2>28c, <4>1, <4>3
           DEF FmPlaced, FmHeldAt, FmFailing, FmStopping, FmQuiet, FmFresh, FmFreshSup, FmTypes,
               FmNumbers
    <3>2. QED
      BY <3>1 DEF FmHeld
  <2>39. FmFresh'
    <3>1. FmFreshCall'
      BY <1>0, <2>10, <2>14, <2>13, <2>17, <2>26, <2>27, <2>28, <2>28a, <2>28b, <2>28c
         DEF FmFlags, FmNumbers, FmTypes, FmPlaces, FmGroupPlaced, FmPlaced, FmTurns, FmHeld,
             FmHeldAt, FmFresh, FmFreshCall, FmFreshSup, FmSilent, FmSilentNow, FmSilentEver,
             FmSilentYield, FmQuiet, FmLetting, FmStopping, FmFailing, FmStopPcs, FmLetPcs, FmMons,
             FmMonPcs
    <3>2. FmFreshSup'
      BY <1>0, <2>10, <2>14, <2>13, <2>17, <2>26, <2>27, <2>28, <2>28a, <2>28b, <2>28c
         DEF FmFlags, FmNumbers, FmTypes, FmPlaces, FmGroupPlaced, FmPlaced, FmTurns, FmHeld,
             FmHeldAt, FmFresh, FmFreshCall, FmFreshSup, FmSilent, FmSilentNow, FmSilentEver,
             FmSilentYield, FmQuiet, FmLetting, FmStopping, FmFailing, FmStopPcs, FmLetPcs, FmMons,
             FmMonPcs
    <3>3. QED
      BY <3>1, <3>2 DEF FmFresh
  <2>40. FmSilent'
    <3>1. FmSilentNow'
      BY <1>0, <2>10, <2>14, <2>13, <2>17, <2>26, <2>27, <2>28, <2>28a, <2>28b, <2>28c
         DEF FmFlags, FmNumbers, FmTypes, FmPlaces, FmGroupPlaced, FmPlaced, FmTurns, FmHeld,
             FmHeldAt, FmFresh, FmFreshCall, FmFreshSup, FmSilent, FmSilentNow, FmSilentEver,
             FmSilentYield, FmQuiet, FmLetting, FmWatched, FmFailing, FmStopPcs, FmLetPcs, FmMons,
             FmMonPcs
    <3>2. FmSilentEver'
      BY <1>0, <2>10, <2>14, <2>13, <2>17, <2>26, <2>27, <2>28, <2>28a, <2>28b, <2>28c
         DEF FmFlags, FmNumbers, FmTypes, FmPlaces, FmGroupPlaced, FmPlaced, FmTurns, FmHeld,
             FmHeldAt, FmFresh, FmFreshCall, FmFreshSup, FmSilent, FmSilentNow, FmSilentEver,
             FmSilentYield, FmQuiet, FmLetting, FmWatched, FmFailing, FmStopPcs, FmLetPcs, FmMons,
             FmMonPcs
    <3>3. FmSilentYield'
      BY <1>0, <2>10, <2>14, <2>13, <2>17, <2>26, <2>27, <2>28, <2>28a, <2>28b, <2>28c
         DEF FmFlags, FmNumbers, FmTypes, FmPlaces, FmGroupPlaced, FmPlaced, FmTurns, FmHeld,
             FmHeldAt, FmFresh, FmFreshCall, FmFreshSup, FmSilent, FmSilentNow, FmSilentEver,
             FmSilentYield, FmQuiet, FmLetting, FmWatched, FmFailing, FmStopPcs, FmLetPcs, FmMons,
             FmMonPcs
    <3>4. QED
      BY <3>1, <3>2, <3>3 DEF FmSilent
  <2>41. FmGranted'
    BY <1>0, <2>10, <2>14, <2>13, <2>17, <2>26, <2>27, <2>28, <2>28a, <2>28b, <2>28c
       DEF FmFlags, FmNumbers, FmTypes, FmPlaces, FmGroupPlaced, FmPlaced, FmTurns, FmHeld,
           FmHeldAt, FmFresh, FmFreshCall, FmFreshSup, FmSilent, FmSilentNow, FmSilentEver,
           FmSilentYield, FmQuiet, FmLetting, FmWatched, FmGranted, FmFailing, FmStopPcs, FmLetPcs
  <2>60. QED
    BY <2>30, <2>31, <2>32, <2>33, <2>34, <2>35, <2>36, <2>37, <2>38, <2>39, <2>40, <2>41
       DEF FmTypes
<1>14. CASE Yield
  <2>10. FmSch.pc = "none" /\ FmSch'.pc = "yield" /\ FmSch'.group = FmSch.group /\ FmOp' = FmOp
    BY <1>0, <1>14
       DEF Yield, CallTo, Room, fmPlayer, fmThreads, FmOp, FmSch, FmCalls, FmCallTypes, FmCallType,
           FmTypes
  <2>13. fmCaller' \in FmCallTypes
    BY <1>0, <1>14, <2>10
       DEF Yield, CallTo, Room, fmPlayer, fmThreads, FmOp, FmSch, FmCalls, FmCallTypes, FmCallType,
           FmTypes, FmNumbers, FmOpPcs, FmSchPcs, FmStopPcs
  <2>26. UNCHANGED <<fmActive, fmPlaying, fmGen, fmGroup, fmOpen, fmSup, fmMon, fmRetry>>
    BY <1>0, <1>14, <2>10, <2>13 DEF Yield, CallTo, Room, fmPlayer, fmThreads, FmSups, FmMons
  <2>27. fmSlot = "held" /\ fmSlot' = "yielding" /\ fmDongle' = FALSE /\ fmGen < FmGens
    BY <1>0, <1>14, <2>10, <2>13
       DEF Yield, CallTo, Room, fmPlayer, fmThreads, FmSch, FmOp, FmTypes, FmSups, FmMons, FmFlags
  <2>30. FmFlags'
    BY <1>0, <1>14, <2>10, <2>13 DEF Yield, CallTo, Room, fmPlayer, fmThreads, FmFlags, FmTypes
  <2>31. FmNumbers'
    BY <1>0, <1>14, <2>10, <2>13
       DEF Yield, CallTo, Room, fmPlayer, fmThreads, FmNumbers, FmTypes, FmRetryType
  <2>32. FmSups'
    BY <1>0, <1>14, <2>10, <2>13
       DEF Yield, CallTo, Room, fmPlayer, fmThreads, FmSups, FmTypes, FmSupPcs
  <2>33. FmMons'
    BY <1>0, <1>14, <2>10, <2>13
       DEF Yield, CallTo, Room, fmPlayer, fmThreads, FmMons, FmTypes, FmMonPcs, FmFailing
  <2>34. FmCalls'
    BY <1>0, <1>14, <2>10, <2>13
       DEF Yield, CallTo, Room, fmPlayer, fmThreads, FmCalls, FmTypes, FmOpPcs, FmSchPcs, FmStopPcs
  <2>35. FmBudget'
    <3>1. FmOpDue' = FmOpDue /\ FmSchDue' = 1 /\ FmStopDue' = FmStopDue /\ fmGen' = fmGen /\ fmRetry'.epoch = fmRetry.epoch /\ fmGen < FmGens
      BY <1>0, <1>14, <2>10, <2>13
         DEF Yield, CallTo, Room, fmPlayer, fmThreads, FmTypes, FmFlags, FmNumbers, FmRetryType,
             FmOpDue, FmSchDue, FmStopDue
    <3>2. FmOpDue \in {0, 1} /\ FmSchDue \in {0, 1} /\ FmStopDue \in {0, 1} /\ fmRetry.epoch \in Nat
      BY FmNats DEF FmOpDue, FmSchDue, FmStopDue, FmTypes, FmNumbers, FmRetryType
    <3>3. fmGen' + FmOpDue' + FmSchDue' + FmStopDue' <= FmGens + fmRetry'.epoch + 3
      BY <1>00, <3>1, <3>2 DEF FmBudget
    <3>4. QED
      BY <3>3 DEF FmBudget
  <2>36. FmPlaces'
    <3>1. FmGroupPlaced'
      BY <1>0, <2>10, <2>13, <2>26, <2>27
         DEF FmFlags, FmNumbers, FmTypes, FmPlaces, FmGroupPlaced, FmPlaced, FmHeld, FmHeldAt,
             FmTurns, FmFailing, FmLetPcs
    <3>2. ASSUME NEW h \in FmRuns PROVE FmPlaced(h)'
      <4>1. FmPlaced(h) /\ FmHeldAt(h) /\ h \in Nat /\ h # 0
        BY <1>0 DEF FmPlaces, FmHeld
      <4>3. h > fmGen' => h > fmGen
        BY <4>1, <1>00, <2>26, <2>27
      <4>2. QED
        BY <1>00, <2>10, <2>26, <2>27, <4>1, <4>3
           DEF FmPlaced, FmHeldAt, FmFailing, FmStopping, FmLetPcs, FmTurns, FmTypes, FmNumbers
    <3>3. QED
      BY <3>1, <3>2 DEF FmPlaces
  <2>37. FmTurns'
    BY <1>0, <2>10, <2>13, <2>26, <2>27
       DEF FmFlags, FmNumbers, FmTypes, FmCalls, FmPlaces, FmGroupPlaced, FmPlaced, FmTurns,
           FmFresh, FmFreshCall, FmFreshSup, FmHeld, FmHeldAt, FmStopPcs, FmLetPcs, FmOpPcs,
           FmSchPcs
  <2>38. FmHeld'
    <3>1. ASSUME NEW h \in FmRuns PROVE FmHeldAt(h)'
      <4>1. FmPlaced(h) /\ FmHeldAt(h) /\ h \in Nat /\ h # 0
        BY <1>0 DEF FmPlaces, FmHeld
      <4>3. h > fmGen' => h > fmGen
        BY <4>1, <1>00, <2>26, <2>27
      <4>2. QED
        BY <1>00, <2>10, <2>26, <2>27, <4>1, <4>3
           DEF FmPlaced, FmHeldAt, FmFailing, FmStopping, FmQuiet, FmFresh, FmFreshSup, FmTypes,
               FmNumbers
    <3>2. QED
      BY <3>1 DEF FmHeld
  <2>39. FmFresh'
    <3>1. FmFreshCall'
      BY <1>0, <2>10, <2>13, <2>26, <2>27
         DEF FmFlags, FmNumbers, FmTypes, FmPlaces, FmGroupPlaced, FmPlaced, FmTurns, FmHeld,
             FmHeldAt, FmFresh, FmFreshCall, FmFreshSup, FmSilent, FmSilentNow, FmSilentEver,
             FmSilentYield, FmQuiet, FmLetting, FmStopping, FmFailing, FmStopPcs, FmLetPcs, FmMons,
             FmMonPcs
    <3>2. FmFreshSup'
      BY <1>0, <2>10, <2>13, <2>26, <2>27
         DEF FmFlags, FmNumbers, FmTypes, FmPlaces, FmGroupPlaced, FmPlaced, FmTurns, FmHeld,
             FmHeldAt, FmFresh, FmFreshCall, FmFreshSup, FmSilent, FmSilentNow, FmSilentEver,
             FmSilentYield, FmQuiet, FmLetting, FmStopping, FmFailing, FmStopPcs, FmLetPcs, FmMons,
             FmMonPcs
    <3>3. QED
      BY <3>1, <3>2 DEF FmFresh
  <2>40. FmSilent'
    <3>1. FmSilentNow'
      BY <1>0, <2>10, <2>13, <2>26, <2>27
         DEF FmFlags, FmNumbers, FmTypes, FmPlaces, FmGroupPlaced, FmPlaced, FmTurns, FmHeld,
             FmHeldAt, FmFresh, FmFreshCall, FmFreshSup, FmSilent, FmSilentNow, FmSilentEver,
             FmSilentYield, FmQuiet, FmLetting, FmWatched, FmFailing, FmStopPcs, FmLetPcs, FmMons,
             FmMonPcs
    <3>2. FmSilentEver'
      BY <1>0, <2>10, <2>13, <2>26, <2>27
         DEF FmFlags, FmNumbers, FmTypes, FmPlaces, FmGroupPlaced, FmPlaced, FmTurns, FmHeld,
             FmHeldAt, FmFresh, FmFreshCall, FmFreshSup, FmSilent, FmSilentNow, FmSilentEver,
             FmSilentYield, FmQuiet, FmLetting, FmWatched, FmFailing, FmStopPcs, FmLetPcs, FmMons,
             FmMonPcs
    <3>3. FmSilentYield'
      BY <1>0, <2>10, <2>13, <2>26, <2>27
         DEF FmFlags, FmNumbers, FmTypes, FmPlaces, FmGroupPlaced, FmPlaced, FmTurns, FmHeld,
             FmHeldAt, FmFresh, FmFreshCall, FmFreshSup, FmSilent, FmSilentNow, FmSilentEver,
             FmSilentYield, FmQuiet, FmLetting, FmWatched, FmFailing, FmStopPcs, FmLetPcs, FmMons,
             FmMonPcs
    <3>4. QED
      BY <3>1, <3>2, <3>3 DEF FmSilent
  <2>41. FmGranted'
    BY <1>0, <2>10, <2>13, <2>26, <2>27
       DEF FmFlags, FmNumbers, FmTypes, FmPlaces, FmGroupPlaced, FmPlaced, FmTurns, FmHeld,
           FmHeldAt, FmFresh, FmFreshCall, FmFreshSup, FmSilent, FmSilentNow, FmSilentEver,
           FmSilentYield, FmQuiet, FmLetting, FmWatched, FmGranted, FmFailing, FmStopPcs, FmLetPcs
  <2>60. QED
    BY <2>30, <2>31, <2>32, <2>33, <2>34, <2>35, <2>36, <2>37, <2>38, <2>39, <2>40, <2>41
       DEF FmTypes
<1>15. CASE YieldStops
  <2>10. FmSch.pc = "yield" /\ FmSch'.pc = (IF fmPlaying THEN "detach yield" ELSE "yielded") /\ FmSch'.group = FmSch.group /\ FmOp' = FmOp
    BY <1>0, <1>15
       DEF YieldStops, CallTo, Invalidates, fmPlayer, fmThreads, FmOp, FmSch, FmCalls, FmCallTypes,
           FmCallType, FmTypes
  <2>09. fmGen + 1 \in FmRuns
    BY <1>0, <1>15, <2>10 DEF YieldStops, CallTo, Invalidates, fmPlayer, fmThreads
  <2>13. fmCaller' \in FmCallTypes
    BY <1>0, <1>15, <2>10, <2>09
       DEF YieldStops, CallTo, Invalidates, fmPlayer, fmThreads, FmOp, FmSch, FmCalls, FmCallTypes,
           FmCallType, FmTypes, FmNumbers, FmOpPcs, FmSchPcs, FmStopPcs
  <2>19. fmGen + 1 \in FmRuns /\ fmSup[fmGen + 1] = "none" /\ fmMon[fmGen + 1] = "none" /\ fmGen + 1 # fmGroup /\ fmGen + 1 \notin fmOpen
    BY <1>0, <1>15, <2>10, <2>09, <2>13, <1>01
       DEF YieldStops, CallTo, Invalidates, fmPlayer, fmThreads
  <2>26. UNCHANGED <<fmActive, fmDongle, fmSlot, fmGroup, fmOpen, fmSup, fmMon, fmRetry>>
    BY <1>0, <1>15, <2>10, <2>09, <2>13, <2>19
       DEF YieldStops, CallTo, Invalidates, fmPlayer, fmThreads, FmSups, FmMons
  <2>27. fmPlaying' = FALSE /\ fmGen' = (IF fmPlaying THEN fmGen + 1 ELSE fmGen)
    BY <1>0, <1>15, <2>10, <2>09, <2>13, <2>19
       DEF YieldStops, CallTo, Invalidates, fmPlayer, fmThreads, FmSch, FmOp, FmTypes, FmSups,
           FmMons, FmFlags
  <2>30. FmFlags'
    BY <1>0, <1>15, <2>10, <2>09, <2>13, <2>19
       DEF YieldStops, CallTo, Invalidates, fmPlayer, fmThreads, FmFlags, FmTypes
  <2>31. FmNumbers'
    BY <1>0, <1>15, <2>10, <2>09, <2>13, <2>19
       DEF YieldStops, CallTo, Invalidates, fmPlayer, fmThreads, FmNumbers, FmTypes, FmRetryType
  <2>32. FmSups'
    BY <1>0, <1>15, <2>10, <2>09, <2>13, <2>19
       DEF YieldStops, CallTo, Invalidates, fmPlayer, fmThreads, FmSups, FmTypes, FmSupPcs
  <2>33. FmMons'
    BY <1>0, <1>15, <2>10, <2>09, <2>13, <2>19
       DEF YieldStops, CallTo, Invalidates, fmPlayer, fmThreads, FmMons, FmTypes, FmMonPcs,
           FmFailing
  <2>34. FmCalls'
    BY <1>0, <1>15, <2>10, <2>09, <2>13, <2>19
       DEF YieldStops, CallTo, Invalidates, fmPlayer, fmThreads, FmCalls, FmTypes, FmOpPcs,
           FmSchPcs, FmStopPcs
  <2>35. FmBudget'
    <3>1. FmOpDue' = FmOpDue /\ FmSchDue' = 0 /\ FmStopDue' = FmStopDue /\ fmGen' \in {fmGen, fmGen + 1} /\ fmRetry'.epoch = fmRetry.epoch /\ FmSchDue = 1
      BY <1>0, <1>15, <2>10, <2>09, <2>13, <2>19
         DEF YieldStops, CallTo, Invalidates, fmPlayer, fmThreads, FmTypes, FmFlags, FmNumbers,
             FmRetryType, FmOpDue, FmSchDue, FmStopDue
    <3>2. FmOpDue \in {0, 1} /\ FmSchDue \in {0, 1} /\ FmStopDue \in {0, 1} /\ fmRetry.epoch \in Nat
      BY FmNats DEF FmOpDue, FmSchDue, FmStopDue, FmTypes, FmNumbers, FmRetryType
    <3>3. fmGen' + FmOpDue' + FmSchDue' + FmStopDue' <= FmGens + fmRetry'.epoch + 3
      BY <1>00, <3>1, <3>2 DEF FmBudget
    <3>4. QED
      BY <3>3 DEF FmBudget
  <2>36. FmPlaces'
    <3>1. FmGroupPlaced'
      BY <1>0, <2>10, <2>09, <2>13, <2>19, <2>26, <2>27
         DEF FmFlags, FmNumbers, FmTypes, FmPlaces, FmGroupPlaced, FmPlaced, FmHeld, FmHeldAt,
             FmTurns, FmFailing, FmLetPcs
    <3>2. ASSUME NEW h \in FmRuns PROVE FmPlaced(h)'
      <4>1. FmPlaced(h) /\ FmHeldAt(h) /\ h \in Nat /\ h # 0
        BY <1>0 DEF FmPlaces, FmHeld
      <4>3. h > fmGen' => h > fmGen
        BY <4>1, <1>00, <2>26, <2>27
      <4>2. QED
        BY <1>00, <2>10, <2>19, <2>26, <2>27, <4>1, <4>3
           DEF FmPlaced, FmHeldAt, FmFailing, FmStopping, FmLetPcs, FmTurns, FmTypes, FmNumbers
    <3>3. QED
      BY <3>1, <3>2 DEF FmPlaces
  <2>37. FmTurns'
    BY <1>0, <2>10, <2>09, <2>13, <2>19, <2>26, <2>27
       DEF FmFlags, FmNumbers, FmTypes, FmCalls, FmPlaces, FmGroupPlaced, FmPlaced, FmTurns,
           FmFresh, FmFreshCall, FmFreshSup, FmHeld, FmHeldAt, FmStopPcs, FmLetPcs, FmOpPcs,
           FmSchPcs
  <2>38. FmHeld'
    <3>1. ASSUME NEW h \in FmRuns PROVE FmHeldAt(h)'
      <4>1. FmPlaced(h) /\ FmHeldAt(h) /\ h \in Nat /\ h # 0
        BY <1>0 DEF FmPlaces, FmHeld
      <4>3. h > fmGen' => h > fmGen
        BY <4>1, <1>00, <2>26, <2>27
      <4>2. QED
        BY <1>00, <2>10, <2>19, <2>26, <2>27, <4>1, <4>3
           DEF FmPlaced, FmHeldAt, FmFailing, FmStopping, FmQuiet, FmFresh, FmFreshSup, FmTypes,
               FmNumbers
    <3>2. QED
      BY <3>1 DEF FmHeld
  <2>39. FmFresh'
    <3>1. FmFreshCall'
      BY <1>0, <2>10, <2>09, <2>13, <2>19, <2>26, <2>27
         DEF FmFlags, FmNumbers, FmTypes, FmPlaces, FmGroupPlaced, FmPlaced, FmTurns, FmHeld,
             FmHeldAt, FmFresh, FmFreshCall, FmFreshSup, FmSilent, FmSilentNow, FmSilentEver,
             FmSilentYield, FmQuiet, FmLetting, FmStopping, FmFailing, FmStopPcs, FmLetPcs, FmMons,
             FmMonPcs
    <3>2. FmFreshSup'
      BY <1>0, <2>10, <2>09, <2>13, <2>19, <2>26, <2>27
         DEF FmFlags, FmNumbers, FmTypes, FmPlaces, FmGroupPlaced, FmPlaced, FmTurns, FmHeld,
             FmHeldAt, FmFresh, FmFreshCall, FmFreshSup, FmSilent, FmSilentNow, FmSilentEver,
             FmSilentYield, FmQuiet, FmLetting, FmStopping, FmFailing, FmStopPcs, FmLetPcs, FmMons,
             FmMonPcs
    <3>3. QED
      BY <3>1, <3>2 DEF FmFresh
  <2>40. FmSilent'
    <3>1. FmSilentNow'
      BY <1>0, <2>10, <2>09, <2>13, <2>19, <2>26, <2>27
         DEF FmFlags, FmNumbers, FmTypes, FmPlaces, FmGroupPlaced, FmPlaced, FmTurns, FmHeld,
             FmHeldAt, FmFresh, FmFreshCall, FmFreshSup, FmSilent, FmSilentNow, FmSilentEver,
             FmSilentYield, FmQuiet, FmLetting, FmWatched, FmFailing, FmStopPcs, FmLetPcs, FmMons,
             FmMonPcs
    <3>2. FmSilentEver'
      BY <1>0, <2>10, <2>09, <2>13, <2>19, <2>26, <2>27
         DEF FmFlags, FmNumbers, FmTypes, FmPlaces, FmGroupPlaced, FmPlaced, FmTurns, FmHeld,
             FmHeldAt, FmFresh, FmFreshCall, FmFreshSup, FmSilent, FmSilentNow, FmSilentEver,
             FmSilentYield, FmQuiet, FmLetting, FmWatched, FmFailing, FmStopPcs, FmLetPcs, FmMons,
             FmMonPcs
    <3>3. FmSilentYield'
      BY <1>0, <2>10, <2>09, <2>13, <2>19, <2>26, <2>27
         DEF FmFlags, FmNumbers, FmTypes, FmPlaces, FmGroupPlaced, FmPlaced, FmTurns, FmHeld,
             FmHeldAt, FmFresh, FmFreshCall, FmFreshSup, FmSilent, FmSilentNow, FmSilentEver,
             FmSilentYield, FmQuiet, FmLetting, FmWatched, FmFailing, FmStopPcs, FmLetPcs, FmMons,
             FmMonPcs
    <3>4. QED
      BY <3>1, <3>2, <3>3 DEF FmSilent
  <2>41. FmGranted'
    BY <1>0, <2>10, <2>09, <2>13, <2>19, <2>26, <2>27
       DEF FmFlags, FmNumbers, FmTypes, FmPlaces, FmGroupPlaced, FmPlaced, FmTurns, FmHeld,
           FmHeldAt, FmFresh, FmFreshCall, FmFreshSup, FmSilent, FmSilentNow, FmSilentEver,
           FmSilentYield, FmQuiet, FmLetting, FmWatched, FmGranted, FmFailing, FmStopPcs, FmLetPcs
  <2>60. QED
    BY <2>30, <2>31, <2>32, <2>33, <2>34, <2>35, <2>36, <2>37, <2>38, <2>39, <2>40, <2>41
       DEF FmTypes
<1>16. CASE Yielded
  <2>10. FmSch.pc = "yielded" /\ FmSch'.pc = "none" /\ FmSch'.group = FmSch.group /\ FmOp' = FmOp
    BY <1>0, <1>16
       DEF Yielded, CallTo, fmPlayer, fmThreads, FmOp, FmSch, FmCalls, FmCallTypes, FmCallType,
           FmTypes
  <2>13. fmCaller' \in FmCallTypes
    BY <1>0, <1>16, <2>10
       DEF Yielded, CallTo, fmPlayer, fmThreads, FmOp, FmSch, FmCalls, FmCallTypes, FmCallType,
           FmTypes, FmNumbers, FmOpPcs, FmSchPcs, FmStopPcs
  <2>26. UNCHANGED <<fmActive, fmDongle, fmPlaying, fmGen, fmGroup, fmOpen, fmSup, fmMon, fmRetry>>
    BY <1>0, <1>16, <2>10, <2>13 DEF Yielded, CallTo, fmPlayer, fmThreads, FmSups, FmMons
  <2>27. fmSlot' = (IF fmSlot = "yielding" THEN "idle" ELSE fmSlot)
    BY <1>0, <1>16, <2>10, <2>13
       DEF Yielded, CallTo, fmPlayer, fmThreads, FmSch, FmOp, FmTypes, FmSups, FmMons, FmFlags
  <2>30. FmFlags'
    BY <1>0, <1>16, <2>10, <2>13 DEF Yielded, CallTo, fmPlayer, fmThreads, FmFlags, FmTypes
  <2>31. FmNumbers'
    BY <1>0, <1>16, <2>10, <2>13
       DEF Yielded, CallTo, fmPlayer, fmThreads, FmNumbers, FmTypes, FmRetryType
  <2>32. FmSups'
    BY <1>0, <1>16, <2>10, <2>13 DEF Yielded, CallTo, fmPlayer, fmThreads, FmSups, FmTypes, FmSupPcs
  <2>33. FmMons'
    BY <1>0, <1>16, <2>10, <2>13
       DEF Yielded, CallTo, fmPlayer, fmThreads, FmMons, FmTypes, FmMonPcs, FmFailing
  <2>34. FmCalls'
    BY <1>0, <1>16, <2>10, <2>13
       DEF Yielded, CallTo, fmPlayer, fmThreads, FmCalls, FmTypes, FmOpPcs, FmSchPcs, FmStopPcs
  <2>35. FmBudget'
    <3>1. FmOpDue' = FmOpDue /\ FmSchDue' = FmSchDue /\ FmStopDue' = FmStopDue /\ fmGen' = fmGen /\ fmRetry'.epoch = fmRetry.epoch
      BY <1>0, <1>16, <2>10, <2>13
         DEF Yielded, CallTo, fmPlayer, fmThreads, FmTypes, FmFlags, FmNumbers, FmRetryType,
             FmOpDue, FmSchDue, FmStopDue
    <3>2. FmOpDue \in {0, 1} /\ FmSchDue \in {0, 1} /\ FmStopDue \in {0, 1} /\ fmRetry.epoch \in Nat
      BY FmNats DEF FmOpDue, FmSchDue, FmStopDue, FmTypes, FmNumbers, FmRetryType
    <3>3. fmGen' + FmOpDue' + FmSchDue' + FmStopDue' <= FmGens + fmRetry'.epoch + 3
      BY <1>00, <3>1, <3>2 DEF FmBudget
    <3>4. QED
      BY <3>3 DEF FmBudget
  <2>36. FmPlaces'
    <3>1. FmGroupPlaced'
      BY <1>0, <2>10, <2>13, <2>26, <2>27
         DEF FmFlags, FmNumbers, FmTypes, FmPlaces, FmGroupPlaced, FmPlaced, FmHeld, FmHeldAt,
             FmTurns, FmFailing, FmLetPcs
    <3>2. ASSUME NEW h \in FmRuns PROVE FmPlaced(h)'
      <4>1. FmPlaced(h) /\ FmHeldAt(h) /\ h \in Nat /\ h # 0
        BY <1>0 DEF FmPlaces, FmHeld
      <4>3. h > fmGen' => h > fmGen
        BY <4>1, <1>00, <2>26, <2>27
      <4>2. QED
        BY <1>00, <2>10, <2>26, <2>27, <4>1, <4>3
           DEF FmPlaced, FmHeldAt, FmFailing, FmStopping, FmLetPcs, FmTurns, FmTypes, FmNumbers
    <3>3. QED
      BY <3>1, <3>2 DEF FmPlaces
  <2>37. FmTurns'
    BY <1>0, <2>10, <2>13, <2>26, <2>27
       DEF FmFlags, FmNumbers, FmTypes, FmCalls, FmPlaces, FmGroupPlaced, FmPlaced, FmTurns,
           FmFresh, FmFreshCall, FmFreshSup, FmHeld, FmHeldAt, FmStopPcs, FmLetPcs, FmOpPcs,
           FmSchPcs
  <2>38. FmHeld'
    <3>1. ASSUME NEW h \in FmRuns PROVE FmHeldAt(h)'
      <4>1. FmPlaced(h) /\ FmHeldAt(h) /\ h \in Nat /\ h # 0
        BY <1>0 DEF FmPlaces, FmHeld
      <4>3. h > fmGen' => h > fmGen
        BY <4>1, <1>00, <2>26, <2>27
      <4>2. QED
        BY <1>00, <2>10, <2>26, <2>27, <4>1, <4>3
           DEF FmPlaced, FmHeldAt, FmFailing, FmStopping, FmQuiet, FmFresh, FmFreshSup, FmTypes,
               FmNumbers
    <3>2. QED
      BY <3>1 DEF FmHeld
  <2>39. FmFresh'
    <3>1. FmFreshCall'
      BY <1>0, <2>10, <2>13, <2>26, <2>27
         DEF FmFlags, FmNumbers, FmTypes, FmPlaces, FmGroupPlaced, FmPlaced, FmTurns, FmHeld,
             FmHeldAt, FmFresh, FmFreshCall, FmFreshSup, FmSilent, FmSilentNow, FmSilentEver,
             FmSilentYield, FmQuiet, FmLetting, FmStopping, FmFailing, FmStopPcs, FmLetPcs, FmMons,
             FmMonPcs
    <3>2. FmFreshSup'
      BY <1>0, <2>10, <2>13, <2>26, <2>27
         DEF FmFlags, FmNumbers, FmTypes, FmPlaces, FmGroupPlaced, FmPlaced, FmTurns, FmHeld,
             FmHeldAt, FmFresh, FmFreshCall, FmFreshSup, FmSilent, FmSilentNow, FmSilentEver,
             FmSilentYield, FmQuiet, FmLetting, FmStopping, FmFailing, FmStopPcs, FmLetPcs, FmMons,
             FmMonPcs
    <3>3. QED
      BY <3>1, <3>2 DEF FmFresh
  <2>40. FmSilent'
    <3>1. FmSilentNow'
      BY <1>0, <2>10, <2>13, <2>26, <2>27
         DEF FmFlags, FmNumbers, FmTypes, FmPlaces, FmGroupPlaced, FmPlaced, FmTurns, FmHeld,
             FmHeldAt, FmFresh, FmFreshCall, FmFreshSup, FmSilent, FmSilentNow, FmSilentEver,
             FmSilentYield, FmQuiet, FmLetting, FmWatched, FmFailing, FmStopPcs, FmLetPcs, FmMons,
             FmMonPcs
    <3>2. FmSilentEver'
      BY <1>0, <2>10, <2>13, <2>26, <2>27
         DEF FmFlags, FmNumbers, FmTypes, FmPlaces, FmGroupPlaced, FmPlaced, FmTurns, FmHeld,
             FmHeldAt, FmFresh, FmFreshCall, FmFreshSup, FmSilent, FmSilentNow, FmSilentEver,
             FmSilentYield, FmQuiet, FmLetting, FmWatched, FmFailing, FmStopPcs, FmLetPcs, FmMons,
             FmMonPcs
    <3>3. FmSilentYield'
      BY <1>0, <2>10, <2>13, <2>26, <2>27
         DEF FmFlags, FmNumbers, FmTypes, FmPlaces, FmGroupPlaced, FmPlaced, FmTurns, FmHeld,
             FmHeldAt, FmFresh, FmFreshCall, FmFreshSup, FmSilent, FmSilentNow, FmSilentEver,
             FmSilentYield, FmQuiet, FmLetting, FmWatched, FmFailing, FmStopPcs, FmLetPcs, FmMons,
             FmMonPcs
    <3>4. QED
      BY <3>1, <3>2, <3>3 DEF FmSilent
  <2>41. FmGranted'
    BY <1>0, <2>10, <2>13, <2>26, <2>27
       DEF FmFlags, FmNumbers, FmTypes, FmPlaces, FmGroupPlaced, FmPlaced, FmTurns, FmHeld,
           FmHeldAt, FmFresh, FmFreshCall, FmFreshSup, FmSilent, FmSilentNow, FmSilentEver,
           FmSilentYield, FmQuiet, FmLetting, FmWatched, FmGranted, FmFailing, FmStopPcs, FmLetPcs
  <2>60. QED
    BY <2>30, <2>31, <2>32, <2>33, <2>34, <2>35, <2>36, <2>37, <2>38, <2>39, <2>40, <2>41
       DEF FmTypes
<1>17. ASSUME NEW g \in FmRuns, SupStarts(g) PROVE FmInv'
  <2>10. FmOp' = FmOp /\ FmSch' = FmSch
    BY <1>0, <1>17 DEF SupStarts, SupTo, Wants, FmOp, FmSch
  <2>11. \A h \in FmRuns : fmSup'[h] = IF h = g THEN IF Wants(g) THEN "take" ELSE "end" ELSE fmSup[h]
    BY <1>0, <1>17, <2>10 DEF SupStarts, SupTo, Wants, FmSups, FmTypes
  <2>26. UNCHANGED <<fmActive, fmDongle, fmSlot, fmPlaying, fmGen, fmGroup, fmOpen, fmMon, fmRetry>>
    BY <1>0, <1>17, <2>10, <2>11 DEF SupStarts, SupTo, Wants, FmSups, FmMons
  <2>27. fmSup[g] = "start" /\ fmSup'[g] \in {"take", "end"}
    BY <1>0, <1>17, <2>10, <2>11
       DEF SupStarts, SupTo, Wants, FmSch, FmOp, FmTypes, FmSups, FmMons, FmFlags
  <2>30. FmFlags'
    BY <1>0, <1>17, <2>10, <2>11 DEF SupStarts, SupTo, Wants, FmFlags, FmTypes
  <2>31. FmNumbers'
    BY <1>0, <1>17, <2>10, <2>11 DEF SupStarts, SupTo, Wants, FmNumbers, FmTypes, FmRetryType
  <2>32. FmSups'
    BY <1>0, <1>17, <2>10, <2>11 DEF SupStarts, SupTo, Wants, FmSups, FmTypes, FmSupPcs
  <2>33. FmMons'
    BY <1>0, <1>17, <2>10, <2>11 DEF SupStarts, SupTo, Wants, FmMons, FmTypes, FmMonPcs, FmFailing
  <2>34. FmCalls'
    BY <1>0, <1>17, <2>10, <2>11
       DEF SupStarts, SupTo, Wants, FmCalls, FmTypes, FmOpPcs, FmSchPcs, FmStopPcs
  <2>35. FmBudget'
    <3>1. FmOpDue' = FmOpDue /\ FmSchDue' = FmSchDue /\ FmStopDue' = FmStopDue /\ fmGen' = fmGen /\ fmRetry'.epoch = fmRetry.epoch
      BY <1>0, <1>17, <2>10, <2>11
         DEF SupStarts, SupTo, Wants, FmTypes, FmFlags, FmNumbers, FmRetryType, FmOpDue, FmSchDue,
             FmStopDue
    <3>2. FmOpDue \in {0, 1} /\ FmSchDue \in {0, 1} /\ FmStopDue \in {0, 1} /\ fmRetry.epoch \in Nat
      BY FmNats DEF FmOpDue, FmSchDue, FmStopDue, FmTypes, FmNumbers, FmRetryType
    <3>3. fmGen' + FmOpDue' + FmSchDue' + FmStopDue' <= FmGens + fmRetry'.epoch + 3
      BY <1>00, <3>1, <3>2 DEF FmBudget
    <3>4. QED
      BY <3>3 DEF FmBudget
  <2>36. FmPlaces'
    <3>1. FmGroupPlaced'
      BY <1>0, <2>10, <2>11, <2>26, <2>27
         DEF FmFlags, FmNumbers, FmTypes, FmPlaces, FmGroupPlaced, FmPlaced, FmHeld, FmHeldAt,
             FmTurns, FmFailing, FmLetPcs
    <3>2. ASSUME NEW h \in FmRuns PROVE FmPlaced(h)'
      <4>1. FmPlaced(h) /\ FmHeldAt(h) /\ h \in Nat /\ h # 0
        BY <1>0 DEF FmPlaces, FmHeld
      <4>3. h > fmGen' => h > fmGen
        BY <4>1, <1>00, <2>26, <2>27
      <4>2. QED
        BY <1>00, <2>10, <2>11, <2>26, <2>27, <4>1, <4>3
           DEF FmPlaced, FmHeldAt, FmFailing, FmStopping, FmLetPcs, FmTurns, FmTypes, FmNumbers
    <3>3. QED
      BY <3>1, <3>2 DEF FmPlaces
  <2>37. FmTurns'
    BY <1>0, <2>10, <2>11, <2>26, <2>27
       DEF FmFlags, FmNumbers, FmTypes, FmCalls, FmPlaces, FmGroupPlaced, FmPlaced, FmTurns,
           FmFresh, FmFreshCall, FmFreshSup, FmHeld, FmHeldAt, FmStopPcs, FmLetPcs, FmOpPcs,
           FmSchPcs
  <2>38. FmHeld'
    <3>1. ASSUME NEW h \in FmRuns PROVE FmHeldAt(h)'
      <4>1. FmPlaced(h) /\ FmHeldAt(h) /\ h \in Nat /\ h # 0
        BY <1>0 DEF FmPlaces, FmHeld
      <4>3. h > fmGen' => h > fmGen
        BY <4>1, <1>00, <2>26, <2>27
      <4>2. QED
        BY <1>00, <2>10, <2>11, <2>26, <2>27, <4>1, <4>3
           DEF FmPlaced, FmHeldAt, FmFailing, FmStopping, FmQuiet, FmFresh, FmFreshSup, FmTypes,
               FmNumbers
    <3>2. QED
      BY <3>1 DEF FmHeld
  <2>39. FmFresh'
    <3>1. FmFreshCall'
      BY <1>0, <2>10, <2>11, <2>26, <2>27
         DEF FmFlags, FmNumbers, FmTypes, FmPlaces, FmGroupPlaced, FmPlaced, FmTurns, FmHeld,
             FmHeldAt, FmFresh, FmFreshCall, FmFreshSup, FmSilent, FmSilentNow, FmSilentEver,
             FmSilentYield, FmQuiet, FmLetting, FmStopping, FmFailing, FmStopPcs, FmLetPcs, FmMons,
             FmMonPcs
    <3>2. FmFreshSup'
      BY <1>0, <2>10, <2>11, <2>26, <2>27
         DEF FmFlags, FmNumbers, FmTypes, FmPlaces, FmGroupPlaced, FmPlaced, FmTurns, FmHeld,
             FmHeldAt, FmFresh, FmFreshCall, FmFreshSup, FmSilent, FmSilentNow, FmSilentEver,
             FmSilentYield, FmQuiet, FmLetting, FmStopping, FmFailing, FmStopPcs, FmLetPcs, FmMons,
             FmMonPcs
    <3>3. QED
      BY <3>1, <3>2 DEF FmFresh
  <2>40. FmSilent'
    <3>1. FmSilentNow'
      BY <1>0, <2>10, <2>11, <2>26, <2>27
         DEF FmFlags, FmNumbers, FmTypes, FmPlaces, FmGroupPlaced, FmPlaced, FmTurns, FmHeld,
             FmHeldAt, FmFresh, FmFreshCall, FmFreshSup, FmSilent, FmSilentNow, FmSilentEver,
             FmSilentYield, FmQuiet, FmLetting, FmWatched, FmFailing, FmStopPcs, FmLetPcs, FmMons,
             FmMonPcs
    <3>2. FmSilentEver'
      BY <1>0, <2>10, <2>11, <2>26, <2>27
         DEF FmFlags, FmNumbers, FmTypes, FmPlaces, FmGroupPlaced, FmPlaced, FmTurns, FmHeld,
             FmHeldAt, FmFresh, FmFreshCall, FmFreshSup, FmSilent, FmSilentNow, FmSilentEver,
             FmSilentYield, FmQuiet, FmLetting, FmWatched, FmFailing, FmStopPcs, FmLetPcs, FmMons,
             FmMonPcs
    <3>3. FmSilentYield'
      BY <1>0, <2>10, <2>11, <2>26, <2>27
         DEF FmFlags, FmNumbers, FmTypes, FmPlaces, FmGroupPlaced, FmPlaced, FmTurns, FmHeld,
             FmHeldAt, FmFresh, FmFreshCall, FmFreshSup, FmSilent, FmSilentNow, FmSilentEver,
             FmSilentYield, FmQuiet, FmLetting, FmWatched, FmFailing, FmStopPcs, FmLetPcs, FmMons,
             FmMonPcs
    <3>4. QED
      BY <3>1, <3>2, <3>3 DEF FmSilent
  <2>41. FmGranted'
    BY <1>0, <2>10, <2>11, <2>26, <2>27
       DEF FmFlags, FmNumbers, FmTypes, FmPlaces, FmGroupPlaced, FmPlaced, FmTurns, FmHeld,
           FmHeldAt, FmFresh, FmFreshCall, FmFreshSup, FmSilent, FmSilentNow, FmSilentEver,
           FmSilentYield, FmQuiet, FmLetting, FmWatched, FmGranted, FmFailing, FmStopPcs, FmLetPcs
  <2>60. QED
    BY <2>30, <2>31, <2>32, <2>33, <2>34, <2>35, <2>36, <2>37, <2>38, <2>39, <2>40, <2>41
       DEF FmTypes
<1>18. ASSUME NEW g \in FmRuns, SupTakes(g) PROVE FmInv'
  <2>10. FmOp' = FmOp /\ FmSch' = FmSch
    BY <1>0, <1>18 DEF SupTakes, SupTo, Wants, fmPlayer, FmOp, FmSch
  <2>11. \A h \in FmRuns : fmSup'[h] = IF h = g THEN IF Wants(g) THEN "launch" ELSE "end" ELSE fmSup[h]
    BY <1>0, <1>18, <2>10 DEF SupTakes, SupTo, Wants, fmPlayer, FmSups, FmTypes
  <2>26. UNCHANGED <<fmActive, fmDongle, fmSlot, fmPlaying, fmGen, fmOpen, fmMon, fmRetry>>
    BY <1>0, <1>18, <2>10, <2>11 DEF SupTakes, SupTo, Wants, fmPlayer, FmSups, FmMons
  <2>27. fmSup[g] = "take" /\ (Wants(g) => fmGroup' = g /\ g = fmGen /\ fmActive /\ fmPlaying /\ fmDongle) /\ (~Wants(g) => fmGroup' = fmGroup)
    BY <1>0, <1>18, <2>10, <2>11
       DEF SupTakes, SupTo, Wants, fmPlayer, FmSch, FmOp, FmTypes, FmSups, FmMons, FmFlags
  <2>28a. FmQuiet => fmGroup # g
    BY <1>0, <2>10, <2>11, <2>26, <2>27 DEF FmQuiet
  <2>28b. Wants(g) => fmSup'[fmGen] = "launch"
    BY <1>0, <2>10, <2>11, <2>26, <2>27, <2>28a DEF FmTypes
  <2>28c. ~Wants(g) /\ FmQuiet => FmQuiet'
    BY <1>0, <2>10, <2>11, <2>26, <2>27, <2>28a, <2>28b DEF FmQuiet, FmTypes, FmNumbers
  <2>28d. ~Wants(g) /\ fmGen # 0 /\ fmSup'[fmGen] \in {"start", "take"} => fmSup[fmGen] \in {"start", "take"}
    BY <1>0, <2>10, <2>11, <2>26, <2>27, <2>28a, <2>28b, <2>28c DEF FmTypes
  <2>30. FmFlags'
    BY <1>0, <1>18, <2>10, <2>11 DEF SupTakes, SupTo, Wants, fmPlayer, FmFlags, FmTypes
  <2>31. FmNumbers'
    BY <1>0, <1>18, <2>10, <2>11
       DEF SupTakes, SupTo, Wants, fmPlayer, FmNumbers, FmTypes, FmRetryType
  <2>32. FmSups'
    BY <1>0, <1>18, <2>10, <2>11 DEF SupTakes, SupTo, Wants, fmPlayer, FmSups, FmTypes, FmSupPcs
  <2>33. FmMons'
    BY <1>0, <1>18, <2>10, <2>11
       DEF SupTakes, SupTo, Wants, fmPlayer, FmMons, FmTypes, FmMonPcs, FmFailing
  <2>34. FmCalls'
    BY <1>0, <1>18, <2>10, <2>11
       DEF SupTakes, SupTo, Wants, fmPlayer, FmCalls, FmTypes, FmOpPcs, FmSchPcs, FmStopPcs
  <2>35. FmBudget'
    <3>1. FmOpDue' = FmOpDue /\ FmSchDue' = FmSchDue /\ FmStopDue' = FmStopDue /\ fmGen' = fmGen /\ fmRetry'.epoch = fmRetry.epoch
      BY <1>0, <1>18, <2>10, <2>11
         DEF SupTakes, SupTo, Wants, fmPlayer, FmTypes, FmFlags, FmNumbers, FmRetryType, FmOpDue,
             FmSchDue, FmStopDue
    <3>2. FmOpDue \in {0, 1} /\ FmSchDue \in {0, 1} /\ FmStopDue \in {0, 1} /\ fmRetry.epoch \in Nat
      BY FmNats DEF FmOpDue, FmSchDue, FmStopDue, FmTypes, FmNumbers, FmRetryType
    <3>3. fmGen' + FmOpDue' + FmSchDue' + FmStopDue' <= FmGens + fmRetry'.epoch + 3
      BY <1>00, <3>1, <3>2 DEF FmBudget
    <3>4. QED
      BY <3>3 DEF FmBudget
  <2>36. FmPlaces'
    <3>1. FmGroupPlaced'
      BY <1>0, <2>10, <2>11, <2>26, <2>27, <2>28a, <2>28b, <2>28c, <2>28d
         DEF FmFlags, FmNumbers, FmTypes, FmPlaces, FmGroupPlaced, FmPlaced, FmHeld, FmHeldAt,
             FmTurns, FmFailing, FmLetPcs
    <3>2. ASSUME NEW h \in FmRuns PROVE FmPlaced(h)'
      <4>1. FmPlaced(h) /\ FmHeldAt(h) /\ h \in Nat /\ h # 0
        BY <1>0 DEF FmPlaces, FmHeld
      <4>3. h > fmGen' => h > fmGen
        BY <4>1, <1>00, <2>26, <2>27
      <4>2. QED
        BY <1>00, <2>10, <2>11, <2>26, <2>27, <2>28a, <2>28b, <2>28c, <2>28d, <4>1, <4>3
           DEF FmPlaced, FmHeldAt, FmFailing, FmStopping, FmLetPcs, FmTurns, FmTypes, FmNumbers
    <3>3. QED
      BY <3>1, <3>2 DEF FmPlaces
  <2>37. FmTurns'
    BY <1>0, <2>10, <2>11, <2>26, <2>27, <2>28a, <2>28b, <2>28c, <2>28d
       DEF FmFlags, FmNumbers, FmTypes, FmCalls, FmPlaces, FmGroupPlaced, FmPlaced, FmTurns,
           FmFresh, FmFreshCall, FmFreshSup, FmHeld, FmHeldAt, FmStopPcs, FmLetPcs, FmOpPcs,
           FmSchPcs
  <2>38. FmHeld'
    <3>1. ASSUME NEW h \in FmRuns PROVE FmHeldAt(h)'
      <4>1. FmPlaced(h) /\ FmHeldAt(h) /\ h \in Nat /\ h # 0
        BY <1>0 DEF FmPlaces, FmHeld
      <4>3. h > fmGen' => h > fmGen
        BY <4>1, <1>00, <2>26, <2>27
      <4>2. QED
        BY <1>00, <2>10, <2>11, <2>26, <2>27, <2>28a, <2>28b, <2>28c, <2>28d, <4>1, <4>3
           DEF FmPlaced, FmHeldAt, FmFailing, FmStopping, FmQuiet, FmFresh, FmFreshSup, FmTypes,
               FmNumbers
    <3>2. QED
      BY <3>1 DEF FmHeld
  <2>39. FmFresh'
    <3>1. FmFreshCall'
      BY <1>0, <2>10, <2>11, <2>26, <2>27, <2>28a, <2>28b, <2>28c, <2>28d
         DEF FmFlags, FmNumbers, FmTypes, FmPlaces, FmGroupPlaced, FmPlaced, FmTurns, FmHeld,
             FmHeldAt, FmFresh, FmFreshCall, FmFreshSup, FmSilent, FmSilentNow, FmSilentEver,
             FmSilentYield, FmQuiet, FmLetting, FmStopping, FmFailing, FmStopPcs, FmLetPcs, FmMons,
             FmMonPcs
    <3>2. FmFreshSup'
      BY <1>0, <2>10, <2>11, <2>26, <2>27, <2>28a, <2>28b, <2>28c, <2>28d
         DEF FmFlags, FmNumbers, FmTypes, FmPlaces, FmGroupPlaced, FmPlaced, FmTurns, FmHeld,
             FmHeldAt, FmFresh, FmFreshCall, FmFreshSup, FmSilent, FmSilentNow, FmSilentEver,
             FmSilentYield, FmQuiet, FmLetting, FmStopping, FmFailing, FmStopPcs, FmLetPcs, FmMons,
             FmMonPcs
    <3>3. QED
      BY <3>1, <3>2 DEF FmFresh
  <2>40. FmSilent'
    <3>1. FmSilentNow'
      BY <1>0, <2>10, <2>11, <2>26, <2>27, <2>28a, <2>28b, <2>28c, <2>28d
         DEF FmFlags, FmNumbers, FmTypes, FmPlaces, FmGroupPlaced, FmPlaced, FmTurns, FmHeld,
             FmHeldAt, FmFresh, FmFreshCall, FmFreshSup, FmSilent, FmSilentNow, FmSilentEver,
             FmSilentYield, FmQuiet, FmLetting, FmWatched, FmFailing, FmStopPcs, FmLetPcs, FmMons,
             FmMonPcs
    <3>2. FmSilentEver'
      BY <1>0, <2>10, <2>11, <2>26, <2>27, <2>28a, <2>28b, <2>28c, <2>28d
         DEF FmFlags, FmNumbers, FmTypes, FmPlaces, FmGroupPlaced, FmPlaced, FmTurns, FmHeld,
             FmHeldAt, FmFresh, FmFreshCall, FmFreshSup, FmSilent, FmSilentNow, FmSilentEver,
             FmSilentYield, FmQuiet, FmLetting, FmWatched, FmFailing, FmStopPcs, FmLetPcs, FmMons,
             FmMonPcs
    <3>3. FmSilentYield'
      BY <1>0, <2>10, <2>11, <2>26, <2>27, <2>28a, <2>28b, <2>28c, <2>28d
         DEF FmFlags, FmNumbers, FmTypes, FmPlaces, FmGroupPlaced, FmPlaced, FmTurns, FmHeld,
             FmHeldAt, FmFresh, FmFreshCall, FmFreshSup, FmSilent, FmSilentNow, FmSilentEver,
             FmSilentYield, FmQuiet, FmLetting, FmWatched, FmFailing, FmStopPcs, FmLetPcs, FmMons,
             FmMonPcs
    <3>4. QED
      BY <3>1, <3>2, <3>3 DEF FmSilent
  <2>41. FmGranted'
    BY <1>0, <2>10, <2>11, <2>26, <2>27, <2>28a, <2>28b, <2>28c, <2>28d
       DEF FmFlags, FmNumbers, FmTypes, FmPlaces, FmGroupPlaced, FmPlaced, FmTurns, FmHeld,
           FmHeldAt, FmFresh, FmFreshCall, FmFreshSup, FmSilent, FmSilentNow, FmSilentEver,
           FmSilentYield, FmQuiet, FmLetting, FmWatched, FmGranted, FmFailing, FmStopPcs, FmLetPcs
  <2>60. QED
    BY <2>30, <2>31, <2>32, <2>33, <2>34, <2>35, <2>36, <2>37, <2>38, <2>39, <2>40, <2>41
       DEF FmTypes
<1>19. ASSUME NEW g \in FmRuns, FmSupLaunches(g) PROVE FmInv'
  <2>10. FmOp' = FmOp /\ FmSch' = FmSch
    BY <1>0, <1>19 DEF FmSupLaunches, SupTo, fmPlayer, FmOp, FmSch
  <2>11. (fmOpen' = fmOpen \cup {g} /\ \A h \in FmRuns : fmSup'[h] = IF h = g THEN "hook" ELSE fmSup[h])
        \/ (fmOpen' = fmOpen /\ \A h \in FmRuns : fmSup'[h] = IF h = g THEN "failed" ELSE fmSup[h])
    BY <1>0, <1>19, <2>10 DEF FmSupLaunches, SupTo, fmPlayer, FmSups, FmTypes
  <2>26. UNCHANGED <<fmActive, fmDongle, fmSlot, fmPlaying, fmGen, fmGroup, fmMon, fmRetry>>
    BY <1>0, <1>19, <2>10, <2>11 DEF FmSupLaunches, SupTo, fmPlayer, FmSups, FmMons
  <2>27. fmSup[g] = "launch"
    BY <1>0, <1>19, <2>10, <2>11
       DEF FmSupLaunches, SupTo, fmPlayer, FmSch, FmOp, FmTypes, FmSups, FmMons, FmFlags
  <2>30. FmFlags'
    BY <1>0, <1>19, <2>10, <2>11 DEF FmSupLaunches, SupTo, fmPlayer, FmFlags, FmTypes
  <2>31. FmNumbers'
    BY <1>0, <1>19, <2>10, <2>11 DEF FmSupLaunches, SupTo, fmPlayer, FmNumbers, FmTypes, FmRetryType
  <2>32. FmSups'
    BY <1>0, <1>19, <2>10, <2>11 DEF FmSupLaunches, SupTo, fmPlayer, FmSups, FmTypes, FmSupPcs
  <2>33. FmMons'
    BY <1>0, <1>19, <2>10, <2>11
       DEF FmSupLaunches, SupTo, fmPlayer, FmMons, FmTypes, FmMonPcs, FmFailing
  <2>34. FmCalls'
    BY <1>0, <1>19, <2>10, <2>11
       DEF FmSupLaunches, SupTo, fmPlayer, FmCalls, FmTypes, FmOpPcs, FmSchPcs, FmStopPcs
  <2>35. FmBudget'
    <3>1. FmOpDue' = FmOpDue /\ FmSchDue' = FmSchDue /\ FmStopDue' = FmStopDue /\ fmGen' = fmGen /\ fmRetry'.epoch = fmRetry.epoch
      BY <1>0, <1>19, <2>10, <2>11
         DEF FmSupLaunches, SupTo, fmPlayer, FmTypes, FmFlags, FmNumbers, FmRetryType, FmOpDue,
             FmSchDue, FmStopDue
    <3>2. FmOpDue \in {0, 1} /\ FmSchDue \in {0, 1} /\ FmStopDue \in {0, 1} /\ fmRetry.epoch \in Nat
      BY FmNats DEF FmOpDue, FmSchDue, FmStopDue, FmTypes, FmNumbers, FmRetryType
    <3>3. fmGen' + FmOpDue' + FmSchDue' + FmStopDue' <= FmGens + fmRetry'.epoch + 3
      BY <1>00, <3>1, <3>2 DEF FmBudget
    <3>4. QED
      BY <3>3 DEF FmBudget
  <2>36. FmPlaces'
    <3>1. FmGroupPlaced'
      BY <1>0, <2>10, <2>11, <2>26, <2>27
         DEF FmFlags, FmNumbers, FmTypes, FmPlaces, FmGroupPlaced, FmPlaced, FmHeld, FmHeldAt,
             FmTurns, FmFailing, FmLetPcs
    <3>2. ASSUME NEW h \in FmRuns PROVE FmPlaced(h)'
      <4>1. FmPlaced(h) /\ FmHeldAt(h) /\ h \in Nat /\ h # 0
        BY <1>0 DEF FmPlaces, FmHeld
      <4>3. h > fmGen' => h > fmGen
        BY <4>1, <1>00, <2>26, <2>27
      <4>2. QED
        BY <1>00, <2>10, <2>11, <2>26, <2>27, <4>1, <4>3
           DEF FmPlaced, FmHeldAt, FmFailing, FmStopping, FmLetPcs, FmTurns, FmTypes, FmNumbers
    <3>3. QED
      BY <3>1, <3>2 DEF FmPlaces
  <2>37. FmTurns'
    BY <1>0, <2>10, <2>11, <2>26, <2>27
       DEF FmFlags, FmNumbers, FmTypes, FmCalls, FmPlaces, FmGroupPlaced, FmPlaced, FmTurns,
           FmFresh, FmFreshCall, FmFreshSup, FmHeld, FmHeldAt, FmStopPcs, FmLetPcs, FmOpPcs,
           FmSchPcs
  <2>38. FmHeld'
    <3>1. ASSUME NEW h \in FmRuns PROVE FmHeldAt(h)'
      <4>1. FmPlaced(h) /\ FmHeldAt(h) /\ h \in Nat /\ h # 0
        BY <1>0 DEF FmPlaces, FmHeld
      <4>3. h > fmGen' => h > fmGen
        BY <4>1, <1>00, <2>26, <2>27
      <4>2. QED
        BY <1>00, <2>10, <2>11, <2>26, <2>27, <4>1, <4>3
           DEF FmPlaced, FmHeldAt, FmFailing, FmStopping, FmQuiet, FmFresh, FmFreshSup, FmTypes,
               FmNumbers
    <3>2. QED
      BY <3>1 DEF FmHeld
  <2>39. FmFresh'
    <3>1. FmFreshCall'
      BY <1>0, <2>10, <2>11, <2>26, <2>27
         DEF FmFlags, FmNumbers, FmTypes, FmPlaces, FmGroupPlaced, FmPlaced, FmTurns, FmHeld,
             FmHeldAt, FmFresh, FmFreshCall, FmFreshSup, FmSilent, FmSilentNow, FmSilentEver,
             FmSilentYield, FmQuiet, FmLetting, FmStopping, FmFailing, FmStopPcs, FmLetPcs, FmMons,
             FmMonPcs
    <3>2. FmFreshSup'
      BY <1>0, <2>10, <2>11, <2>26, <2>27
         DEF FmFlags, FmNumbers, FmTypes, FmPlaces, FmGroupPlaced, FmPlaced, FmTurns, FmHeld,
             FmHeldAt, FmFresh, FmFreshCall, FmFreshSup, FmSilent, FmSilentNow, FmSilentEver,
             FmSilentYield, FmQuiet, FmLetting, FmStopping, FmFailing, FmStopPcs, FmLetPcs, FmMons,
             FmMonPcs
    <3>3. QED
      BY <3>1, <3>2 DEF FmFresh
  <2>40. FmSilent'
    <3>1. FmSilentNow'
      BY <1>0, <2>10, <2>11, <2>26, <2>27
         DEF FmFlags, FmNumbers, FmTypes, FmPlaces, FmGroupPlaced, FmPlaced, FmTurns, FmHeld,
             FmHeldAt, FmFresh, FmFreshCall, FmFreshSup, FmSilent, FmSilentNow, FmSilentEver,
             FmSilentYield, FmQuiet, FmLetting, FmWatched, FmFailing, FmStopPcs, FmLetPcs, FmMons,
             FmMonPcs
    <3>2. FmSilentEver'
      BY <1>0, <2>10, <2>11, <2>26, <2>27
         DEF FmFlags, FmNumbers, FmTypes, FmPlaces, FmGroupPlaced, FmPlaced, FmTurns, FmHeld,
             FmHeldAt, FmFresh, FmFreshCall, FmFreshSup, FmSilent, FmSilentNow, FmSilentEver,
             FmSilentYield, FmQuiet, FmLetting, FmWatched, FmFailing, FmStopPcs, FmLetPcs, FmMons,
             FmMonPcs
    <3>3. FmSilentYield'
      BY <1>0, <2>10, <2>11, <2>26, <2>27
         DEF FmFlags, FmNumbers, FmTypes, FmPlaces, FmGroupPlaced, FmPlaced, FmTurns, FmHeld,
             FmHeldAt, FmFresh, FmFreshCall, FmFreshSup, FmSilent, FmSilentNow, FmSilentEver,
             FmSilentYield, FmQuiet, FmLetting, FmWatched, FmFailing, FmStopPcs, FmLetPcs, FmMons,
             FmMonPcs
    <3>4. QED
      BY <3>1, <3>2, <3>3 DEF FmSilent
  <2>41. FmGranted'
    BY <1>0, <2>10, <2>11, <2>26, <2>27
       DEF FmFlags, FmNumbers, FmTypes, FmPlaces, FmGroupPlaced, FmPlaced, FmTurns, FmHeld,
           FmHeldAt, FmFresh, FmFreshCall, FmFreshSup, FmSilent, FmSilentNow, FmSilentEver,
           FmSilentYield, FmQuiet, FmLetting, FmWatched, FmGranted, FmFailing, FmStopPcs, FmLetPcs
  <2>60. QED
    BY <2>30, <2>31, <2>32, <2>33, <2>34, <2>35, <2>36, <2>37, <2>38, <2>39, <2>40, <2>41
       DEF FmTypes
<1>20. ASSUME NEW g \in FmRuns, FmSupHook(g) PROVE FmInv'
  <2>10. FmOp' = FmOp /\ FmSch' = FmSch
    BY <1>0, <1>20 DEF FmSupHook, SupTo, fmPlayer, FmOp, FmSch
  <2>14. fmGroup = g /\ fmActive /\ fmPlaying /\ fmDongle => fmOpen' = fmOpen /\ \A h \in FmRuns : fmSup'[h] = (IF h = g THEN "end" ELSE fmSup[h]) /\ fmMon'[h] = (IF h = g THEN "watch" ELSE fmMon[h])
    BY <1>0, <1>20, <2>10 DEF FmSupHook, SupTo, fmPlayer, FmSups, FmMons, FmTypes
  <2>15. ~(fmGroup = g /\ fmActive /\ fmPlaying /\ fmDongle) => fmOpen' = fmOpen \ {g} /\ fmMon' = fmMon /\ \A h \in FmRuns : fmSup'[h] = (IF h = g THEN "failed" ELSE fmSup[h])
    BY <1>0, <1>20, <2>10, <2>14 DEF FmSupHook, SupTo, fmPlayer, FmSups, FmMons, FmTypes
  <2>26. UNCHANGED <<fmActive, fmDongle, fmSlot, fmPlaying, fmGen, fmGroup, fmRetry>>
    BY <1>0, <1>20, <2>10, <2>14, <2>15 DEF FmSupHook, SupTo, fmPlayer, FmSups, FmMons
  <2>27. fmSup[g] = "hook"
    BY <1>0, <1>20, <2>10, <2>14, <2>15
       DEF FmSupHook, SupTo, fmPlayer, FmSch, FmOp, FmTypes, FmSups, FmMons, FmFlags
  <2>30. FmFlags'
    BY <1>0, <1>20, <2>10, <2>14, <2>15 DEF FmSupHook, SupTo, fmPlayer, FmFlags, FmTypes
  <2>31. FmNumbers'
    BY <1>0, <1>20, <2>10, <2>14, <2>15
       DEF FmSupHook, SupTo, fmPlayer, FmNumbers, FmTypes, FmRetryType
  <2>32. FmSups'
    BY <1>0, <1>20, <2>10, <2>14, <2>15 DEF FmSupHook, SupTo, fmPlayer, FmSups, FmTypes, FmSupPcs
  <2>33. FmMons'
    BY <1>0, <1>20, <2>10, <2>14, <2>15
       DEF FmSupHook, SupTo, fmPlayer, FmMons, FmTypes, FmMonPcs, FmFailing
  <2>34. FmCalls'
    BY <1>0, <1>20, <2>10, <2>14, <2>15
       DEF FmSupHook, SupTo, fmPlayer, FmCalls, FmTypes, FmOpPcs, FmSchPcs, FmStopPcs
  <2>35. FmBudget'
    <3>1. FmOpDue' = FmOpDue /\ FmSchDue' = FmSchDue /\ FmStopDue' = FmStopDue /\ fmGen' = fmGen /\ fmRetry'.epoch = fmRetry.epoch
      BY <1>0, <1>20, <2>10, <2>14, <2>15
         DEF FmSupHook, SupTo, fmPlayer, FmTypes, FmFlags, FmNumbers, FmRetryType, FmOpDue,
             FmSchDue, FmStopDue
    <3>2. FmOpDue \in {0, 1} /\ FmSchDue \in {0, 1} /\ FmStopDue \in {0, 1} /\ fmRetry.epoch \in Nat
      BY FmNats DEF FmOpDue, FmSchDue, FmStopDue, FmTypes, FmNumbers, FmRetryType
    <3>3. fmGen' + FmOpDue' + FmSchDue' + FmStopDue' <= FmGens + fmRetry'.epoch + 3
      BY <1>00, <3>1, <3>2 DEF FmBudget
    <3>4. QED
      BY <3>3 DEF FmBudget
  <2>36. FmPlaces'
    <3>1. FmGroupPlaced'
      BY <1>0, <2>10, <2>14, <2>15, <2>26, <2>27
         DEF FmFlags, FmNumbers, FmTypes, FmPlaces, FmGroupPlaced, FmPlaced, FmHeld, FmHeldAt,
             FmTurns, FmFailing, FmLetPcs
    <3>2. ASSUME NEW h \in FmRuns PROVE FmPlaced(h)'
      <4>1. FmPlaced(h) /\ FmHeldAt(h) /\ h \in Nat /\ h # 0
        BY <1>0 DEF FmPlaces, FmHeld
      <4>3. h > fmGen' => h > fmGen
        BY <4>1, <1>00, <2>26, <2>27
      <4>2. QED
        BY <1>00, <2>10, <2>14, <2>15, <2>26, <2>27, <4>1, <4>3
           DEF FmPlaced, FmHeldAt, FmFailing, FmStopping, FmLetPcs, FmTurns, FmTypes, FmNumbers
    <3>3. QED
      BY <3>1, <3>2 DEF FmPlaces
  <2>37. FmTurns'
    BY <1>0, <2>10, <2>14, <2>15, <2>26, <2>27
       DEF FmFlags, FmNumbers, FmTypes, FmCalls, FmPlaces, FmGroupPlaced, FmPlaced, FmTurns,
           FmFresh, FmFreshCall, FmFreshSup, FmHeld, FmHeldAt, FmStopPcs, FmLetPcs, FmOpPcs,
           FmSchPcs
  <2>38. FmHeld'
    <3>1. ASSUME NEW h \in FmRuns PROVE FmHeldAt(h)'
      <4>1. FmPlaced(h) /\ FmHeldAt(h) /\ h \in Nat /\ h # 0
        BY <1>0 DEF FmPlaces, FmHeld
      <4>3. h > fmGen' => h > fmGen
        BY <4>1, <1>00, <2>26, <2>27
      <4>2. QED
        BY <1>00, <2>10, <2>14, <2>15, <2>26, <2>27, <4>1, <4>3
           DEF FmPlaced, FmHeldAt, FmFailing, FmStopping, FmQuiet, FmFresh, FmFreshSup, FmTypes,
               FmNumbers
    <3>2. QED
      BY <3>1 DEF FmHeld
  <2>39. FmFresh'
    <3>1. FmFreshCall'
      BY <1>0, <2>10, <2>14, <2>15, <2>26, <2>27
         DEF FmFlags, FmNumbers, FmTypes, FmPlaces, FmGroupPlaced, FmPlaced, FmTurns, FmHeld,
             FmHeldAt, FmFresh, FmFreshCall, FmFreshSup, FmSilent, FmSilentNow, FmSilentEver,
             FmSilentYield, FmQuiet, FmLetting, FmStopping, FmFailing, FmStopPcs, FmLetPcs, FmMons,
             FmMonPcs
    <3>2. FmFreshSup'
      BY <1>0, <2>10, <2>14, <2>15, <2>26, <2>27
         DEF FmFlags, FmNumbers, FmTypes, FmPlaces, FmGroupPlaced, FmPlaced, FmTurns, FmHeld,
             FmHeldAt, FmFresh, FmFreshCall, FmFreshSup, FmSilent, FmSilentNow, FmSilentEver,
             FmSilentYield, FmQuiet, FmLetting, FmStopping, FmFailing, FmStopPcs, FmLetPcs, FmMons,
             FmMonPcs
    <3>3. QED
      BY <3>1, <3>2 DEF FmFresh
  <2>40. FmSilent'
    <3>1. FmSilentNow'
      BY <1>0, <2>10, <2>14, <2>15, <2>26, <2>27
         DEF FmFlags, FmNumbers, FmTypes, FmPlaces, FmGroupPlaced, FmPlaced, FmTurns, FmHeld,
             FmHeldAt, FmFresh, FmFreshCall, FmFreshSup, FmSilent, FmSilentNow, FmSilentEver,
             FmSilentYield, FmQuiet, FmLetting, FmWatched, FmFailing, FmStopPcs, FmLetPcs, FmMons,
             FmMonPcs
    <3>2. FmSilentEver'
      BY <1>0, <2>10, <2>14, <2>15, <2>26, <2>27
         DEF FmFlags, FmNumbers, FmTypes, FmPlaces, FmGroupPlaced, FmPlaced, FmTurns, FmHeld,
             FmHeldAt, FmFresh, FmFreshCall, FmFreshSup, FmSilent, FmSilentNow, FmSilentEver,
             FmSilentYield, FmQuiet, FmLetting, FmWatched, FmFailing, FmStopPcs, FmLetPcs, FmMons,
             FmMonPcs
    <3>3. FmSilentYield'
      BY <1>0, <2>10, <2>14, <2>15, <2>26, <2>27
         DEF FmFlags, FmNumbers, FmTypes, FmPlaces, FmGroupPlaced, FmPlaced, FmTurns, FmHeld,
             FmHeldAt, FmFresh, FmFreshCall, FmFreshSup, FmSilent, FmSilentNow, FmSilentEver,
             FmSilentYield, FmQuiet, FmLetting, FmWatched, FmFailing, FmStopPcs, FmLetPcs, FmMons,
             FmMonPcs
    <3>4. QED
      BY <3>1, <3>2, <3>3 DEF FmSilent
  <2>41. FmGranted'
    BY <1>0, <2>10, <2>14, <2>15, <2>26, <2>27
       DEF FmFlags, FmNumbers, FmTypes, FmPlaces, FmGroupPlaced, FmPlaced, FmTurns, FmHeld,
           FmHeldAt, FmFresh, FmFreshCall, FmFreshSup, FmSilent, FmSilentNow, FmSilentEver,
           FmSilentYield, FmQuiet, FmLetting, FmWatched, FmGranted, FmFailing, FmStopPcs, FmLetPcs
  <2>60. QED
    BY <2>30, <2>31, <2>32, <2>33, <2>34, <2>35, <2>36, <2>37, <2>38, <2>39, <2>40, <2>41
       DEF FmTypes
<1>21. ASSUME NEW g \in FmRuns, SupEnds(g) PROVE FmInv'
  <2>10. FmOp' = FmOp /\ FmSch' = FmSch
    BY <1>0, <1>21 DEF SupEnds, SupTo, FmOp, FmSch
  <2>11. \A h \in FmRuns : fmSup'[h] = IF h = g THEN "done" ELSE fmSup[h]
    BY <1>0, <1>21, <2>10 DEF SupEnds, SupTo, FmSups, FmTypes
  <2>26. UNCHANGED <<fmActive, fmDongle, fmSlot, fmPlaying, fmGen, fmGroup, fmOpen, fmMon, fmRetry>>
    BY <1>0, <1>21, <2>10, <2>11 DEF SupEnds, SupTo, FmSups, FmMons
  <2>27. fmSup[g] = "end"
    BY <1>0, <1>21, <2>10, <2>11 DEF SupEnds, SupTo, FmSch, FmOp, FmTypes, FmSups, FmMons, FmFlags
  <2>30. FmFlags'
    BY <1>0, <1>21, <2>10, <2>11 DEF SupEnds, SupTo, FmFlags, FmTypes
  <2>31. FmNumbers'
    BY <1>0, <1>21, <2>10, <2>11 DEF SupEnds, SupTo, FmNumbers, FmTypes, FmRetryType
  <2>32. FmSups'
    BY <1>0, <1>21, <2>10, <2>11 DEF SupEnds, SupTo, FmSups, FmTypes, FmSupPcs
  <2>33. FmMons'
    BY <1>0, <1>21, <2>10, <2>11 DEF SupEnds, SupTo, FmMons, FmTypes, FmMonPcs, FmFailing
  <2>34. FmCalls'
    BY <1>0, <1>21, <2>10, <2>11 DEF SupEnds, SupTo, FmCalls, FmTypes, FmOpPcs, FmSchPcs, FmStopPcs
  <2>35. FmBudget'
    <3>1. FmOpDue' = FmOpDue /\ FmSchDue' = FmSchDue /\ FmStopDue' = FmStopDue /\ fmGen' = fmGen /\ fmRetry'.epoch = fmRetry.epoch
      BY <1>0, <1>21, <2>10, <2>11
         DEF SupEnds, SupTo, FmTypes, FmFlags, FmNumbers, FmRetryType, FmOpDue, FmSchDue, FmStopDue
    <3>2. FmOpDue \in {0, 1} /\ FmSchDue \in {0, 1} /\ FmStopDue \in {0, 1} /\ fmRetry.epoch \in Nat
      BY FmNats DEF FmOpDue, FmSchDue, FmStopDue, FmTypes, FmNumbers, FmRetryType
    <3>3. fmGen' + FmOpDue' + FmSchDue' + FmStopDue' <= FmGens + fmRetry'.epoch + 3
      BY <1>00, <3>1, <3>2 DEF FmBudget
    <3>4. QED
      BY <3>3 DEF FmBudget
  <2>36. FmPlaces'
    <3>1. FmGroupPlaced'
      BY <1>0, <2>10, <2>11, <2>26, <2>27
         DEF FmFlags, FmNumbers, FmTypes, FmPlaces, FmGroupPlaced, FmPlaced, FmHeld, FmHeldAt,
             FmTurns, FmFailing, FmLetPcs
    <3>2. ASSUME NEW h \in FmRuns PROVE FmPlaced(h)'
      <4>1. FmPlaced(h) /\ FmHeldAt(h) /\ h \in Nat /\ h # 0
        BY <1>0 DEF FmPlaces, FmHeld
      <4>3. h > fmGen' => h > fmGen
        BY <4>1, <1>00, <2>26, <2>27
      <4>2. QED
        BY <1>00, <2>10, <2>11, <2>26, <2>27, <4>1, <4>3
           DEF FmPlaced, FmHeldAt, FmFailing, FmStopping, FmLetPcs, FmTurns, FmTypes, FmNumbers
    <3>3. QED
      BY <3>1, <3>2 DEF FmPlaces
  <2>37. FmTurns'
    BY <1>0, <2>10, <2>11, <2>26, <2>27
       DEF FmFlags, FmNumbers, FmTypes, FmCalls, FmPlaces, FmGroupPlaced, FmPlaced, FmTurns,
           FmFresh, FmFreshCall, FmFreshSup, FmHeld, FmHeldAt, FmStopPcs, FmLetPcs, FmOpPcs,
           FmSchPcs
  <2>38. FmHeld'
    <3>1. ASSUME NEW h \in FmRuns PROVE FmHeldAt(h)'
      <4>1. FmPlaced(h) /\ FmHeldAt(h) /\ h \in Nat /\ h # 0
        BY <1>0 DEF FmPlaces, FmHeld
      <4>3. h > fmGen' => h > fmGen
        BY <4>1, <1>00, <2>26, <2>27
      <4>2. QED
        BY <1>00, <2>10, <2>11, <2>26, <2>27, <4>1, <4>3
           DEF FmPlaced, FmHeldAt, FmFailing, FmStopping, FmQuiet, FmFresh, FmFreshSup, FmTypes,
               FmNumbers
    <3>2. QED
      BY <3>1 DEF FmHeld
  <2>39. FmFresh'
    <3>1. FmFreshCall'
      BY <1>0, <2>10, <2>11, <2>26, <2>27
         DEF FmFlags, FmNumbers, FmTypes, FmPlaces, FmGroupPlaced, FmPlaced, FmTurns, FmHeld,
             FmHeldAt, FmFresh, FmFreshCall, FmFreshSup, FmSilent, FmSilentNow, FmSilentEver,
             FmSilentYield, FmQuiet, FmLetting, FmStopping, FmFailing, FmStopPcs, FmLetPcs, FmMons,
             FmMonPcs
    <3>2. FmFreshSup'
      BY <1>0, <2>10, <2>11, <2>26, <2>27
         DEF FmFlags, FmNumbers, FmTypes, FmPlaces, FmGroupPlaced, FmPlaced, FmTurns, FmHeld,
             FmHeldAt, FmFresh, FmFreshCall, FmFreshSup, FmSilent, FmSilentNow, FmSilentEver,
             FmSilentYield, FmQuiet, FmLetting, FmStopping, FmFailing, FmStopPcs, FmLetPcs, FmMons,
             FmMonPcs
    <3>3. QED
      BY <3>1, <3>2 DEF FmFresh
  <2>40. FmSilent'
    <3>1. FmSilentNow'
      BY <1>0, <2>10, <2>11, <2>26, <2>27
         DEF FmFlags, FmNumbers, FmTypes, FmPlaces, FmGroupPlaced, FmPlaced, FmTurns, FmHeld,
             FmHeldAt, FmFresh, FmFreshCall, FmFreshSup, FmSilent, FmSilentNow, FmSilentEver,
             FmSilentYield, FmQuiet, FmLetting, FmWatched, FmFailing, FmStopPcs, FmLetPcs, FmMons,
             FmMonPcs
    <3>2. FmSilentEver'
      BY <1>0, <2>10, <2>11, <2>26, <2>27
         DEF FmFlags, FmNumbers, FmTypes, FmPlaces, FmGroupPlaced, FmPlaced, FmTurns, FmHeld,
             FmHeldAt, FmFresh, FmFreshCall, FmFreshSup, FmSilent, FmSilentNow, FmSilentEver,
             FmSilentYield, FmQuiet, FmLetting, FmWatched, FmFailing, FmStopPcs, FmLetPcs, FmMons,
             FmMonPcs
    <3>3. FmSilentYield'
      BY <1>0, <2>10, <2>11, <2>26, <2>27
         DEF FmFlags, FmNumbers, FmTypes, FmPlaces, FmGroupPlaced, FmPlaced, FmTurns, FmHeld,
             FmHeldAt, FmFresh, FmFreshCall, FmFreshSup, FmSilent, FmSilentNow, FmSilentEver,
             FmSilentYield, FmQuiet, FmLetting, FmWatched, FmFailing, FmStopPcs, FmLetPcs, FmMons,
             FmMonPcs
    <3>4. QED
      BY <3>1, <3>2, <3>3 DEF FmSilent
  <2>41. FmGranted'
    BY <1>0, <2>10, <2>11, <2>26, <2>27
       DEF FmFlags, FmNumbers, FmTypes, FmPlaces, FmGroupPlaced, FmPlaced, FmTurns, FmHeld,
           FmHeldAt, FmFresh, FmFreshCall, FmFreshSup, FmSilent, FmSilentNow, FmSilentEver,
           FmSilentYield, FmQuiet, FmLetting, FmWatched, FmGranted, FmFailing, FmStopPcs, FmLetPcs
  <2>60. QED
    BY <2>30, <2>31, <2>32, <2>33, <2>34, <2>35, <2>36, <2>37, <2>38, <2>39, <2>40, <2>41
       DEF FmTypes
<1>22. ASSUME NEW g \in FmRuns, FmSupFails(g) PROVE FmInv'
  <2>10. FmOp' = FmOp /\ FmSch' = FmSch
    BY <1>0, <1>22 DEF FmSupFails, SupTo, fmPlayer, FmOp, FmSch
  <2>14. g = fmGen => \A h \in FmRuns : fmSup'[h] = (IF h = g THEN "handler" ELSE fmSup[h]) /\ fmMon'[h] = (IF h = g THEN "failed" ELSE fmMon[h])
    BY <1>0, <1>22, <2>10 DEF FmSupFails, SupTo, fmPlayer, FmSups, FmMons, FmTypes
  <2>15. g # fmGen => fmMon' = fmMon /\ \A h \in FmRuns : fmSup'[h] = (IF h = g THEN "end" ELSE fmSup[h])
    BY <1>0, <1>22, <2>10, <2>14 DEF FmSupFails, SupTo, fmPlayer, FmSups, FmMons, FmTypes
  <2>26. UNCHANGED <<fmActive, fmDongle, fmSlot, fmPlaying, fmGen, fmOpen, fmRetry>>
    BY <1>0, <1>22, <2>10, <2>14, <2>15 DEF FmSupFails, SupTo, fmPlayer, FmSups, FmMons
  <2>27. fmSup[g] = "failed" /\ fmGroup' = (IF fmGroup = g THEN 0 ELSE fmGroup)
    BY <1>0, <1>22, <2>10, <2>14, <2>15
       DEF FmSupFails, SupTo, fmPlayer, FmSch, FmOp, FmTypes, FmSups, FmMons, FmFlags
  <2>28a. fmMon[g] = "none"
    BY <1>0, <2>10, <2>14, <2>15, <2>26, <2>27 DEF FmPlaces, FmPlaced
  <2>28b. fmGen = g => fmGroup = 0 \/ fmGroup = g
    BY <1>0, <2>10, <2>14, <2>15, <2>26, <2>27, <2>28a DEF FmPlaces, FmGroupPlaced
  <2>30. FmFlags'
    BY <1>0, <1>22, <2>10, <2>14, <2>15 DEF FmSupFails, SupTo, fmPlayer, FmFlags, FmTypes
  <2>31. FmNumbers'
    BY <1>0, <1>22, <2>10, <2>14, <2>15
       DEF FmSupFails, SupTo, fmPlayer, FmNumbers, FmTypes, FmRetryType
  <2>32. FmSups'
    BY <1>0, <1>22, <2>10, <2>14, <2>15 DEF FmSupFails, SupTo, fmPlayer, FmSups, FmTypes, FmSupPcs
  <2>33. FmMons'
    BY <1>0, <1>22, <2>10, <2>14, <2>15
       DEF FmSupFails, SupTo, fmPlayer, FmMons, FmTypes, FmMonPcs, FmFailing
  <2>34. FmCalls'
    BY <1>0, <1>22, <2>10, <2>14, <2>15
       DEF FmSupFails, SupTo, fmPlayer, FmCalls, FmTypes, FmOpPcs, FmSchPcs, FmStopPcs
  <2>35. FmBudget'
    <3>1. FmOpDue' = FmOpDue /\ FmSchDue' = FmSchDue /\ FmStopDue' = FmStopDue /\ fmGen' = fmGen /\ fmRetry'.epoch = fmRetry.epoch
      BY <1>0, <1>22, <2>10, <2>14, <2>15
         DEF FmSupFails, SupTo, fmPlayer, FmTypes, FmFlags, FmNumbers, FmRetryType, FmOpDue,
             FmSchDue, FmStopDue
    <3>2. FmOpDue \in {0, 1} /\ FmSchDue \in {0, 1} /\ FmStopDue \in {0, 1} /\ fmRetry.epoch \in Nat
      BY FmNats DEF FmOpDue, FmSchDue, FmStopDue, FmTypes, FmNumbers, FmRetryType
    <3>3. fmGen' + FmOpDue' + FmSchDue' + FmStopDue' <= FmGens + fmRetry'.epoch + 3
      BY <1>00, <3>1, <3>2 DEF FmBudget
    <3>4. QED
      BY <3>3 DEF FmBudget
  <2>36. FmPlaces'
    <3>1. FmGroupPlaced'
      BY <1>0, <2>10, <2>14, <2>15, <2>26, <2>27, <2>28a, <2>28b
         DEF FmFlags, FmNumbers, FmTypes, FmPlaces, FmGroupPlaced, FmPlaced, FmHeld, FmHeldAt,
             FmTurns, FmFailing, FmLetPcs
    <3>2. ASSUME NEW h \in FmRuns PROVE FmPlaced(h)'
      <4>1. FmPlaced(h) /\ FmHeldAt(h) /\ h \in Nat /\ h # 0
        BY <1>0 DEF FmPlaces, FmHeld
      <4>3. h > fmGen' => h > fmGen
        BY <4>1, <1>00, <2>26, <2>27
      <4>2. QED
        BY <1>00, <2>10, <2>14, <2>15, <2>26, <2>27, <2>28a, <2>28b, <4>1, <4>3
           DEF FmPlaced, FmHeldAt, FmFailing, FmStopping, FmLetPcs, FmTurns, FmTypes, FmNumbers
    <3>3. QED
      BY <3>1, <3>2 DEF FmPlaces
  <2>37. FmTurns'
    BY <1>0, <2>10, <2>14, <2>15, <2>26, <2>27, <2>28a, <2>28b
       DEF FmFlags, FmNumbers, FmTypes, FmCalls, FmPlaces, FmGroupPlaced, FmPlaced, FmTurns,
           FmFresh, FmFreshCall, FmFreshSup, FmHeld, FmHeldAt, FmStopPcs, FmLetPcs, FmOpPcs,
           FmSchPcs
  <2>38. FmHeld'
    <3>1. ASSUME NEW h \in FmRuns PROVE FmHeldAt(h)'
      <4>1. FmPlaced(h) /\ FmHeldAt(h) /\ h \in Nat /\ h # 0
        BY <1>0 DEF FmPlaces, FmHeld
      <4>3. h > fmGen' => h > fmGen
        BY <4>1, <1>00, <2>26, <2>27
      <4>2. QED
        BY <1>00, <2>10, <2>14, <2>15, <2>26, <2>27, <2>28a, <2>28b, <4>1, <4>3
           DEF FmPlaced, FmHeldAt, FmFailing, FmStopping, FmQuiet, FmFresh, FmFreshSup, FmTypes,
               FmNumbers
    <3>2. QED
      BY <3>1 DEF FmHeld
  <2>39. FmFresh'
    <3>1. FmFreshCall'
      BY <1>0, <2>10, <2>14, <2>15, <2>26, <2>27, <2>28a, <2>28b
         DEF FmFlags, FmNumbers, FmTypes, FmPlaces, FmGroupPlaced, FmPlaced, FmTurns, FmHeld,
             FmHeldAt, FmFresh, FmFreshCall, FmFreshSup, FmSilent, FmSilentNow, FmSilentEver,
             FmSilentYield, FmQuiet, FmLetting, FmStopping, FmFailing, FmStopPcs, FmLetPcs, FmMons,
             FmMonPcs
    <3>2. FmFreshSup'
      BY <1>0, <2>10, <2>14, <2>15, <2>26, <2>27, <2>28a, <2>28b
         DEF FmFlags, FmNumbers, FmTypes, FmPlaces, FmGroupPlaced, FmPlaced, FmTurns, FmHeld,
             FmHeldAt, FmFresh, FmFreshCall, FmFreshSup, FmSilent, FmSilentNow, FmSilentEver,
             FmSilentYield, FmQuiet, FmLetting, FmStopping, FmFailing, FmStopPcs, FmLetPcs, FmMons,
             FmMonPcs
    <3>3. QED
      BY <3>1, <3>2 DEF FmFresh
  <2>40. FmSilent'
    <3>1. FmSilentNow'
      BY <1>0, <2>10, <2>14, <2>15, <2>26, <2>27, <2>28a, <2>28b
         DEF FmFlags, FmNumbers, FmTypes, FmPlaces, FmGroupPlaced, FmPlaced, FmTurns, FmHeld,
             FmHeldAt, FmFresh, FmFreshCall, FmFreshSup, FmSilent, FmSilentNow, FmSilentEver,
             FmSilentYield, FmQuiet, FmLetting, FmWatched, FmFailing, FmStopPcs, FmLetPcs, FmMons,
             FmMonPcs
    <3>2. FmSilentEver'
      BY <1>0, <2>10, <2>14, <2>15, <2>26, <2>27, <2>28a, <2>28b
         DEF FmFlags, FmNumbers, FmTypes, FmPlaces, FmGroupPlaced, FmPlaced, FmTurns, FmHeld,
             FmHeldAt, FmFresh, FmFreshCall, FmFreshSup, FmSilent, FmSilentNow, FmSilentEver,
             FmSilentYield, FmQuiet, FmLetting, FmWatched, FmFailing, FmStopPcs, FmLetPcs, FmMons,
             FmMonPcs
    <3>3. FmSilentYield'
      BY <1>0, <2>10, <2>14, <2>15, <2>26, <2>27, <2>28a, <2>28b
         DEF FmFlags, FmNumbers, FmTypes, FmPlaces, FmGroupPlaced, FmPlaced, FmTurns, FmHeld,
             FmHeldAt, FmFresh, FmFreshCall, FmFreshSup, FmSilent, FmSilentNow, FmSilentEver,
             FmSilentYield, FmQuiet, FmLetting, FmWatched, FmFailing, FmStopPcs, FmLetPcs, FmMons,
             FmMonPcs
    <3>4. QED
      BY <3>1, <3>2, <3>3 DEF FmSilent
  <2>41. FmGranted'
    BY <1>0, <2>10, <2>14, <2>15, <2>26, <2>27, <2>28a, <2>28b
       DEF FmFlags, FmNumbers, FmTypes, FmPlaces, FmGroupPlaced, FmPlaced, FmTurns, FmHeld,
           FmHeldAt, FmFresh, FmFreshCall, FmFreshSup, FmSilent, FmSilentNow, FmSilentEver,
           FmSilentYield, FmQuiet, FmLetting, FmWatched, FmGranted, FmFailing, FmStopPcs, FmLetPcs
  <2>60. QED
    BY <2>30, <2>31, <2>32, <2>33, <2>34, <2>35, <2>36, <2>37, <2>38, <2>39, <2>40, <2>41
       DEF FmTypes
<1>23. ASSUME NEW g \in FmRuns, FmPipelineFails(g) PROVE FmInv'
  <2>10. FmOp' = FmOp /\ FmSch' = FmSch
    BY <1>0, <1>23 DEF FmPipelineFails, FmMonTo, fmPlayer, FmOp, FmSch
  <2>12. \A h \in FmRuns : fmMon'[h] = IF h = g THEN IF fmGroup = g THEN "failed" ELSE "none" ELSE fmMon[h]
    BY <1>0, <1>23, <2>10 DEF FmPipelineFails, FmMonTo, fmPlayer, FmMons, FmTypes
  <2>26. UNCHANGED <<fmActive, fmDongle, fmSlot, fmPlaying, fmGen, fmGroup, fmSup, fmRetry>>
    BY <1>0, <1>23, <2>10, <2>12 DEF FmPipelineFails, FmMonTo, fmPlayer, FmSups, FmMons
  <2>27. fmMon[g] = "watch" /\ fmOpen' = fmOpen \ {g}
    BY <1>0, <1>23, <2>10, <2>12
       DEF FmPipelineFails, FmMonTo, fmPlayer, FmSch, FmOp, FmTypes, FmSups, FmMons, FmFlags
  <2>28a. FmQuiet => fmGroup # g
    BY <1>0, <2>10, <2>12, <2>26, <2>27 DEF FmQuiet
  <2>30. FmFlags'
    BY <1>0, <1>23, <2>10, <2>12 DEF FmPipelineFails, FmMonTo, fmPlayer, FmFlags, FmTypes
  <2>31. FmNumbers'
    BY <1>0, <1>23, <2>10, <2>12
       DEF FmPipelineFails, FmMonTo, fmPlayer, FmNumbers, FmTypes, FmRetryType
  <2>32. FmSups'
    BY <1>0, <1>23, <2>10, <2>12 DEF FmPipelineFails, FmMonTo, fmPlayer, FmSups, FmTypes, FmSupPcs
  <2>33. FmMons'
    BY <1>0, <1>23, <2>10, <2>12
       DEF FmPipelineFails, FmMonTo, fmPlayer, FmMons, FmTypes, FmMonPcs, FmFailing
  <2>34. FmCalls'
    BY <1>0, <1>23, <2>10, <2>12
       DEF FmPipelineFails, FmMonTo, fmPlayer, FmCalls, FmTypes, FmOpPcs, FmSchPcs, FmStopPcs
  <2>35. FmBudget'
    <3>1. FmOpDue' = FmOpDue /\ FmSchDue' = FmSchDue /\ FmStopDue' = FmStopDue /\ fmGen' = fmGen /\ fmRetry'.epoch = fmRetry.epoch
      BY <1>0, <1>23, <2>10, <2>12
         DEF FmPipelineFails, FmMonTo, fmPlayer, FmTypes, FmFlags, FmNumbers, FmRetryType, FmOpDue,
             FmSchDue, FmStopDue
    <3>2. FmOpDue \in {0, 1} /\ FmSchDue \in {0, 1} /\ FmStopDue \in {0, 1} /\ fmRetry.epoch \in Nat
      BY FmNats DEF FmOpDue, FmSchDue, FmStopDue, FmTypes, FmNumbers, FmRetryType
    <3>3. fmGen' + FmOpDue' + FmSchDue' + FmStopDue' <= FmGens + fmRetry'.epoch + 3
      BY <1>00, <3>1, <3>2 DEF FmBudget
    <3>4. QED
      BY <3>3 DEF FmBudget
  <2>36. FmPlaces'
    <3>1. FmGroupPlaced'
      BY <1>0, <2>10, <2>12, <2>26, <2>27, <2>28a
         DEF FmFlags, FmNumbers, FmTypes, FmPlaces, FmGroupPlaced, FmPlaced, FmHeld, FmHeldAt,
             FmTurns, FmFailing, FmLetPcs
    <3>2. ASSUME NEW h \in FmRuns PROVE FmPlaced(h)'
      <4>1. FmPlaced(h) /\ FmHeldAt(h) /\ h \in Nat /\ h # 0
        BY <1>0 DEF FmPlaces, FmHeld
      <4>3. h > fmGen' => h > fmGen
        BY <4>1, <1>00, <2>26, <2>27
      <4>2. QED
        BY <1>00, <2>10, <2>12, <2>26, <2>27, <2>28a, <4>1, <4>3
           DEF FmPlaced, FmHeldAt, FmFailing, FmStopping, FmLetPcs, FmTurns, FmTypes, FmNumbers
    <3>3. QED
      BY <3>1, <3>2 DEF FmPlaces
  <2>37. FmTurns'
    BY <1>0, <2>10, <2>12, <2>26, <2>27, <2>28a
       DEF FmFlags, FmNumbers, FmTypes, FmCalls, FmPlaces, FmGroupPlaced, FmPlaced, FmTurns,
           FmFresh, FmFreshCall, FmFreshSup, FmHeld, FmHeldAt, FmStopPcs, FmLetPcs, FmOpPcs,
           FmSchPcs
  <2>38. FmHeld'
    <3>1. ASSUME NEW h \in FmRuns PROVE FmHeldAt(h)'
      <4>1. FmPlaced(h) /\ FmHeldAt(h) /\ h \in Nat /\ h # 0
        BY <1>0 DEF FmPlaces, FmHeld
      <4>3. h > fmGen' => h > fmGen
        BY <4>1, <1>00, <2>26, <2>27
      <4>2. QED
        BY <1>00, <2>10, <2>12, <2>26, <2>27, <2>28a, <4>1, <4>3
           DEF FmPlaced, FmHeldAt, FmFailing, FmStopping, FmQuiet, FmFresh, FmFreshSup, FmTypes,
               FmNumbers
    <3>2. QED
      BY <3>1 DEF FmHeld
  <2>39. FmFresh'
    <3>1. FmFreshCall'
      BY <1>0, <2>10, <2>12, <2>26, <2>27, <2>28a
         DEF FmFlags, FmNumbers, FmTypes, FmPlaces, FmGroupPlaced, FmPlaced, FmTurns, FmHeld,
             FmHeldAt, FmFresh, FmFreshCall, FmFreshSup, FmSilent, FmSilentNow, FmSilentEver,
             FmSilentYield, FmQuiet, FmLetting, FmStopping, FmFailing, FmStopPcs, FmLetPcs, FmMons,
             FmMonPcs
    <3>2. FmFreshSup'
      BY <1>0, <2>10, <2>12, <2>26, <2>27, <2>28a
         DEF FmFlags, FmNumbers, FmTypes, FmPlaces, FmGroupPlaced, FmPlaced, FmTurns, FmHeld,
             FmHeldAt, FmFresh, FmFreshCall, FmFreshSup, FmSilent, FmSilentNow, FmSilentEver,
             FmSilentYield, FmQuiet, FmLetting, FmStopping, FmFailing, FmStopPcs, FmLetPcs, FmMons,
             FmMonPcs
    <3>3. QED
      BY <3>1, <3>2 DEF FmFresh
  <2>40. FmSilent'
    <3>1. FmSilentNow'
      BY <1>0, <2>10, <2>12, <2>26, <2>27, <2>28a
         DEF FmFlags, FmNumbers, FmTypes, FmPlaces, FmGroupPlaced, FmPlaced, FmTurns, FmHeld,
             FmHeldAt, FmFresh, FmFreshCall, FmFreshSup, FmSilent, FmSilentNow, FmSilentEver,
             FmSilentYield, FmQuiet, FmLetting, FmWatched, FmFailing, FmStopPcs, FmLetPcs, FmMons,
             FmMonPcs
    <3>2. FmSilentEver'
      BY <1>0, <2>10, <2>12, <2>26, <2>27, <2>28a
         DEF FmFlags, FmNumbers, FmTypes, FmPlaces, FmGroupPlaced, FmPlaced, FmTurns, FmHeld,
             FmHeldAt, FmFresh, FmFreshCall, FmFreshSup, FmSilent, FmSilentNow, FmSilentEver,
             FmSilentYield, FmQuiet, FmLetting, FmWatched, FmFailing, FmStopPcs, FmLetPcs, FmMons,
             FmMonPcs
    <3>3. FmSilentYield'
      BY <1>0, <2>10, <2>12, <2>26, <2>27, <2>28a
         DEF FmFlags, FmNumbers, FmTypes, FmPlaces, FmGroupPlaced, FmPlaced, FmTurns, FmHeld,
             FmHeldAt, FmFresh, FmFreshCall, FmFreshSup, FmSilent, FmSilentNow, FmSilentEver,
             FmSilentYield, FmQuiet, FmLetting, FmWatched, FmFailing, FmStopPcs, FmLetPcs, FmMons,
             FmMonPcs
    <3>4. QED
      BY <3>1, <3>2, <3>3 DEF FmSilent
  <2>41. FmGranted'
    BY <1>0, <2>10, <2>12, <2>26, <2>27, <2>28a
       DEF FmFlags, FmNumbers, FmTypes, FmPlaces, FmGroupPlaced, FmPlaced, FmTurns, FmHeld,
           FmHeldAt, FmFresh, FmFreshCall, FmFreshSup, FmSilent, FmSilentNow, FmSilentEver,
           FmSilentYield, FmQuiet, FmLetting, FmWatched, FmGranted, FmFailing, FmStopPcs, FmLetPcs
  <2>60. QED
    BY <2>30, <2>31, <2>32, <2>33, <2>34, <2>35, <2>36, <2>37, <2>38, <2>39, <2>40, <2>41
       DEF FmTypes
<1>24. ASSUME NEW g \in FmRuns, Suspends(g) PROVE FmInv'
  <2>10. FmOp' = FmOp /\ FmSch' = FmSch
    BY <1>0, <1>24 DEF Suspends, FmMonTo, fmPlayer, FmOp, FmSch
  <2>12. \A h \in FmRuns : fmMon'[h] = IF h = g THEN IF fmSlot = "gone" THEN "exhaust" ELSE "schedule" ELSE fmMon[h]
    BY <1>0, <1>24, <2>10 DEF Suspends, FmMonTo, fmPlayer, FmMons, FmTypes
  <2>26. UNCHANGED <<fmActive, fmPlaying, fmGen, fmGroup, fmOpen, fmSup, fmRetry>>
    BY <1>0, <1>24, <2>10, <2>12 DEF Suspends, FmMonTo, fmPlayer, FmSups, FmMons
  <2>27. fmMon[g] = "failed" /\ fmDongle' = FALSE
    BY <1>0, <1>24, <2>10, <2>12
       DEF Suspends, FmMonTo, fmPlayer, FmSch, FmOp, FmTypes, FmSups, FmMons, FmFlags
  <2>30. FmFlags'
    BY <1>0, <1>24, <2>10, <2>12 DEF Suspends, FmMonTo, fmPlayer, FmFlags, FmTypes
  <2>31. FmNumbers'
    BY <1>0, <1>24, <2>10, <2>12 DEF Suspends, FmMonTo, fmPlayer, FmNumbers, FmTypes, FmRetryType
  <2>32. FmSups'
    BY <1>0, <1>24, <2>10, <2>12 DEF Suspends, FmMonTo, fmPlayer, FmSups, FmTypes, FmSupPcs
  <2>33. FmMons'
    BY <1>0, <1>24, <2>10, <2>12
       DEF Suspends, FmMonTo, fmPlayer, FmMons, FmTypes, FmMonPcs, FmFailing
  <2>34. FmCalls'
    BY <1>0, <1>24, <2>10, <2>12
       DEF Suspends, FmMonTo, fmPlayer, FmCalls, FmTypes, FmOpPcs, FmSchPcs, FmStopPcs
  <2>35. FmBudget'
    <3>1. FmOpDue' = FmOpDue /\ FmSchDue' = FmSchDue /\ FmStopDue' = FmStopDue /\ fmGen' = fmGen /\ fmRetry'.epoch = fmRetry.epoch
      BY <1>0, <1>24, <2>10, <2>12
         DEF Suspends, FmMonTo, fmPlayer, FmTypes, FmFlags, FmNumbers, FmRetryType, FmOpDue,
             FmSchDue, FmStopDue
    <3>2. FmOpDue \in {0, 1} /\ FmSchDue \in {0, 1} /\ FmStopDue \in {0, 1} /\ fmRetry.epoch \in Nat
      BY FmNats DEF FmOpDue, FmSchDue, FmStopDue, FmTypes, FmNumbers, FmRetryType
    <3>3. fmGen' + FmOpDue' + FmSchDue' + FmStopDue' <= FmGens + fmRetry'.epoch + 3
      BY <1>00, <3>1, <3>2 DEF FmBudget
    <3>4. QED
      BY <3>3 DEF FmBudget
  <2>36. FmPlaces'
    <3>1. FmGroupPlaced'
      BY <1>0, <2>10, <2>12, <2>26, <2>27
         DEF FmFlags, FmNumbers, FmTypes, FmPlaces, FmGroupPlaced, FmPlaced, FmHeld, FmHeldAt,
             FmTurns, FmFailing, FmLetPcs
    <3>2. ASSUME NEW h \in FmRuns PROVE FmPlaced(h)'
      <4>1. FmPlaced(h) /\ FmHeldAt(h) /\ h \in Nat /\ h # 0
        BY <1>0 DEF FmPlaces, FmHeld
      <4>3. h > fmGen' => h > fmGen
        BY <4>1, <1>00, <2>26, <2>27
      <4>2. QED
        BY <1>00, <2>10, <2>12, <2>26, <2>27, <4>1, <4>3
           DEF FmPlaced, FmHeldAt, FmFailing, FmStopping, FmLetPcs, FmTurns, FmTypes, FmNumbers
    <3>3. QED
      BY <3>1, <3>2 DEF FmPlaces
  <2>37. FmTurns'
    BY <1>0, <2>10, <2>12, <2>26, <2>27
       DEF FmFlags, FmNumbers, FmTypes, FmCalls, FmPlaces, FmGroupPlaced, FmPlaced, FmTurns,
           FmFresh, FmFreshCall, FmFreshSup, FmHeld, FmHeldAt, FmStopPcs, FmLetPcs, FmOpPcs,
           FmSchPcs
  <2>38. FmHeld'
    <3>1. ASSUME NEW h \in FmRuns PROVE FmHeldAt(h)'
      <4>1. FmPlaced(h) /\ FmHeldAt(h) /\ h \in Nat /\ h # 0
        BY <1>0 DEF FmPlaces, FmHeld
      <4>3. h > fmGen' => h > fmGen
        BY <4>1, <1>00, <2>26, <2>27
      <4>2. QED
        BY <1>00, <2>10, <2>12, <2>26, <2>27, <4>1, <4>3
           DEF FmPlaced, FmHeldAt, FmFailing, FmStopping, FmQuiet, FmFresh, FmFreshSup, FmTypes,
               FmNumbers
    <3>2. QED
      BY <3>1 DEF FmHeld
  <2>39. FmFresh'
    <3>1. FmFreshCall'
      BY <1>0, <2>10, <2>12, <2>26, <2>27
         DEF FmFlags, FmNumbers, FmTypes, FmPlaces, FmGroupPlaced, FmPlaced, FmTurns, FmHeld,
             FmHeldAt, FmFresh, FmFreshCall, FmFreshSup, FmSilent, FmSilentNow, FmSilentEver,
             FmSilentYield, FmQuiet, FmLetting, FmStopping, FmFailing, FmStopPcs, FmLetPcs, FmMons,
             FmMonPcs
    <3>2. FmFreshSup'
      BY <1>0, <2>10, <2>12, <2>26, <2>27
         DEF FmFlags, FmNumbers, FmTypes, FmPlaces, FmGroupPlaced, FmPlaced, FmTurns, FmHeld,
             FmHeldAt, FmFresh, FmFreshCall, FmFreshSup, FmSilent, FmSilentNow, FmSilentEver,
             FmSilentYield, FmQuiet, FmLetting, FmStopping, FmFailing, FmStopPcs, FmLetPcs, FmMons,
             FmMonPcs
    <3>3. QED
      BY <3>1, <3>2 DEF FmFresh
  <2>40. FmSilent'
    <3>1. FmSilentNow'
      BY <1>0, <2>10, <2>12, <2>26, <2>27
         DEF FmFlags, FmNumbers, FmTypes, FmPlaces, FmGroupPlaced, FmPlaced, FmTurns, FmHeld,
             FmHeldAt, FmFresh, FmFreshCall, FmFreshSup, FmSilent, FmSilentNow, FmSilentEver,
             FmSilentYield, FmQuiet, FmLetting, FmWatched, FmFailing, FmStopPcs, FmLetPcs, FmMons,
             FmMonPcs
    <3>2. FmSilentEver'
      BY <1>0, <2>10, <2>12, <2>26, <2>27
         DEF FmFlags, FmNumbers, FmTypes, FmPlaces, FmGroupPlaced, FmPlaced, FmTurns, FmHeld,
             FmHeldAt, FmFresh, FmFreshCall, FmFreshSup, FmSilent, FmSilentNow, FmSilentEver,
             FmSilentYield, FmQuiet, FmLetting, FmWatched, FmFailing, FmStopPcs, FmLetPcs, FmMons,
             FmMonPcs
    <3>3. FmSilentYield'
      BY <1>0, <2>10, <2>12, <2>26, <2>27
         DEF FmFlags, FmNumbers, FmTypes, FmPlaces, FmGroupPlaced, FmPlaced, FmTurns, FmHeld,
             FmHeldAt, FmFresh, FmFreshCall, FmFreshSup, FmSilent, FmSilentNow, FmSilentEver,
             FmSilentYield, FmQuiet, FmLetting, FmWatched, FmFailing, FmStopPcs, FmLetPcs, FmMons,
             FmMonPcs
    <3>4. QED
      BY <3>1, <3>2, <3>3 DEF FmSilent
  <2>41. FmGranted'
    BY <1>0, <2>10, <2>12, <2>26, <2>27
       DEF FmFlags, FmNumbers, FmTypes, FmPlaces, FmGroupPlaced, FmPlaced, FmTurns, FmHeld,
           FmHeldAt, FmFresh, FmFreshCall, FmFreshSup, FmSilent, FmSilentNow, FmSilentEver,
           FmSilentYield, FmQuiet, FmLetting, FmWatched, FmGranted, FmFailing, FmStopPcs, FmLetPcs
  <2>60. QED
    BY <2>30, <2>31, <2>32, <2>33, <2>34, <2>35, <2>36, <2>37, <2>38, <2>39, <2>40, <2>41
       DEF FmTypes
<1>25. ASSUME NEW g \in FmRuns, SchedulesRetry(g) PROVE FmInv'
  <2>10. FmOp' = FmOp /\ FmSch' = FmSch
    BY <1>0, <1>25
       DEF SchedulesRetry, FmMonTo, HookEnds, Invalidates, SchedulesRetryOf, SupTo, FmOp, FmSch
  <2>09. fmGen + 1 \in FmRuns /\ fmRetry'.epoch = fmRetry.epoch + 1
    BY <1>0, <1>25, <2>10
       DEF SchedulesRetry, FmMonTo, HookEnds, Invalidates, SchedulesRetryOf, SupTo, FmNumbers,
           FmTypes, FmRetryType
  <2>12. \A h \in FmRuns : fmMon'[h] = IF h = g THEN "none" ELSE fmMon[h]
    BY <1>0, <1>25, <2>10, <2>09
       DEF SchedulesRetry, FmMonTo, HookEnds, Invalidates, SchedulesRetryOf, SupTo, FmMons, FmTypes
  <2>11. \A h \in FmRuns : fmSup'[h] = IF h = g THEN IF fmSup[g] = "handler" THEN "end" ELSE fmSup[g] ELSE fmSup[h]
    BY <1>0, <1>25, <2>10, <2>09, <2>12
       DEF SchedulesRetry, FmMonTo, HookEnds, Invalidates, SchedulesRetryOf, SupTo, FmSups, FmTypes
  <2>19. fmGen + 1 \in FmRuns /\ fmSup[fmGen + 1] = "none" /\ fmMon[fmGen + 1] = "none" /\ fmGen + 1 # fmGroup /\ fmGen + 1 \notin fmOpen
    BY <1>0, <1>25, <2>10, <2>09, <2>12, <2>11, <1>01
       DEF SchedulesRetry, FmMonTo, HookEnds, Invalidates, SchedulesRetryOf, SupTo
  <2>26. UNCHANGED <<fmActive, fmDongle, fmSlot, fmOpen>>
    BY <1>0, <1>25, <2>10, <2>09, <2>12, <2>11, <2>19
       DEF SchedulesRetry, FmMonTo, HookEnds, Invalidates, SchedulesRetryOf, SupTo, FmSups, FmMons
  <2>27. fmMon[g] = "schedule" /\ fmGroup' = 0 /\ fmPlaying' = FALSE /\ fmGen' = fmGen + 1
    BY <1>0, <1>25, <2>10, <2>09, <2>12, <2>11, <2>19
       DEF SchedulesRetry, FmMonTo, HookEnds, Invalidates, SchedulesRetryOf, SupTo, FmSch, FmOp,
           FmTypes, FmSups, FmMons, FmFlags
  <2>28a. fmSup'[g] # "handler" /\ fmMon'[g] = "none" /\ g \notin fmOpen
    BY <1>0, <2>10, <2>09, <2>12, <2>11, <2>19, <2>26, <2>27 DEF FmPlaces, FmPlaced, FmTypes
  <2>28b. \A h \in FmRuns : h # g => fmSup'[h] = fmSup[h] /\ fmMon'[h] = fmMon[h]
    BY <1>0, <2>10, <2>09, <2>12, <2>11, <2>19, <2>26, <2>27, <2>28a DEF FmTypes
  <2>28c. fmGroup = 0 \/ fmGroup = g
    BY <1>0, <2>10, <2>09, <2>12, <2>11, <2>19, <2>26, <2>27, <2>28a, <2>28b
       DEF FmHeld, FmHeldAt, FmFailing
  <2>30. FmFlags'
    BY <1>0, <1>25, <2>10, <2>09, <2>12, <2>11, <2>19
       DEF SchedulesRetry, FmMonTo, HookEnds, Invalidates, SchedulesRetryOf, SupTo, FmFlags, FmTypes
  <2>31. FmNumbers'
    BY <1>0, <1>25, <2>10, <2>09, <2>12, <2>11, <2>19
       DEF SchedulesRetry, FmMonTo, HookEnds, Invalidates, SchedulesRetryOf, SupTo, FmNumbers,
           FmTypes, FmRetryType
  <2>32. FmSups'
    BY <1>0, <1>25, <2>10, <2>09, <2>12, <2>11, <2>19
       DEF SchedulesRetry, FmMonTo, HookEnds, Invalidates, SchedulesRetryOf, SupTo, FmSups, FmTypes,
           FmSupPcs
  <2>33. FmMons'
    BY <1>0, <1>25, <2>10, <2>09, <2>12, <2>11, <2>19
       DEF SchedulesRetry, FmMonTo, HookEnds, Invalidates, SchedulesRetryOf, SupTo, FmMons, FmTypes,
           FmMonPcs, FmFailing
  <2>34. FmCalls'
    BY <1>0, <1>25, <2>10, <2>09, <2>12, <2>11, <2>19
       DEF SchedulesRetry, FmMonTo, HookEnds, Invalidates, SchedulesRetryOf, SupTo, FmCalls,
           FmTypes, FmOpPcs, FmSchPcs, FmStopPcs
  <2>35. FmBudget'
    <3>1. FmOpDue' = FmOpDue /\ FmSchDue' = FmSchDue /\ FmStopDue' = FmStopDue /\ fmGen' = fmGen + 1 /\ fmRetry'.epoch = fmRetry.epoch + 1
      BY <1>0, <1>25, <2>10, <2>09, <2>12, <2>11, <2>19
         DEF SchedulesRetry, FmMonTo, HookEnds, Invalidates, SchedulesRetryOf, SupTo, FmTypes,
             FmFlags, FmNumbers, FmRetryType, FmOpDue, FmSchDue, FmStopDue
    <3>2. FmOpDue \in {0, 1} /\ FmSchDue \in {0, 1} /\ FmStopDue \in {0, 1} /\ fmRetry.epoch \in Nat
      BY FmNats DEF FmOpDue, FmSchDue, FmStopDue, FmTypes, FmNumbers, FmRetryType
    <3>3. fmGen' + FmOpDue' + FmSchDue' + FmStopDue' <= FmGens + fmRetry'.epoch + 3
      BY <1>00, <3>1, <3>2 DEF FmBudget
    <3>4. QED
      BY <3>3 DEF FmBudget
  <2>36. FmPlaces'
    <3>1. FmGroupPlaced'
      BY <1>0, <2>10, <2>09, <2>12, <2>11, <2>19, <2>26, <2>27, <2>28a, <2>28b, <2>28c
         DEF FmFlags, FmNumbers, FmTypes, FmPlaces, FmGroupPlaced, FmPlaced, FmHeld, FmHeldAt,
             FmTurns, FmFailing, FmLetPcs
    <3>2. ASSUME NEW h \in FmRuns PROVE FmPlaced(h)'
      <4>1. FmPlaced(h) /\ FmHeldAt(h) /\ h \in Nat /\ h # 0
        BY <1>0 DEF FmPlaces, FmHeld
      <4>3. h > fmGen' => h > fmGen
        BY <4>1, <1>00, <2>26, <2>27
      <4>4. CASE h = g
        <5>1. fmSup[g] # "none"
          BY <2>27, <4>1, <4>4 DEF FmPlaced
        <5>2. ~(h > fmGen')
          BY <4>1, <4>3, <4>4, <5>1 DEF FmPlaced
        <5>3. QED
          BY <2>26, <2>28a, <4>4, <5>2 DEF FmPlaced, FmFailing, FmTypes
      <4>5. CASE h # g
        BY <2>26, <2>28b, <4>1, <4>3, <4>5 DEF FmPlaced, FmFailing, FmTypes
      <4>2. QED
        BY <4>4, <4>5
    <3>3. QED
      BY <3>1, <3>2 DEF FmPlaces
  <2>37. FmTurns'
    BY <1>0, <2>10, <2>09, <2>12, <2>11, <2>19, <2>26, <2>27, <2>28a, <2>28b, <2>28c
       DEF FmFlags, FmNumbers, FmTypes, FmCalls, FmPlaces, FmGroupPlaced, FmPlaced, FmTurns,
           FmFresh, FmFreshCall, FmFreshSup, FmHeld, FmHeldAt, FmStopPcs, FmLetPcs, FmOpPcs,
           FmSchPcs
  <2>38. FmHeld'
    <3>1. ASSUME NEW h \in FmRuns PROVE FmHeldAt(h)'
      <4>1. FmPlaced(h) /\ FmHeldAt(h) /\ h \in Nat /\ h # 0
        BY <1>0 DEF FmPlaces, FmHeld
      <4>3. h > fmGen' => h > fmGen
        BY <4>1, <1>00, <2>26, <2>27
      <4>2. QED
        BY <1>00, <2>10, <2>12, <2>11, <2>19, <2>26, <2>27, <2>28a, <2>28b, <2>28c, <4>1, <4>3
           DEF FmPlaced, FmHeldAt, FmFailing, FmStopping, FmQuiet, FmFresh, FmFreshSup, FmTypes,
               FmNumbers
    <3>2. QED
      BY <3>1 DEF FmHeld
  <2>39. FmFresh'
    <3>1. FmFreshCall'
      BY <1>0, <2>10, <2>09, <2>12, <2>11, <2>19, <2>26, <2>27, <2>28a, <2>28b, <2>28c
         DEF FmFlags, FmNumbers, FmTypes, FmPlaces, FmGroupPlaced, FmPlaced, FmTurns, FmHeld,
             FmHeldAt, FmFresh, FmFreshCall, FmFreshSup, FmSilent, FmSilentNow, FmSilentEver,
             FmSilentYield, FmQuiet, FmLetting, FmStopping, FmFailing, FmStopPcs, FmLetPcs, FmMons,
             FmMonPcs
    <3>2. FmFreshSup'
      BY <1>0, <2>10, <2>09, <2>12, <2>11, <2>19, <2>26, <2>27, <2>28a, <2>28b, <2>28c
         DEF FmFlags, FmNumbers, FmTypes, FmPlaces, FmGroupPlaced, FmPlaced, FmTurns, FmHeld,
             FmHeldAt, FmFresh, FmFreshCall, FmFreshSup, FmSilent, FmSilentNow, FmSilentEver,
             FmSilentYield, FmQuiet, FmLetting, FmStopping, FmFailing, FmStopPcs, FmLetPcs, FmMons,
             FmMonPcs
    <3>3. QED
      BY <3>1, <3>2 DEF FmFresh
  <2>40. FmSilent'
    <3>1. FmSilentNow'
      BY <1>0, <2>10, <2>09, <2>12, <2>11, <2>19, <2>26, <2>27, <2>28a, <2>28b, <2>28c
         DEF FmFlags, FmNumbers, FmTypes, FmPlaces, FmGroupPlaced, FmPlaced, FmTurns, FmHeld,
             FmHeldAt, FmFresh, FmFreshCall, FmFreshSup, FmSilent, FmSilentNow, FmSilentEver,
             FmSilentYield, FmQuiet, FmLetting, FmWatched, FmFailing, FmStopPcs, FmLetPcs, FmMons,
             FmMonPcs
    <3>2. FmSilentEver'
      BY <1>0, <2>10, <2>09, <2>12, <2>11, <2>19, <2>26, <2>27, <2>28a, <2>28b, <2>28c
         DEF FmFlags, FmNumbers, FmTypes, FmPlaces, FmGroupPlaced, FmPlaced, FmTurns, FmHeld,
             FmHeldAt, FmFresh, FmFreshCall, FmFreshSup, FmSilent, FmSilentNow, FmSilentEver,
             FmSilentYield, FmQuiet, FmLetting, FmWatched, FmFailing, FmStopPcs, FmLetPcs, FmMons,
             FmMonPcs
    <3>3. FmSilentYield'
      BY <1>0, <2>10, <2>09, <2>12, <2>11, <2>19, <2>26, <2>27, <2>28a, <2>28b, <2>28c
         DEF FmFlags, FmNumbers, FmTypes, FmPlaces, FmGroupPlaced, FmPlaced, FmTurns, FmHeld,
             FmHeldAt, FmFresh, FmFreshCall, FmFreshSup, FmSilent, FmSilentNow, FmSilentEver,
             FmSilentYield, FmQuiet, FmLetting, FmWatched, FmFailing, FmStopPcs, FmLetPcs, FmMons,
             FmMonPcs
    <3>4. QED
      BY <3>1, <3>2, <3>3 DEF FmSilent
  <2>41. FmGranted'
    BY <1>0, <2>10, <2>09, <2>12, <2>11, <2>19, <2>26, <2>27, <2>28a, <2>28b, <2>28c
       DEF FmFlags, FmNumbers, FmTypes, FmPlaces, FmGroupPlaced, FmPlaced, FmTurns, FmHeld,
           FmHeldAt, FmFresh, FmFreshCall, FmFreshSup, FmSilent, FmSilentNow, FmSilentEver,
           FmSilentYield, FmQuiet, FmLetting, FmWatched, FmGranted, FmFailing, FmStopPcs, FmLetPcs
  <2>60. QED
    BY <2>30, <2>31, <2>32, <2>33, <2>34, <2>35, <2>36, <2>37, <2>38, <2>39, <2>40, <2>41
       DEF FmTypes
<1>26. ASSUME NEW g \in FmRuns, RefusesRetry(g) PROVE FmInv'
  <2>10. FmOp' = FmOp /\ FmSch' = FmSch
    BY <1>0, <1>26 DEF RefusesRetry, FmMonTo, fmPlayer, FmOp, FmSch
  <2>12. \A h \in FmRuns : fmMon'[h] = IF h = g THEN "exhaust" ELSE fmMon[h]
    BY <1>0, <1>26, <2>10 DEF RefusesRetry, FmMonTo, fmPlayer, FmMons, FmTypes
  <2>26. UNCHANGED <<fmActive, fmDongle, fmSlot, fmPlaying, fmGen, fmGroup, fmOpen, fmSup, fmRetry>>
    BY <1>0, <1>26, <2>10, <2>12 DEF RefusesRetry, FmMonTo, fmPlayer, FmSups, FmMons
  <2>27. fmMon[g] = "schedule"
    BY <1>0, <1>26, <2>10, <2>12
       DEF RefusesRetry, FmMonTo, fmPlayer, FmSch, FmOp, FmTypes, FmSups, FmMons, FmFlags
  <2>30. FmFlags'
    BY <1>0, <1>26, <2>10, <2>12 DEF RefusesRetry, FmMonTo, fmPlayer, FmFlags, FmTypes
  <2>31. FmNumbers'
    BY <1>0, <1>26, <2>10, <2>12
       DEF RefusesRetry, FmMonTo, fmPlayer, FmNumbers, FmTypes, FmRetryType
  <2>32. FmSups'
    BY <1>0, <1>26, <2>10, <2>12 DEF RefusesRetry, FmMonTo, fmPlayer, FmSups, FmTypes, FmSupPcs
  <2>33. FmMons'
    BY <1>0, <1>26, <2>10, <2>12
       DEF RefusesRetry, FmMonTo, fmPlayer, FmMons, FmTypes, FmMonPcs, FmFailing
  <2>34. FmCalls'
    BY <1>0, <1>26, <2>10, <2>12
       DEF RefusesRetry, FmMonTo, fmPlayer, FmCalls, FmTypes, FmOpPcs, FmSchPcs, FmStopPcs
  <2>35. FmBudget'
    <3>1. FmOpDue' = FmOpDue /\ FmSchDue' = FmSchDue /\ FmStopDue' = FmStopDue /\ fmGen' = fmGen /\ fmRetry'.epoch = fmRetry.epoch
      BY <1>0, <1>26, <2>10, <2>12
         DEF RefusesRetry, FmMonTo, fmPlayer, FmTypes, FmFlags, FmNumbers, FmRetryType, FmOpDue,
             FmSchDue, FmStopDue
    <3>2. FmOpDue \in {0, 1} /\ FmSchDue \in {0, 1} /\ FmStopDue \in {0, 1} /\ fmRetry.epoch \in Nat
      BY FmNats DEF FmOpDue, FmSchDue, FmStopDue, FmTypes, FmNumbers, FmRetryType
    <3>3. fmGen' + FmOpDue' + FmSchDue' + FmStopDue' <= FmGens + fmRetry'.epoch + 3
      BY <1>00, <3>1, <3>2 DEF FmBudget
    <3>4. QED
      BY <3>3 DEF FmBudget
  <2>36. FmPlaces'
    <3>1. FmGroupPlaced'
      BY <1>0, <2>10, <2>12, <2>26, <2>27
         DEF FmFlags, FmNumbers, FmTypes, FmPlaces, FmGroupPlaced, FmPlaced, FmHeld, FmHeldAt,
             FmTurns, FmFailing, FmLetPcs
    <3>2. ASSUME NEW h \in FmRuns PROVE FmPlaced(h)'
      <4>1. FmPlaced(h) /\ FmHeldAt(h) /\ h \in Nat /\ h # 0
        BY <1>0 DEF FmPlaces, FmHeld
      <4>3. h > fmGen' => h > fmGen
        BY <4>1, <1>00, <2>26, <2>27
      <4>2. QED
        BY <1>00, <2>10, <2>12, <2>26, <2>27, <4>1, <4>3
           DEF FmPlaced, FmHeldAt, FmFailing, FmStopping, FmLetPcs, FmTurns, FmTypes, FmNumbers
    <3>3. QED
      BY <3>1, <3>2 DEF FmPlaces
  <2>37. FmTurns'
    BY <1>0, <2>10, <2>12, <2>26, <2>27
       DEF FmFlags, FmNumbers, FmTypes, FmCalls, FmPlaces, FmGroupPlaced, FmPlaced, FmTurns,
           FmFresh, FmFreshCall, FmFreshSup, FmHeld, FmHeldAt, FmStopPcs, FmLetPcs, FmOpPcs,
           FmSchPcs
  <2>38. FmHeld'
    <3>1. ASSUME NEW h \in FmRuns PROVE FmHeldAt(h)'
      <4>1. FmPlaced(h) /\ FmHeldAt(h) /\ h \in Nat /\ h # 0
        BY <1>0 DEF FmPlaces, FmHeld
      <4>3. h > fmGen' => h > fmGen
        BY <4>1, <1>00, <2>26, <2>27
      <4>2. QED
        BY <1>00, <2>10, <2>12, <2>26, <2>27, <4>1, <4>3
           DEF FmPlaced, FmHeldAt, FmFailing, FmStopping, FmQuiet, FmFresh, FmFreshSup, FmTypes,
               FmNumbers
    <3>2. QED
      BY <3>1 DEF FmHeld
  <2>39. FmFresh'
    <3>1. FmFreshCall'
      BY <1>0, <2>10, <2>12, <2>26, <2>27
         DEF FmFlags, FmNumbers, FmTypes, FmPlaces, FmGroupPlaced, FmPlaced, FmTurns, FmHeld,
             FmHeldAt, FmFresh, FmFreshCall, FmFreshSup, FmSilent, FmSilentNow, FmSilentEver,
             FmSilentYield, FmQuiet, FmLetting, FmStopping, FmFailing, FmStopPcs, FmLetPcs, FmMons,
             FmMonPcs
    <3>2. FmFreshSup'
      BY <1>0, <2>10, <2>12, <2>26, <2>27
         DEF FmFlags, FmNumbers, FmTypes, FmPlaces, FmGroupPlaced, FmPlaced, FmTurns, FmHeld,
             FmHeldAt, FmFresh, FmFreshCall, FmFreshSup, FmSilent, FmSilentNow, FmSilentEver,
             FmSilentYield, FmQuiet, FmLetting, FmStopping, FmFailing, FmStopPcs, FmLetPcs, FmMons,
             FmMonPcs
    <3>3. QED
      BY <3>1, <3>2 DEF FmFresh
  <2>40. FmSilent'
    <3>1. FmSilentNow'
      BY <1>0, <2>10, <2>12, <2>26, <2>27
         DEF FmFlags, FmNumbers, FmTypes, FmPlaces, FmGroupPlaced, FmPlaced, FmTurns, FmHeld,
             FmHeldAt, FmFresh, FmFreshCall, FmFreshSup, FmSilent, FmSilentNow, FmSilentEver,
             FmSilentYield, FmQuiet, FmLetting, FmWatched, FmFailing, FmStopPcs, FmLetPcs, FmMons,
             FmMonPcs
    <3>2. FmSilentEver'
      BY <1>0, <2>10, <2>12, <2>26, <2>27
         DEF FmFlags, FmNumbers, FmTypes, FmPlaces, FmGroupPlaced, FmPlaced, FmTurns, FmHeld,
             FmHeldAt, FmFresh, FmFreshCall, FmFreshSup, FmSilent, FmSilentNow, FmSilentEver,
             FmSilentYield, FmQuiet, FmLetting, FmWatched, FmFailing, FmStopPcs, FmLetPcs, FmMons,
             FmMonPcs
    <3>3. FmSilentYield'
      BY <1>0, <2>10, <2>12, <2>26, <2>27
         DEF FmFlags, FmNumbers, FmTypes, FmPlaces, FmGroupPlaced, FmPlaced, FmTurns, FmHeld,
             FmHeldAt, FmFresh, FmFreshCall, FmFreshSup, FmSilent, FmSilentNow, FmSilentEver,
             FmSilentYield, FmQuiet, FmLetting, FmWatched, FmFailing, FmStopPcs, FmLetPcs, FmMons,
             FmMonPcs
    <3>4. QED
      BY <3>1, <3>2, <3>3 DEF FmSilent
  <2>41. FmGranted'
    BY <1>0, <2>10, <2>12, <2>26, <2>27
       DEF FmFlags, FmNumbers, FmTypes, FmPlaces, FmGroupPlaced, FmPlaced, FmTurns, FmHeld,
           FmHeldAt, FmFresh, FmFreshCall, FmFreshSup, FmSilent, FmSilentNow, FmSilentEver,
           FmSilentYield, FmQuiet, FmLetting, FmWatched, FmGranted, FmFailing, FmStopPcs, FmLetPcs
  <2>60. QED
    BY <2>30, <2>31, <2>32, <2>33, <2>34, <2>35, <2>36, <2>37, <2>38, <2>39, <2>40, <2>41
       DEF FmTypes
<1>27. ASSUME NEW g \in FmRuns, FmExhausted(g) PROVE FmInv'
  <2>10. FmOp' = FmOp /\ FmSch' = FmSch
    BY <1>0, <1>27 DEF FmExhausted, FmMonTo, HookEnds, SupTo, FmOp, FmSch
  <2>12. \A h \in FmRuns : fmMon'[h] = IF h = g THEN "none" ELSE fmMon[h]
    BY <1>0, <1>27, <2>10 DEF FmExhausted, FmMonTo, HookEnds, SupTo, FmMons, FmTypes
  <2>11. \A h \in FmRuns : fmSup'[h] = IF h = g THEN IF fmSup[g] = "handler" THEN "end" ELSE fmSup[g] ELSE fmSup[h]
    BY <1>0, <1>27, <2>10, <2>12 DEF FmExhausted, FmMonTo, HookEnds, SupTo, FmSups, FmTypes
  <2>26. UNCHANGED <<fmActive, fmGen, fmGroup, fmOpen, fmRetry>>
    BY <1>0, <1>27, <2>10, <2>12, <2>11 DEF FmExhausted, FmMonTo, HookEnds, SupTo, FmSups, FmMons
  <2>27. fmMon[g] = "exhaust" /\ fmPlaying' = FALSE /\ fmDongle' = FALSE
    BY <1>0, <1>27, <2>10, <2>12, <2>11
       DEF FmExhausted, FmMonTo, HookEnds, SupTo, FmSch, FmOp, FmTypes, FmSups, FmMons, FmFlags
  <2>30. FmFlags'
    BY <1>0, <1>27, <2>10, <2>12, <2>11 DEF FmExhausted, FmMonTo, HookEnds, SupTo, FmFlags, FmTypes
  <2>31. FmNumbers'
    BY <1>0, <1>27, <2>10, <2>12, <2>11
       DEF FmExhausted, FmMonTo, HookEnds, SupTo, FmNumbers, FmTypes, FmRetryType
  <2>32. FmSups'
    BY <1>0, <1>27, <2>10, <2>12, <2>11
       DEF FmExhausted, FmMonTo, HookEnds, SupTo, FmSups, FmTypes, FmSupPcs
  <2>33. FmMons'
    BY <1>0, <1>27, <2>10, <2>12, <2>11
       DEF FmExhausted, FmMonTo, HookEnds, SupTo, FmMons, FmTypes, FmMonPcs, FmFailing
  <2>34. FmCalls'
    BY <1>0, <1>27, <2>10, <2>12, <2>11
       DEF FmExhausted, FmMonTo, HookEnds, SupTo, FmCalls, FmTypes, FmOpPcs, FmSchPcs, FmStopPcs
  <2>35. FmBudget'
    <3>1. FmOpDue' = FmOpDue /\ FmSchDue' = FmSchDue /\ FmStopDue' = FmStopDue /\ fmGen' = fmGen /\ fmRetry'.epoch = fmRetry.epoch
      BY <1>0, <1>27, <2>10, <2>12, <2>11
         DEF FmExhausted, FmMonTo, HookEnds, SupTo, FmTypes, FmFlags, FmNumbers, FmRetryType,
             FmOpDue, FmSchDue, FmStopDue
    <3>2. FmOpDue \in {0, 1} /\ FmSchDue \in {0, 1} /\ FmStopDue \in {0, 1} /\ fmRetry.epoch \in Nat
      BY FmNats DEF FmOpDue, FmSchDue, FmStopDue, FmTypes, FmNumbers, FmRetryType
    <3>3. fmGen' + FmOpDue' + FmSchDue' + FmStopDue' <= FmGens + fmRetry'.epoch + 3
      BY <1>00, <3>1, <3>2 DEF FmBudget
    <3>4. QED
      BY <3>3 DEF FmBudget
  <2>36. FmPlaces'
    <3>1. FmGroupPlaced'
      BY <1>0, <2>10, <2>12, <2>11, <2>26, <2>27
         DEF FmFlags, FmNumbers, FmTypes, FmPlaces, FmGroupPlaced, FmPlaced, FmHeld, FmHeldAt,
             FmTurns, FmFailing, FmLetPcs
    <3>2. ASSUME NEW h \in FmRuns PROVE FmPlaced(h)'
      <4>1. FmPlaced(h) /\ FmHeldAt(h) /\ h \in Nat /\ h # 0
        BY <1>0 DEF FmPlaces, FmHeld
      <4>3. h > fmGen' => h > fmGen
        BY <4>1, <1>00, <2>26, <2>27
      <4>2. QED
        BY <1>00, <2>10, <2>12, <2>11, <2>26, <2>27, <4>1, <4>3
           DEF FmPlaced, FmHeldAt, FmFailing, FmStopping, FmLetPcs, FmTurns, FmTypes, FmNumbers
    <3>3. QED
      BY <3>1, <3>2 DEF FmPlaces
  <2>37. FmTurns'
    BY <1>0, <2>10, <2>12, <2>11, <2>26, <2>27
       DEF FmFlags, FmNumbers, FmTypes, FmCalls, FmPlaces, FmGroupPlaced, FmPlaced, FmTurns,
           FmFresh, FmFreshCall, FmFreshSup, FmHeld, FmHeldAt, FmStopPcs, FmLetPcs, FmOpPcs,
           FmSchPcs
  <2>38. FmHeld'
    <3>1. ASSUME NEW h \in FmRuns PROVE FmHeldAt(h)'
      <4>1. FmPlaced(h) /\ FmHeldAt(h) /\ h \in Nat /\ h # 0
        BY <1>0 DEF FmPlaces, FmHeld
      <4>3. h > fmGen' => h > fmGen
        BY <4>1, <1>00, <2>26, <2>27
      <4>2. QED
        BY <1>00, <2>10, <2>12, <2>11, <2>26, <2>27, <4>1, <4>3
           DEF FmPlaced, FmHeldAt, FmFailing, FmStopping, FmQuiet, FmFresh, FmFreshSup, FmTypes,
               FmNumbers
    <3>2. QED
      BY <3>1 DEF FmHeld
  <2>39. FmFresh'
    <3>1. FmFreshCall'
      BY <1>0, <2>10, <2>12, <2>11, <2>26, <2>27
         DEF FmFlags, FmNumbers, FmTypes, FmPlaces, FmGroupPlaced, FmPlaced, FmTurns, FmHeld,
             FmHeldAt, FmFresh, FmFreshCall, FmFreshSup, FmSilent, FmSilentNow, FmSilentEver,
             FmSilentYield, FmQuiet, FmLetting, FmStopping, FmFailing, FmStopPcs, FmLetPcs, FmMons,
             FmMonPcs
    <3>2. FmFreshSup'
      BY <1>0, <2>10, <2>12, <2>11, <2>26, <2>27
         DEF FmFlags, FmNumbers, FmTypes, FmPlaces, FmGroupPlaced, FmPlaced, FmTurns, FmHeld,
             FmHeldAt, FmFresh, FmFreshCall, FmFreshSup, FmSilent, FmSilentNow, FmSilentEver,
             FmSilentYield, FmQuiet, FmLetting, FmStopping, FmFailing, FmStopPcs, FmLetPcs, FmMons,
             FmMonPcs
    <3>3. QED
      BY <3>1, <3>2 DEF FmFresh
  <2>40. FmSilent'
    <3>1. FmSilentNow'
      BY <1>0, <2>10, <2>12, <2>11, <2>26, <2>27
         DEF FmFlags, FmNumbers, FmTypes, FmPlaces, FmGroupPlaced, FmPlaced, FmTurns, FmHeld,
             FmHeldAt, FmFresh, FmFreshCall, FmFreshSup, FmSilent, FmSilentNow, FmSilentEver,
             FmSilentYield, FmQuiet, FmLetting, FmWatched, FmFailing, FmStopPcs, FmLetPcs, FmMons,
             FmMonPcs
    <3>2. FmSilentEver'
      BY <1>0, <2>10, <2>12, <2>11, <2>26, <2>27
         DEF FmFlags, FmNumbers, FmTypes, FmPlaces, FmGroupPlaced, FmPlaced, FmTurns, FmHeld,
             FmHeldAt, FmFresh, FmFreshCall, FmFreshSup, FmSilent, FmSilentNow, FmSilentEver,
             FmSilentYield, FmQuiet, FmLetting, FmWatched, FmFailing, FmStopPcs, FmLetPcs, FmMons,
             FmMonPcs
    <3>3. FmSilentYield'
      BY <1>0, <2>10, <2>12, <2>11, <2>26, <2>27
         DEF FmFlags, FmNumbers, FmTypes, FmPlaces, FmGroupPlaced, FmPlaced, FmTurns, FmHeld,
             FmHeldAt, FmFresh, FmFreshCall, FmFreshSup, FmSilent, FmSilentNow, FmSilentEver,
             FmSilentYield, FmQuiet, FmLetting, FmWatched, FmFailing, FmStopPcs, FmLetPcs, FmMons,
             FmMonPcs
    <3>4. QED
      BY <3>1, <3>2, <3>3 DEF FmSilent
  <2>41. FmGranted'
    BY <1>0, <2>10, <2>12, <2>11, <2>26, <2>27
       DEF FmFlags, FmNumbers, FmTypes, FmPlaces, FmGroupPlaced, FmPlaced, FmTurns, FmHeld,
           FmHeldAt, FmFresh, FmFreshCall, FmFreshSup, FmSilent, FmSilentNow, FmSilentEver,
           FmSilentYield, FmQuiet, FmLetting, FmWatched, FmGranted, FmFailing, FmStopPcs, FmLetPcs
  <2>60. QED
    BY <2>30, <2>31, <2>32, <2>33, <2>34, <2>35, <2>36, <2>37, <2>38, <2>39, <2>40, <2>41
       DEF FmTypes
<1>28. ASSUME NEW e \in 1..FmEpochs, FmWorkerWakes(e) PROVE FmInv'
  <2>10. FmOp' = FmOp /\ FmSch' = FmSch
    BY <1>0, <1>28 DEF FmWorkerWakes, WorkerTo, fmPlayer, FmOp, FmSch
  <2>26. UNCHANGED <<fmActive, fmDongle, fmSlot, fmPlaying, fmGen, fmGroup, fmOpen, fmSup, fmMon, fmRetry>>
    BY <1>0, <1>28, <2>10 DEF FmWorkerWakes, WorkerTo, fmPlayer, FmSups, FmMons
  <2>30. FmFlags'
    BY <1>0, <1>28, <2>10 DEF FmWorkerWakes, WorkerTo, fmPlayer, FmFlags, FmTypes
  <2>31. FmNumbers'
    BY <1>0, <1>28, <2>10 DEF FmWorkerWakes, WorkerTo, fmPlayer, FmNumbers, FmTypes, FmRetryType
  <2>32. FmSups'
    BY <1>0, <1>28, <2>10 DEF FmWorkerWakes, WorkerTo, fmPlayer, FmSups, FmTypes, FmSupPcs
  <2>33. FmMons'
    BY <1>0, <1>28, <2>10
       DEF FmWorkerWakes, WorkerTo, fmPlayer, FmMons, FmTypes, FmMonPcs, FmFailing
  <2>34. FmCalls'
    BY <1>0, <1>28, <2>10
       DEF FmWorkerWakes, WorkerTo, fmPlayer, FmCalls, FmTypes, FmOpPcs, FmSchPcs, FmStopPcs
  <2>35. FmBudget'
    <3>1. FmOpDue' = FmOpDue /\ FmSchDue' = FmSchDue /\ FmStopDue' = FmStopDue /\ fmGen' = fmGen /\ fmRetry'.epoch = fmRetry.epoch
      BY <1>0, <1>28, <2>10
         DEF FmWorkerWakes, WorkerTo, fmPlayer, FmTypes, FmFlags, FmNumbers, FmRetryType, FmOpDue,
             FmSchDue, FmStopDue
    <3>2. FmOpDue \in {0, 1} /\ FmSchDue \in {0, 1} /\ FmStopDue \in {0, 1} /\ fmRetry.epoch \in Nat
      BY FmNats DEF FmOpDue, FmSchDue, FmStopDue, FmTypes, FmNumbers, FmRetryType
    <3>3. fmGen' + FmOpDue' + FmSchDue' + FmStopDue' <= FmGens + fmRetry'.epoch + 3
      BY <1>00, <3>1, <3>2 DEF FmBudget
    <3>4. QED
      BY <3>3 DEF FmBudget
  <2>36. FmPlaces'
    <3>1. FmGroupPlaced'
      BY <1>0, <2>10, <2>26
         DEF FmFlags, FmNumbers, FmTypes, FmPlaces, FmGroupPlaced, FmPlaced, FmHeld, FmHeldAt,
             FmTurns, FmFailing, FmLetPcs
    <3>2. ASSUME NEW h \in FmRuns PROVE FmPlaced(h)'
      <4>1. FmPlaced(h) /\ FmHeldAt(h) /\ h \in Nat /\ h # 0
        BY <1>0 DEF FmPlaces, FmHeld
      <4>3. h > fmGen' => h > fmGen
        BY <4>1, <1>00, <2>26
      <4>2. QED
        BY <1>00, <2>10, <2>26, <4>1, <4>3
           DEF FmPlaced, FmHeldAt, FmFailing, FmStopping, FmLetPcs, FmTurns, FmTypes, FmNumbers
    <3>3. QED
      BY <3>1, <3>2 DEF FmPlaces
  <2>37. FmTurns'
    BY <1>0, <2>10, <2>26
       DEF FmFlags, FmNumbers, FmTypes, FmCalls, FmPlaces, FmGroupPlaced, FmPlaced, FmTurns,
           FmFresh, FmFreshCall, FmFreshSup, FmHeld, FmHeldAt, FmStopPcs, FmLetPcs, FmOpPcs,
           FmSchPcs
  <2>38. FmHeld'
    <3>1. ASSUME NEW h \in FmRuns PROVE FmHeldAt(h)'
      <4>1. FmPlaced(h) /\ FmHeldAt(h) /\ h \in Nat /\ h # 0
        BY <1>0 DEF FmPlaces, FmHeld
      <4>3. h > fmGen' => h > fmGen
        BY <4>1, <1>00, <2>26
      <4>2. QED
        BY <1>00, <2>10, <2>26, <4>1, <4>3
           DEF FmPlaced, FmHeldAt, FmFailing, FmStopping, FmQuiet, FmFresh, FmFreshSup, FmTypes,
               FmNumbers
    <3>2. QED
      BY <3>1 DEF FmHeld
  <2>39. FmFresh'
    <3>1. FmFreshCall'
      BY <1>0, <2>10, <2>26
         DEF FmFlags, FmNumbers, FmTypes, FmPlaces, FmGroupPlaced, FmPlaced, FmTurns, FmHeld,
             FmHeldAt, FmFresh, FmFreshCall, FmFreshSup, FmSilent, FmSilentNow, FmSilentEver,
             FmSilentYield, FmQuiet, FmLetting, FmStopping, FmFailing, FmStopPcs, FmLetPcs, FmMons,
             FmMonPcs
    <3>2. FmFreshSup'
      BY <1>0, <2>10, <2>26
         DEF FmFlags, FmNumbers, FmTypes, FmPlaces, FmGroupPlaced, FmPlaced, FmTurns, FmHeld,
             FmHeldAt, FmFresh, FmFreshCall, FmFreshSup, FmSilent, FmSilentNow, FmSilentEver,
             FmSilentYield, FmQuiet, FmLetting, FmStopping, FmFailing, FmStopPcs, FmLetPcs, FmMons,
             FmMonPcs
    <3>3. QED
      BY <3>1, <3>2 DEF FmFresh
  <2>40. FmSilent'
    <3>1. FmSilentNow'
      BY <1>0, <2>10, <2>26
         DEF FmFlags, FmNumbers, FmTypes, FmPlaces, FmGroupPlaced, FmPlaced, FmTurns, FmHeld,
             FmHeldAt, FmFresh, FmFreshCall, FmFreshSup, FmSilent, FmSilentNow, FmSilentEver,
             FmSilentYield, FmQuiet, FmLetting, FmWatched, FmFailing, FmStopPcs, FmLetPcs, FmMons,
             FmMonPcs
    <3>2. FmSilentEver'
      BY <1>0, <2>10, <2>26
         DEF FmFlags, FmNumbers, FmTypes, FmPlaces, FmGroupPlaced, FmPlaced, FmTurns, FmHeld,
             FmHeldAt, FmFresh, FmFreshCall, FmFreshSup, FmSilent, FmSilentNow, FmSilentEver,
             FmSilentYield, FmQuiet, FmLetting, FmWatched, FmFailing, FmStopPcs, FmLetPcs, FmMons,
             FmMonPcs
    <3>3. FmSilentYield'
      BY <1>0, <2>10, <2>26
         DEF FmFlags, FmNumbers, FmTypes, FmPlaces, FmGroupPlaced, FmPlaced, FmTurns, FmHeld,
             FmHeldAt, FmFresh, FmFreshCall, FmFreshSup, FmSilent, FmSilentNow, FmSilentEver,
             FmSilentYield, FmQuiet, FmLetting, FmWatched, FmFailing, FmStopPcs, FmLetPcs, FmMons,
             FmMonPcs
    <3>4. QED
      BY <3>1, <3>2, <3>3 DEF FmSilent
  <2>41. FmGranted'
    BY <1>0, <2>10, <2>26
       DEF FmFlags, FmNumbers, FmTypes, FmPlaces, FmGroupPlaced, FmPlaced, FmTurns, FmHeld,
           FmHeldAt, FmFresh, FmFreshCall, FmFreshSup, FmSilent, FmSilentNow, FmSilentEver,
           FmSilentYield, FmQuiet, FmLetting, FmWatched, FmGranted, FmFailing, FmStopPcs, FmLetPcs
  <2>60. QED
    BY <2>30, <2>31, <2>32, <2>33, <2>34, <2>35, <2>36, <2>37, <2>38, <2>39, <2>40, <2>41
       DEF FmTypes
<1>29. ASSUME NEW e \in 1..FmEpochs, WorkerResumes(e) PROVE FmInv'
  <2>10. FmOp' = FmOp /\ FmSch' = FmSch
    BY <1>0, <1>29 DEF WorkerResumes, WorkerTo, fmPlayer, FmOp, FmSch
  <2>26. UNCHANGED <<fmActive, fmDongle, fmPlaying, fmGen, fmGroup, fmOpen, fmSup, fmMon>>
    BY <1>0, <1>29, <2>10 DEF WorkerResumes, WorkerTo, fmPlayer, FmSups, FmMons
  <2>27. (fmSlot' = fmSlot \/ (fmSlot = "suspended" /\ fmSlot' = "idle"))
    BY <1>0, <1>29, <2>10
       DEF WorkerResumes, WorkerTo, fmPlayer, FmSch, FmOp, FmTypes, FmSups, FmMons, FmFlags
  <2>30. FmFlags'
    BY <1>0, <1>29, <2>10 DEF WorkerResumes, WorkerTo, fmPlayer, FmFlags, FmTypes
  <2>31. FmNumbers'
    BY <1>0, <1>29, <2>10 DEF WorkerResumes, WorkerTo, fmPlayer, FmNumbers, FmTypes, FmRetryType
  <2>32. FmSups'
    BY <1>0, <1>29, <2>10 DEF WorkerResumes, WorkerTo, fmPlayer, FmSups, FmTypes, FmSupPcs
  <2>33. FmMons'
    BY <1>0, <1>29, <2>10
       DEF WorkerResumes, WorkerTo, fmPlayer, FmMons, FmTypes, FmMonPcs, FmFailing
  <2>34. FmCalls'
    BY <1>0, <1>29, <2>10
       DEF WorkerResumes, WorkerTo, fmPlayer, FmCalls, FmTypes, FmOpPcs, FmSchPcs, FmStopPcs
  <2>35. FmBudget'
    <3>1. FmOpDue' = FmOpDue /\ FmSchDue' = FmSchDue /\ FmStopDue' = FmStopDue /\ fmGen' = fmGen /\ fmRetry'.epoch = fmRetry.epoch
      BY <1>0, <1>29, <2>10
         DEF WorkerResumes, WorkerTo, fmPlayer, FmTypes, FmFlags, FmNumbers, FmRetryType, FmOpDue,
             FmSchDue, FmStopDue
    <3>2. FmOpDue \in {0, 1} /\ FmSchDue \in {0, 1} /\ FmStopDue \in {0, 1} /\ fmRetry.epoch \in Nat
      BY FmNats DEF FmOpDue, FmSchDue, FmStopDue, FmTypes, FmNumbers, FmRetryType
    <3>3. fmGen' + FmOpDue' + FmSchDue' + FmStopDue' <= FmGens + fmRetry'.epoch + 3
      BY <1>00, <3>1, <3>2 DEF FmBudget
    <3>4. QED
      BY <3>3 DEF FmBudget
  <2>36. FmPlaces'
    <3>1. FmGroupPlaced'
      BY <1>0, <2>10, <2>26, <2>27
         DEF FmFlags, FmNumbers, FmTypes, FmPlaces, FmGroupPlaced, FmPlaced, FmHeld, FmHeldAt,
             FmTurns, FmFailing, FmLetPcs
    <3>2. ASSUME NEW h \in FmRuns PROVE FmPlaced(h)'
      <4>1. FmPlaced(h) /\ FmHeldAt(h) /\ h \in Nat /\ h # 0
        BY <1>0 DEF FmPlaces, FmHeld
      <4>3. h > fmGen' => h > fmGen
        BY <4>1, <1>00, <2>26, <2>27
      <4>2. QED
        BY <1>00, <2>10, <2>26, <2>27, <4>1, <4>3
           DEF FmPlaced, FmHeldAt, FmFailing, FmStopping, FmLetPcs, FmTurns, FmTypes, FmNumbers
    <3>3. QED
      BY <3>1, <3>2 DEF FmPlaces
  <2>37. FmTurns'
    BY <1>0, <2>10, <2>26, <2>27
       DEF FmFlags, FmNumbers, FmTypes, FmCalls, FmPlaces, FmGroupPlaced, FmPlaced, FmTurns,
           FmFresh, FmFreshCall, FmFreshSup, FmHeld, FmHeldAt, FmStopPcs, FmLetPcs, FmOpPcs,
           FmSchPcs
  <2>38. FmHeld'
    <3>1. ASSUME NEW h \in FmRuns PROVE FmHeldAt(h)'
      <4>1. FmPlaced(h) /\ FmHeldAt(h) /\ h \in Nat /\ h # 0
        BY <1>0 DEF FmPlaces, FmHeld
      <4>3. h > fmGen' => h > fmGen
        BY <4>1, <1>00, <2>26, <2>27
      <4>2. QED
        BY <1>00, <2>10, <2>26, <2>27, <4>1, <4>3
           DEF FmPlaced, FmHeldAt, FmFailing, FmStopping, FmQuiet, FmFresh, FmFreshSup, FmTypes,
               FmNumbers
    <3>2. QED
      BY <3>1 DEF FmHeld
  <2>39. FmFresh'
    <3>1. FmFreshCall'
      BY <1>0, <2>10, <2>26, <2>27
         DEF FmFlags, FmNumbers, FmTypes, FmPlaces, FmGroupPlaced, FmPlaced, FmTurns, FmHeld,
             FmHeldAt, FmFresh, FmFreshCall, FmFreshSup, FmSilent, FmSilentNow, FmSilentEver,
             FmSilentYield, FmQuiet, FmLetting, FmStopping, FmFailing, FmStopPcs, FmLetPcs, FmMons,
             FmMonPcs
    <3>2. FmFreshSup'
      BY <1>0, <2>10, <2>26, <2>27
         DEF FmFlags, FmNumbers, FmTypes, FmPlaces, FmGroupPlaced, FmPlaced, FmTurns, FmHeld,
             FmHeldAt, FmFresh, FmFreshCall, FmFreshSup, FmSilent, FmSilentNow, FmSilentEver,
             FmSilentYield, FmQuiet, FmLetting, FmStopping, FmFailing, FmStopPcs, FmLetPcs, FmMons,
             FmMonPcs
    <3>3. QED
      BY <3>1, <3>2 DEF FmFresh
  <2>40. FmSilent'
    <3>1. FmSilentNow'
      BY <1>0, <2>10, <2>26, <2>27
         DEF FmFlags, FmNumbers, FmTypes, FmPlaces, FmGroupPlaced, FmPlaced, FmTurns, FmHeld,
             FmHeldAt, FmFresh, FmFreshCall, FmFreshSup, FmSilent, FmSilentNow, FmSilentEver,
             FmSilentYield, FmQuiet, FmLetting, FmWatched, FmFailing, FmStopPcs, FmLetPcs, FmMons,
             FmMonPcs
    <3>2. FmSilentEver'
      BY <1>0, <2>10, <2>26, <2>27
         DEF FmFlags, FmNumbers, FmTypes, FmPlaces, FmGroupPlaced, FmPlaced, FmTurns, FmHeld,
             FmHeldAt, FmFresh, FmFreshCall, FmFreshSup, FmSilent, FmSilentNow, FmSilentEver,
             FmSilentYield, FmQuiet, FmLetting, FmWatched, FmFailing, FmStopPcs, FmLetPcs, FmMons,
             FmMonPcs
    <3>3. FmSilentYield'
      BY <1>0, <2>10, <2>26, <2>27
         DEF FmFlags, FmNumbers, FmTypes, FmPlaces, FmGroupPlaced, FmPlaced, FmTurns, FmHeld,
             FmHeldAt, FmFresh, FmFreshCall, FmFreshSup, FmSilent, FmSilentNow, FmSilentEver,
             FmSilentYield, FmQuiet, FmLetting, FmWatched, FmFailing, FmStopPcs, FmLetPcs, FmMons,
             FmMonPcs
    <3>4. QED
      BY <3>1, <3>2, <3>3 DEF FmSilent
  <2>41. FmGranted'
    BY <1>0, <2>10, <2>26, <2>27
       DEF FmFlags, FmNumbers, FmTypes, FmPlaces, FmGroupPlaced, FmPlaced, FmTurns, FmHeld,
           FmHeldAt, FmFresh, FmFreshCall, FmFreshSup, FmSilent, FmSilentNow, FmSilentEver,
           FmSilentYield, FmQuiet, FmLetting, FmWatched, FmGranted, FmFailing, FmStopPcs, FmLetPcs
  <2>60. QED
    BY <2>30, <2>31, <2>32, <2>33, <2>34, <2>35, <2>36, <2>37, <2>38, <2>39, <2>40, <2>41
       DEF FmTypes
<1>30. CASE UNCHANGED fmVars
  <2>30. FmFlags'
    BY <1>30
       DEF fmVars, FmTypes, FmFlags, FmGroupPlaced, FmPlaced, FmHeldAt, FmFreshCall, FmFreshSup,
           FmSilentNow, FmSilentEver, FmSilentYield, FmQuiet, FmWatched, FmLetting, FmStopping,
           FmOp, FmSch, FmOpDue, FmSchDue, FmStopDue
  <2>31. FmNumbers'
    BY <1>30
       DEF fmVars, FmTypes, FmNumbers, FmGroupPlaced, FmPlaced, FmHeldAt, FmFreshCall, FmFreshSup,
           FmSilentNow, FmSilentEver, FmSilentYield, FmQuiet, FmWatched, FmLetting, FmStopping,
           FmOp, FmSch, FmOpDue, FmSchDue, FmStopDue
  <2>32. FmSups'
    BY <1>30
       DEF fmVars, FmTypes, FmSups, FmGroupPlaced, FmPlaced, FmHeldAt, FmFreshCall, FmFreshSup,
           FmSilentNow, FmSilentEver, FmSilentYield, FmQuiet, FmWatched, FmLetting, FmStopping,
           FmOp, FmSch, FmOpDue, FmSchDue, FmStopDue
  <2>33. FmMons'
    BY <1>30
       DEF fmVars, FmTypes, FmMons, FmGroupPlaced, FmPlaced, FmHeldAt, FmFreshCall, FmFreshSup,
           FmSilentNow, FmSilentEver, FmSilentYield, FmQuiet, FmWatched, FmLetting, FmStopping,
           FmOp, FmSch, FmOpDue, FmSchDue, FmStopDue
  <2>34. FmCalls'
    BY <1>30
       DEF fmVars, FmTypes, FmCalls, FmGroupPlaced, FmPlaced, FmHeldAt, FmFreshCall, FmFreshSup,
           FmSilentNow, FmSilentEver, FmSilentYield, FmQuiet, FmWatched, FmLetting, FmStopping,
           FmOp, FmSch, FmOpDue, FmSchDue, FmStopDue
  <2>35. FmBudget'
    BY <1>30
       DEF fmVars, FmTypes, FmBudget, FmGroupPlaced, FmPlaced, FmHeldAt, FmFreshCall, FmFreshSup,
           FmSilentNow, FmSilentEver, FmSilentYield, FmQuiet, FmWatched, FmLetting, FmStopping,
           FmOp, FmSch, FmOpDue, FmSchDue, FmStopDue
  <2>36. FmPlaces'
    BY <1>30
       DEF fmVars, FmTypes, FmPlaces, FmGroupPlaced, FmPlaced, FmHeldAt, FmFreshCall, FmFreshSup,
           FmSilentNow, FmSilentEver, FmSilentYield, FmQuiet, FmWatched, FmLetting, FmStopping,
           FmOp, FmSch, FmOpDue, FmSchDue, FmStopDue
  <2>37. FmTurns'
    BY <1>30
       DEF fmVars, FmTypes, FmTurns, FmGroupPlaced, FmPlaced, FmHeldAt, FmFreshCall, FmFreshSup,
           FmSilentNow, FmSilentEver, FmSilentYield, FmQuiet, FmWatched, FmLetting, FmStopping,
           FmOp, FmSch, FmOpDue, FmSchDue, FmStopDue
  <2>38. FmHeld'
    BY <1>30
       DEF fmVars, FmTypes, FmHeld, FmGroupPlaced, FmPlaced, FmHeldAt, FmFreshCall, FmFreshSup,
           FmSilentNow, FmSilentEver, FmSilentYield, FmQuiet, FmWatched, FmLetting, FmStopping,
           FmOp, FmSch, FmOpDue, FmSchDue, FmStopDue
  <2>39. FmFresh'
    BY <1>30
       DEF fmVars, FmTypes, FmFresh, FmGroupPlaced, FmPlaced, FmHeldAt, FmFreshCall, FmFreshSup,
           FmSilentNow, FmSilentEver, FmSilentYield, FmQuiet, FmWatched, FmLetting, FmStopping,
           FmOp, FmSch, FmOpDue, FmSchDue, FmStopDue
  <2>40. FmSilent'
    BY <1>30
       DEF fmVars, FmTypes, FmSilent, FmGroupPlaced, FmPlaced, FmHeldAt, FmFreshCall, FmFreshSup,
           FmSilentNow, FmSilentEver, FmSilentYield, FmQuiet, FmWatched, FmLetting, FmStopping,
           FmOp, FmSch, FmOpDue, FmSchDue, FmStopDue
  <2>41. FmGranted'
    BY <1>30
       DEF fmVars, FmTypes, FmGranted, FmGroupPlaced, FmPlaced, FmHeldAt, FmFreshCall, FmFreshSup,
           FmSilentNow, FmSilentEver, FmSilentYield, FmQuiet, FmWatched, FmLetting, FmStopping,
           FmOp, FmSch, FmOpDue, FmSchDue, FmStopDue
  <2>60. QED
    BY <2>30, <2>31, <2>32, <2>33, <2>34, <2>35, <2>36, <2>37, <2>38, <2>39, <2>40, <2>41
       DEF FmTypes
<1>31. QED
  BY <1>1, <1>2, <1>3, <1>4, <1>5, <1>6, <1>7, <1>8, <1>9, <1>10, <1>11, <1>12, <1>13, <1>14, <1>15,
     <1>16, <1>17, <1>18, <1>19, <1>20, <1>21, <1>22, <1>23, <1>24, <1>25, <1>26, <1>27, <1>28,
     <1>29, <1>30
     DEF FmNext, OperatorStep, SchedulerStep, FmThreadStep, FmHookStep

LEMMA FmInvImplies == FmInv => FmTypeOK /\ PlaysOnlyGranted /\ OneRadio
<1> SUFFICES ASSUME FmInv PROVE FmTypeOK /\ PlaysOnlyGranted /\ OneRadio
  OBVIOUS
<1> USE DEF FmInv
<1>1. FmTypeOK
  BY FmGenFits DEF FmTypeOK, FmTypes, FmFlags, FmNumbers, FmRetryType
<1>2. ASSUME NEW g \in fmOpen, ~Ending(g) PROVE g = fmGroup /\ FmWatched /\ ~FmLetting(FmOp) /\ ~FmLetting(FmSch)
  <2>1. DOMAIN fmCaller = {"operator", "scheduler"}
    BY DEF FmTypes, FmCalls, FmCallTypes
  <2>2. g \in FmRuns /\ g # 0 /\ fmSup[g] # "hook" /\ ~FmStopping(g)
    <3>1. g \in FmRuns /\ g # 0
      BY <1>2, FmNats DEF FmTypes, FmNumbers, FmRuns
    <3>2. fmSup[g] # "hook" /\ FmOp.group # g /\ FmSch.group # g
      BY <1>2, <2>1 DEF Ending, FmOp, FmSch
    <3>3. QED
      BY <3>1, <3>2 DEF FmStopping
  <2>3. fmMon[g] = "watch" /\ fmGroup = g
    BY <1>2, <2>2 DEF FmPlaces, FmPlaced, FmHeld, FmHeldAt
  <2>4. FmOp.pc \notin FmLetPcs /\ FmSch.pc \notin FmLetPcs
    BY <1>2, <2>1, <2>3 DEF Ending, FmLetPcs, FmOp, FmSch
  <2>5. QED
    BY <2>2, <2>3, <2>4 DEF FmWatched, FmLetting
<1>3. PlaysOnlyGranted
  BY <1>2 DEF PlaysOnlyGranted, FmGranted
<1>4. OneRadio
  <2>1. {g \in fmOpen : ~Ending(g)} = {} \/ {g \in fmOpen : ~Ending(g)} = {fmGroup}
    BY <1>2
  <2>2. Cardinality({}) = 0 /\ Cardinality({fmGroup}) = 1
    BY FS_EmptySet, FS_Singleton
  <2>3. QED
    BY <2>1, <2>2 DEF OneRadio
<1>5. QED
  BY <1>1, <1>3, <1>4

(* However the threads of the two plugins interleave, a dongle is open only
   while its plugin holds it, through one pipeline, and a stop frees it; for
   the receiver as long as no play overtakes a call that has passed its checks. *)
THEOREM DonglesAreHeld == ~FmOvertakes => (FmSpec /\ DdSpec => []DonglesHeld)
<1> SUFFICES ASSUME ~FmOvertakes PROVE FmSpec /\ DdSpec => []DonglesHeld
  OBVIOUS
<1>1. FmInv /\ [FmNext]_fmVars => FmInv'
  BY FmStepKeeps
<1>2. FmInv /\ DdInv => DonglesHeld
  BY FmInvImplies, DdInvImplies DEF DonglesHeld
<1>3. QED
  BY FmInitInv, DdInitInv, DdStepKeeps, <1>1, <1>2, PTL DEF FmSpec, DdSpec
=============================================================================
