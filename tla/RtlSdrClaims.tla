---------------------------- MODULE RtlSdrClaims ----------------------------
(***************************************************************************)
(* The registry of RTL-SDR device claims (src/reticulumpi/rtlsdr.py).      *)
(*                                                                         *)
(* A plugin selects a dongle by serial number or by USB index.  A claim is *)
(* made in two unsynchronised steps: the selection is resolved against one *)
(* USB enumeration, and later, under _claim_lock, the resolved identity is *)
(* recorded unless another claim has the same canonical identity or the    *)
(* same index.  In between the dongles may be unplugged and renumbered.    *)
(* Every claim has a fresh id, the lease token its owner releases it with. *)
(***************************************************************************)
EXTENDS Integers

CONSTANTS ClCallers,  \* plugin names that claim devices
          Serials,    \* USB serial numbers of the dongles
          Indexes,    \* USB enumeration indexes
          NoSerial,   \* no dongle at an index
          NoRequest,  \* a caller is not between resolving and claiming
          MaxClaims   \* bound on the claims ever made

ASSUME SerialsAssumption == NoSerial \notin Serials
ASSUME IndexesAssumption == Indexes \subseteq Nat
ASSUME MaxClaimsAssumption == MaxClaims \in Nat

VARIABLES inventory,   \* the dongle rtl_test lists at each index
          clClaimed,     \* _claimed: the set of claim records
          selections,  \* _claim_selections: selection -> claim id, 0 if absent
          nextId,      \* _next_claim_id
          request,     \* per caller: a resolution not yet claimed
          tokens       \* per caller: ids of the DeviceLeases it still holds

clVars == <<inventory, clClaimed, selections, nextId, request, tokens>>

Selector == {[by |-> "serial", configured |-> s] : s \in Serials} \cup
            {[by |-> "index", configured |-> i] : i \in Indexes}

Selection == [caller : ClCallers, selector : Selector]

Canonical == {[by |-> "serial", name |-> s] : s \in Serials} \cup
             {[by |-> "index", name |-> i] : i \in Indexes}

ClaimId == 1 .. MaxClaims

ClClaim == [id : ClaimId, selection : Selection,
            canonical : Canonical, index : Indexes]

Request == [selector : Selector, canonical : Canonical, index : Indexes,
            replace : ClaimId \cup {0}]

-----------------------------------------------------------------------------
(* _resolve_device_snapshot: the identities a selector may resolve to.  A
   serial must be listed and resolves to its first index; an index resolves
   to the serial listed there, or to itself when nothing is.               *)
SerialResolution(serial) ==
    {r \in [canonical : {[by |-> "serial", name |-> serial]}, index : Indexes] :
        /\ inventory[r.index] = serial
        /\ \A i \in Indexes : inventory[i] = serial => r.index <= i}

(* Mutant of IndexResolution: an empty index keeps no identity of its own. *)
IndexResolutionNoFallback(index) ==
    {[canonical |-> [by |-> "serial", name |-> inventory[index]], index |-> index]}

IndexResolution(index) ==
    {[canonical |-> IF inventory[index] = NoSerial
                    THEN [by |-> "index", name |-> index]
                    ELSE [by |-> "serial", name |-> inventory[index]],
      index |-> index]}

Resolutions(selector) ==
    IF selector.by = "serial" THEN SerialResolution(selector.configured)
                              ELSE IndexResolution(selector.configured)

(* Mutant of Collides: the index alias is not compared. *)
CollidesBySerialOnly(claim, resolved) == claim.canonical = resolved.canonical

Collides(claim, resolved) == \/ claim.canonical = resolved.canonical
                             \/ claim.index = resolved.index

(* _pop_claim_locked, for a set of claim ids *)
ClRemaining(ids) == {r \in clClaimed : r.id \notin ids}

(* Mutant of SelectionsWithout: popping a claim forgets the selection map. *)
SelectionsKept(ids) == selections

SelectionsWithout(ids) ==
    [s \in Selection |-> IF selections[s] \in ids THEN 0 ELSE selections[s]]

-----------------------------------------------------------------------------
ClInit ==
    /\ inventory \in [Indexes -> Serials \cup {NoSerial}]
    /\ clClaimed = {}
    /\ selections = [s \in Selection |-> 0]
    /\ nextId = 0
    /\ request = [c \in ClCallers |-> NoRequest]
    /\ tokens = [c \in ClCallers |-> {}]

(* A dongle drops off the bus, comes back or is renumbered. *)
ClReplug ==
    /\ \E i \in Indexes, s \in Serials \cup {NoSerial} :
           inventory' = [inventory EXCEPT ![i] = s]
    /\ UNCHANGED <<clClaimed, selections, nextId, request, tokens>>

(* claim_device and refresh_device_lease, first half: resolve the selection
   against one fresh enumeration.  A refresh names the lease it replaces.   *)
Resolve(c, selector, replace) ==
    /\ request[c] = NoRequest
    /\ replace \in tokens[c] \cup {0}
    /\ \E r \in Resolutions(selector) :
           request' = [request EXCEPT ![c] =
               [selector |-> selector, canonical |-> r.canonical,
                index |-> r.index, replace |-> replace]]
    /\ UNCHANGED <<inventory, clClaimed, selections, nextId, tokens>>

(* The claims a request supersedes: the caller's own claim of the same
   selection and the lease being refreshed.                                *)
OwnClaim(c) == selections[[caller |-> c, selector |-> request[c].selector]]

Superseded(c) == {OwnClaim(c), request[c].replace} \ {0}

(* The refreshed lease is still claimed, by this caller, and the target
   selection has no other lease.                                           *)
RefreshAllowed(c) ==
    request[c].replace # 0 =>
        /\ \E r \in clClaimed : r.id = request[c].replace /\ r.selection.caller = c
        /\ OwnClaim(c) \in {0, request[c].replace}

Conflict(c) ==
    \E r \in clClaimed : r.id \notin Superseded(c) /\ Collides(r, request[c])

(* _claim_device under _claim_lock, when it succeeds *)
ClClaimDevice(c) ==
    LET own == [caller |-> c, selector |-> request[c].selector]
        old == Superseded(c)
    IN  /\ request[c] # NoRequest
        /\ nextId < MaxClaims
        /\ RefreshAllowed(c)
        /\ ~ Conflict(c)
        /\ nextId' = nextId + 1
        /\ clClaimed' = ClRemaining(old) \cup
              {[id |-> nextId + 1, selection |-> own,
                canonical |-> request[c].canonical, index |-> request[c].index]}
        /\ selections' = [SelectionsWithout(old) EXCEPT ![own] = nextId + 1]
        /\ tokens' = [tokens EXCEPT ![c] =
                         (@ \ {request[c].replace}) \cup {nextId + 1}]
        /\ request' = [request EXCEPT ![c] = NoRequest]
        /\ UNCHANGED inventory

(* Mutant of ClClaimRefused: the old claim is popped before the conflict check. *)
ClaimRefusedAfterPop(c) ==
    /\ request[c] # NoRequest
    /\ ~ RefreshAllowed(c) \/ Conflict(c)
    /\ clClaimed' = ClRemaining(Superseded(c))
    /\ selections' = SelectionsWithout(Superseded(c))
    /\ request' = [request EXCEPT ![c] = NoRequest]
    /\ UNCHANGED <<inventory, nextId, tokens>>

(* _claim_device raising DeviceBusyError or RuntimeError: nothing changes and
   the caller keeps the lease it had.                                      *)
ClClaimRefused(c) ==
    /\ request[c] # NoRequest
    /\ ~ RefreshAllowed(c) \/ Conflict(c)
    /\ request' = [request EXCEPT ![c] = NoRequest]
    /\ UNCHANGED <<inventory, clClaimed, selections, nextId, tokens>>

(* Mutant of ReleaseIds: the caller's claims are freed whatever token is given. *)
ReleaseIdsOfCaller(c, ids) ==
    LET gone == {r.id : r \in {q \in clClaimed : q.selection.caller = c}}
    IN  /\ clClaimed' = ClRemaining(gone)
        /\ selections' = SelectionsWithout(gone)

(* _release_claim_id: a token whose claim was superseded releases nothing. *)
ReleaseIds(c, ids) ==
    LET gone == {r.id : r \in {q \in clClaimed : q.id \in ids /\ q.selection.caller = c}}
    IN  /\ clClaimed' = ClRemaining(gone)
        /\ selections' = SelectionsWithout(gone)

(* DeviceLease.release *)
ReleaseLease(c, id) ==
    /\ id \in tokens[c]
    /\ ReleaseIds(c, {id})
    /\ tokens' = [tokens EXCEPT ![c] = @ \ {id}]
    /\ UNCHANGED <<inventory, nextId, request>>

(* release_device by a named caller: whatever its selection claims now *)
ReleaseDevice(c, selector) ==
    /\ selections[[caller |-> c, selector |-> selector]] # 0
    /\ ReleaseIds(c, {selections[[caller |-> c, selector |-> selector]]})
    /\ UNCHANGED <<inventory, nextId, request, tokens>>

(* release_device without a caller: every recorded claim of the selector, or,
   when there is none, every claim colliding with what it resolves to.     *)
ForceRelease(selector) ==
    LET recorded == {selections[[caller |-> c, selector |-> selector]] : c \in ClCallers} \ {0}
        colliding == {r.id : r \in {q \in clClaimed :
                        \E d \in Resolutions(selector) : Collides(q, d)}}
        gone == IF recorded # {} THEN recorded ELSE colliding
    IN  /\ clClaimed' = ClRemaining(gone)
        /\ selections' = SelectionsWithout(gone)
        /\ UNCHANGED <<inventory, nextId, request, tokens>>

ClCallerStep(c) ==
    \/ \E selector \in Selector, replace \in ClaimId \cup {0} :
           Resolve(c, selector, replace)
    \/ ClClaimDevice(c)
    \/ ClClaimRefused(c)
    \/ \E id \in ClaimId : ReleaseLease(c, id)
    \/ \E selector \in Selector : ReleaseDevice(c, selector)

ClNext == \/ ClReplug
          \/ \E c \in ClCallers : ClCallerStep(c)
          \/ \E selector \in Selector : ForceRelease(selector)

ClSpec == ClInit /\ [][ClNext]_clVars

-----------------------------------------------------------------------------
ClTypeOK ==
    /\ inventory \in [Indexes -> Serials \cup {NoSerial}]
    /\ clClaimed \subseteq ClClaim
    /\ selections \in [Selection -> ClaimId \cup {0}]
    /\ nextId \in 0 .. MaxClaims
    /\ request \in [ClCallers -> Request \cup {NoRequest}]
    /\ tokens \in [ClCallers -> SUBSET ClaimId]

(* "Index and serial aliases cannot double-claim an SDR": two claims never
   share the canonical identity or the index, however the dongles were
   renumbered between resolving a selection and claiming it
   (_claim_device's conflict loop).                                        *)
NoAliasedClaims ==
    \A p, q \in clClaimed :
        p # q => p.canonical # q.canonical /\ p.index # q.index

(* _claim_selections and _claimed describe the same claims: a selection maps
   to a recorded claim of that very selection, and every claim is the one its
   selection maps to.                                                      *)
SelectionsExact ==
    /\ \A r \in clClaimed : selections[r.selection] = r.id
    /\ \A s \in Selection :
          selections[s] # 0 => \E r \in clClaimed : r.selection = s

(* A claim disappears only because its own token is given back, because the
   same selection or a refresh of its token supersedes it, or because its
   caller's selection is released or a force-release is asked for: a stale
   token never frees a newer claim (_release_claim_id).                    *)
ClaimLostOnlyByOwner ==
    [][\A r \in clClaimed \ clClaimed' :
         \/ r.id \in tokens[r.selection.caller] \ tokens'[r.selection.caller]
         \/ \E q \in clClaimed' \ clClaimed : q.selection = r.selection
         \/ ReleaseDevice(r.selection.caller, r.selection.selector)
         \/ \E selector \in Selector : ForceRelease(selector)]_clVars

(* A claim or refresh that is refused, or that succeeds, never leaves a caller
   that had a claim without one: the old claim is dropped only in the same
   critical section that records the new one (_claim_device).              *)
RefreshKeepsAClaim ==
    [][\A c \in ClCallers :
         /\ request[c] # NoRequest /\ request'[c] = NoRequest
         /\ \E r \in clClaimed : r.selection.caller = c
         => \E r \in clClaimed' : r.selection.caller = c]_clVars

(* No two claims name one dongle, the index of selections lists them, and a
   caller's claim is lost only by its own doing or by force, never by a refusal
   (_claim_device, _release_claim_id).                                     *)
ClaimsAreOwned ==
    /\ [](ClTypeOK /\ NoAliasedClaims /\ SelectionsExact)
    /\ ClaimLostOnlyByOwner
    /\ RefreshKeepsAClaim

=============================================================================
