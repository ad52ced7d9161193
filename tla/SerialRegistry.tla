---------------------------- MODULE SerialRegistry ----------------------------
(* SerialDeviceRegistry: who may open a serial radio.  A configured path is
   resolved to an endpoint outside the registry's lock, so the device behind
   it may change before the claim is decided.  An endpoint has keys (canonical
   path, device number, USB parent and serial): two claims that share a key
   are claims of one radio.  An intent reserves the path of another process's
   radio, plugged in or not.                                                 *)
EXTENDS Naturals, FiniteSets

CONSTANTS SrPaths,      \* configured paths
          SrEndpoints,  \* endpoints they may resolve to
          SrKeys,       \* the keys of an endpoint
          SrThreads,    \* callers
          SrMax         \* bound on claims and intents made

ASSUME SrAssumption ==
    /\ DOMAIN SrKeys = SrEndpoints /\ \A e \in SrEndpoints : SrKeys[e] # {}
    /\ "missing" \notin SrEndpoints /\ SrMax \in Nat

VARIABLES
    srLink,     \* what a path resolves to
    srClaims,   \* _claims: id, path, endpoint, share group, external
    srIntents,  \* _intents: id, path, last endpoint, keys gathered
    srTokens,   \* share groups whose token has been issued
    srNext,     \* next id
    srThread    \* per caller: step, path, endpoint resolved, and what it asked for

srVars == <<srLink, srClaims, srIntents, srTokens, srNext, srThread>>
Keys(e) == IF e = "missing" THEN {} ELSE SrKeys[e]
SrIdle == [pc |-> "idle", path |-> "none", end |-> "missing", want |-> "local", id |-> 0]

SrInit ==
    /\ srLink = [p \in SrPaths |-> "missing"]
    /\ srClaims = {} /\ srIntents = {} /\ srTokens = {} /\ srNext = 1
    /\ srThread = [t \in SrThreads |-> SrIdle]

(* A radio is plugged in, unplugged, or comes back under another name. *)
Relink(p, e) ==
    /\ srLink[p] # e /\ srLink' = [srLink EXCEPT ![p] = e]
    /\ UNCHANGED <<srClaims, srIntents, srTokens, srNext, srThread>>

-----------------------------------------------------------------------------
(* _refresh_intents_locked: an intent learns the endpoint its path has now,
   and keeps the keys of those it had.                                       *)
RefreshedStale(i) == i

Refreshed(i) ==
    LET e == srLink[i.path] IN
    IF e = "missing" \/ e = i.end THEN i
    ELSE [i EXCEPT !.end = e, !.keys = @ \cup Keys(e)]

RefreshedIntents == {Refreshed(i) : i \in srIntents}
IntentsAt(intents, p) == {i \in intents : i.path = p}
IntentsOn(intents, e) == {i \in intents : i.keys \cap Keys(e) # {}}
ClaimsOn(e) == {c \in srClaims : Keys(c.end) \cap Keys(e) # {}}

SrTo(t, pc) == srThread' = [srThread EXCEPT ![t].pc = pc]
SrDone(t) == srThread' = [srThread EXCEPT ![t] = SrIdle]

(* _claim: a path that is reserved is refused before it is resolved. *)
BeginClaim(t, p, want, group) ==
    /\ srThread[t].pc = "idle" /\ srNext <= SrMax
    /\ IntentsAt(srIntents, p) = {} /\ srLink[p] # "missing"
    /\ srThread' = [srThread EXCEPT ![t] =
          [pc |-> "claim", path |-> p, end |-> srLink[p], want |-> want, id |-> group]]
    /\ UNCHANGED <<srLink, srClaims, srIntents, srTokens, srNext>>

(* _validate_share_token: the token's group lives, is local, and alone holds
   this endpoint.                                                            *)
TokenBelieved(group, e) == \E c \in srClaims : c.group = group

TokenHolds(group, e) ==
    LET members == {c \in srClaims : c.group = group} IN
    /\ members # {} /\ \A c \in members : c.end = e /\ ~c.ext
    /\ ClaimsOn(e) # {} /\ \A c \in ClaimsOn(e) : c.group = group

Grants(t) ==
    LET th == srThread[t] IN
    /\ IntentsAt(RefreshedIntents, th.path) = {} /\ IntentsOn(RefreshedIntents, th.end) = {}
    /\ IF th.want = "share" THEN TokenHolds(th.id, th.end) ELSE ClaimsOn(th.end) = {}

(* The decision, under the lock: what was resolved is compared with every
   claim and with the intents as they are now.                               *)
SrClaim(t) ==
    LET th == srThread[t] IN
    /\ th.pc = "claim" /\ srNext <= SrMax /\ srIntents' = RefreshedIntents /\ SrDone(t)
    /\ IF Grants(t)
       THEN /\ srClaims' = srClaims \cup {[id |-> srNext, path |-> th.path, end |-> th.end,
                                          group |-> IF th.want = "share" THEN th.id ELSE srNext,
                                          ext |-> th.want = "external"]}
            /\ srNext' = srNext + 1
       ELSE UNCHANGED <<srClaims, srNext>>
    /\ UNCHANGED <<srLink, srTokens>>

(* reserve_external_intent resolves its path first; a missing one is reserved
   all the same.                                                             *)
BeginIntent(t, p) ==
    /\ srThread[t].pc = "idle" /\ srNext <= SrMax
    /\ srThread' = [srThread EXCEPT ![t] =
          [pc |-> "reserve", path |-> p, end |-> srLink[p], want |-> "local", id |-> 0]]
    /\ UNCHANGED <<srLink, srClaims, srIntents, srTokens, srNext>>

ReserveIntent(t) ==
    LET th == srThread[t] IN
    /\ th.pc = "reserve" /\ srNext <= SrMax /\ SrDone(t)
    /\ IF /\ IntentsAt(RefreshedIntents, th.path) = {}
          /\ ClaimsOn(th.end) = {} /\ IntentsOn(RefreshedIntents, th.end) = {}
       THEN /\ srIntents' = RefreshedIntents \cup
                  {[id |-> srNext, path |-> th.path, end |-> th.end, keys |-> Keys(th.end)]}
            /\ srNext' = srNext + 1
       ELSE srIntents' = RefreshedIntents /\ UNCHANGED srNext
    /\ UNCHANGED <<srLink, srClaims, srTokens>>

RevalidateReplaces(t) ==
    LET th == srThread[t] IN
    /\ th.pc = "revalidate" /\ SrDone(t)
    /\ srIntents' = {IF i.id = th.id THEN [i EXCEPT !.end = th.end, !.keys = Keys(th.end)] ELSE i : i \in srIntents}
    /\ UNCHANGED <<srLink, srClaims, srTokens, srNext>>

(* revalidate_intent: resolved outside the lock, added to what was known *)
BeginRevalidate(t, i) ==
    /\ srThread[t].pc = "idle" /\ srLink[i.path] # "missing"
    /\ srThread' = [srThread EXCEPT ![t] =
          [pc |-> "revalidate", path |-> i.path, end |-> srLink[i.path], want |-> "local", id |-> i.id]]
    /\ UNCHANGED <<srLink, srClaims, srIntents, srTokens, srNext>>

Revalidate(t) ==
    LET th == srThread[t] IN
    /\ th.pc = "revalidate" /\ SrDone(t)
    /\ srIntents' = {IF i.id = th.id /\ i.end # th.end
                     THEN [i EXCEPT !.end = th.end, !.keys = @ \cup Keys(th.end)] ELSE i : i \in srIntents}
    /\ UNCHANGED <<srLink, srClaims, srTokens, srNext>>

(* issue_share_token for an active local lease *)
IssueToken(c) ==
    /\ ~c.ext /\ c.group \notin srTokens /\ srTokens' = srTokens \cup {c.group}
    /\ UNCHANGED <<srLink, srClaims, srIntents, srNext, srThread>>

(* release of one version of a lease *)
Release(c) ==
    /\ srClaims' = srClaims \ {c}
    /\ UNCHANGED <<srLink, srIntents, srTokens, srNext, srThread>>

ReleaseIntent(i) ==
    /\ srIntents' = srIntents \ {i}
    /\ UNCHANGED <<srLink, srClaims, srTokens, srNext, srThread>>

CallerStep(t) ==
    \/ \E p \in SrPaths :
          \/ \E want \in {"local", "external"} : BeginClaim(t, p, want, 0)
          \/ \E g \in srTokens : BeginClaim(t, p, "share", g)
          \/ BeginIntent(t, p)
    \/ \E i \in srIntents : BeginRevalidate(t, i)
    \/ SrClaim(t) \/ ReserveIntent(t) \/ Revalidate(t)

SrNext == \/ \E p \in SrPaths, e \in SrEndpoints \cup {"missing"} : Relink(p, e)
          \/ \E t \in SrThreads : CallerStep(t)
          \/ \E c \in srClaims : IssueToken(c) \/ Release(c)
          \/ \E i \in srIntents : ReleaseIntent(i)

SrSpec == SrInit /\ [][SrNext]_srVars

-----------------------------------------------------------------------------
(* The state has its type; ids are fresh. *)
SrTypeOK ==
    /\ srLink \in [SrPaths -> SrEndpoints \cup {"missing"}]
    /\ srClaims \subseteq [id : 1..SrMax, path : SrPaths, end : SrEndpoints, group : 1..SrMax, ext : BOOLEAN]
    /\ \A i \in srIntents : i.id \in 1..SrMax /\ i.path \in SrPaths /\ i.end \in SrEndpoints \cup {"missing"}
    /\ \A x, y \in srClaims \cup srIntents : x.id = y.id => x = y

(* serial_devices.py: "prevent independent owners from claiming aliases or
   sibling interfaces of the same physical USB device": two claims of one
   radio were shared by a token, and name the same endpoint.                 *)
ClaimsExclusive ==
    \A c, d \in srClaims :
       Keys(c.end) \cap Keys(d.end) # {} => c.group = d.group /\ c.end = d.end /\ (c # d => ~c.ext /\ ~d.ext)

(* "promote hot-plugged intents before deciding that an alias or sibling USB
   interface is available": a claim is never granted for what an external
   owner's path names at that moment, nor for anything it named before.      *)
ExternalOwnerWins ==
    [][\A c \in srClaims' \ srClaims, i \in srIntents :
          c.path # i.path /\ Keys(c.end) \cap (i.keys \cup Keys(srLink[i.path])) = {}]_srVars

(* "disappearance of one configured alias must not expose the same physical
   radio": an intent that lives forgets no key, and covers its last endpoint. *)
IntentsRemember ==
    [][\A i \in srIntents, j \in srIntents' : i.id = j.id => i.keys \cup Keys(j.end) \subseteq j.keys]_srVars

(* Claims of serial devices exclude each other, yield to an owner outside, and intents
   remember the device they were made for over re-enumeration. *)
SerialClaimsHold ==
    /\ [](/\ SrTypeOK
          /\ ClaimsExclusive)
    /\ ExternalOwnerWins
    /\ IntentsRemember
=============================================================================
