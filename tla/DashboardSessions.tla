-------------------------- MODULE DashboardSessions --------------------------
(***************************************************************************)
(* Credentials, sessions and live connections of the web dashboard         *)
(* (builtin_plugins/web_dashboard/auth.py, websocket_handler.py, api.py,   *)
(* plugin.py).                                                             *)
(*                                                                         *)
(* Logins and password changes run one at a time in the auth pool, under   *)
(* the credential lock; a session is validated without it, by the event    *)
(* loop and by the worker that runs a socket's commands.  The password     *)
(* file, the bootstrap file and the session store survive a crash.  A      *)
(* password is a number, 0 is none; a session remembers the password it    *)
(* was opened under (password_hash_checksum).                              *)
(***************************************************************************)
EXTENDS Integers, FiniteSets

CONSTANTS
    DsTokens,      \* the session tokens that are drawn
    DsSockets,     \* the WebSocket connections
    DsMaxSessions, \* max_sessions
    DsMaxSockets,  \* max_websocket_clients
    DsPasswords,   \* bound on the passwords that are ever set
    DsCrashes,     \* bound on crashes
    DsValidators   \* the threads that validate: "loop", "command"

ASSUME DashboardSessionsAssumption ==
    /\ {DsMaxSessions, DsMaxSockets, DsPasswords, DsCrashes} \subseteq Nat
    /\ DsValidators \subseteq {"loop", "command"}

VARIABLES
    dsUp,          \* "down", the steps of the start, "up"
    dsPw,          \* _password_hash
    dsDisk,        \* the password file
    dsBoot,        \* the bootstrap file
    dsKnown,       \* what the user has chosen or asked for
    dsStore,       \* the sessions: the password of a token's session, 0 when there is none
    dsChange,      \* change_password, with the tokens it has still to revoke
    dsVal,         \* a validation under way
    dsWs,          \* a socket: its token and state
    dsCrashed      \* crashes so far

dsVars == <<dsUp, dsPw, dsDisk, dsBoot, dsKnown, dsStore, dsChange, dsVal, dsWs, dsCrashed>>

DsQuiet == [pc |-> "no", todo |-> {}, revoked |-> {}]
DsNoVal == [pc |-> "no", token |-> "none", pw |-> 0]
DsNoWs == [pc |-> "none", token |-> "none", counted |-> FALSE]

DsInit ==
    /\ dsUp = "down" /\ dsPw = 0 /\ dsDisk = 0 /\ dsBoot = 0 /\ dsKnown = {}
    /\ dsStore = [t \in DsTokens |-> 0] /\ dsChange = DsQuiet
    /\ dsVal = [v \in DsValidators |-> DsNoVal] /\ dsWs = [w \in DsSockets |-> DsNoWs]
    /\ dsCrashed = 0

Sessions == {t \in DsTokens : dsStore[t] # 0}
Fresh == CHOOSE n \in 1..(DsPasswords + 1) : /\ \A k \in {dsDisk, dsBoot, dsPw} \cup dsKnown : k < n
                                             /\ n - 1 \in {0, dsDisk, dsBoot, dsPw} \cup dsKnown

(* Mutant of Generates: the hash is written first. *)
GeneratesHashFirst ==
    \/ /\ dsUp = "down" /\ dsDisk = 0 /\ dsBoot = 0 /\ Fresh <= DsPasswords
       /\ dsUp' = "half" /\ dsPw' = Fresh /\ dsDisk' = Fresh
       /\ UNCHANGED <<dsBoot, dsKnown, dsStore, dsChange, dsVal, dsWs, dsCrashed>>
    \/ /\ dsUp = "half" /\ dsUp' = "up" /\ dsBoot' = dsPw
       /\ UNCHANGED <<dsPw, dsDisk, dsKnown, dsStore, dsChange, dsVal, dsWs, dsCrashed>>

(* load_or_create_password_hash: a password is generated, published in the
   bootstrap file and then its hash stored, each file atomically.          *)
Generates ==
    \/ /\ dsUp = "down" /\ dsDisk = 0 /\ dsBoot = 0 /\ Fresh <= DsPasswords
       /\ dsUp' = "half" /\ dsPw' = Fresh /\ dsBoot' = Fresh
       /\ UNCHANGED <<dsDisk, dsKnown, dsStore, dsChange, dsVal, dsWs, dsCrashed>>
    \/ /\ dsUp = "half" /\ dsUp' = "up" /\ dsDisk' = dsPw
       /\ UNCHANGED <<dsPw, dsBoot, dsKnown, dsStore, dsChange, dsVal, dsWs, dsCrashed>>

(* The hash is there, or is made again from the bootstrap file. *)
LoadsHash ==
    /\ dsUp = "down" /\ dsUp' = "up"
    /\ \/ dsDisk # 0 /\ dsPw' = dsDisk /\ UNCHANGED dsDisk
       \/ dsDisk = 0 /\ dsBoot # 0 /\ dsPw' = dsBoot /\ dsDisk' = dsBoot
    /\ UNCHANGED <<dsBoot, dsKnown, dsStore, dsChange, dsVal, dsWs, dsCrashed>>

(* login() with the right password: a new session, and another one goes when
   there are too many (one of the same address or the one longest unused)   *)
Login ==
    /\ dsUp = "up" /\ dsChange.pc = "no"
    /\ \E t \in DsTokens \ Sessions :
         /\ \A w \in DsSockets : dsWs[w].token # t
         /\ \A v \in DsValidators : dsVal[v].token # t
         /\ IF Cardinality(Sessions) < DsMaxSessions THEN dsStore' = [dsStore EXCEPT ![t] = dsPw]
            ELSE \E old \in Sessions : dsStore' = [dsStore EXCEPT ![t] = dsPw, ![old] = 0]
    /\ UNCHANGED <<dsUp, dsPw, dsDisk, dsBoot, dsKnown, dsChange, dsVal, dsWs, dsCrashed>>

(* Mutant of ValidateReads: the password a session is from is not looked at. *)
ValidateAnyPassword(v) ==
    /\ dsUp = "up" /\ dsVal[v].pc = "no"
    /\ \E t \in Sessions :
         /\ dsVal' = [dsVal EXCEPT ![v] = [pc |-> "ok", token |-> t, pw |-> dsStore[t]]]
         /\ UNCHANGED dsStore
    /\ UNCHANGED <<dsUp, dsPw, dsDisk, dsBoot, dsKnown, dsChange, dsWs, dsCrashed>>

(* validate_token for a session that is there: of another password, and every
   session is dropped; timed out, and it is; or accepted                   *)
ValidateReads(v) ==
    /\ dsUp = "up" /\ dsVal[v].pc = "no"
    /\ \E t \in Sessions :
         IF dsStore[t] # dsPw
         THEN dsStore' = [u \in DsTokens |-> 0] /\ UNCHANGED dsVal
         ELSE \/ dsStore' = [dsStore EXCEPT ![t] = 0] /\ UNCHANGED dsVal
              \/ /\ dsVal' = [dsVal EXCEPT ![v] = [pc |-> "ok", token |-> t, pw |-> dsStore[t]]]
                 /\ UNCHANGED dsStore
    /\ UNCHANGED <<dsUp, dsPw, dsDisk, dsBoot, dsKnown, dsChange, dsWs, dsCrashed>>

(* The session slides, which writes back what was read; or it is too early. *)
ValidateSlides(v) ==
    /\ dsVal[v].pc = "ok" /\ dsVal' = [dsVal EXCEPT ![v] = DsNoVal]
    /\ \/ dsStore' = [dsStore EXCEPT ![dsVal[v].token] = dsVal[v].pw]
       \/ UNCHANGED dsStore
    /\ UNCHANGED <<dsUp, dsPw, dsDisk, dsBoot, dsKnown, dsChange, dsWs, dsCrashed>>

(* close_websockets_for_token *)
ClosedFor(T) ==
    [w \in DsSockets |-> IF dsWs[w].pc = "open" /\ dsWs[w].token \in T THEN DsNoWs ELSE dsWs[w]]

(* handle_logout, on the loop; the periodic sweep of the sessions that have
   expired leaves the sockets to their own check.                          *)
Logout ==
    /\ dsUp = "up" /\ ("loop" \in DsValidators => dsVal["loop"].pc = "no")
    /\ \E t \in Sessions : /\ dsStore' = [dsStore EXCEPT ![t] = 0]
                           /\ dsWs' = ClosedFor({t}) \/ UNCHANGED dsWs
    /\ UNCHANGED <<dsUp, dsPw, dsDisk, dsBoot, dsKnown, dsChange, dsVal, dsCrashed>>

-----------------------------------------------------------------------------
(* change_password, under the credential lock *)

ChangeWrites ==
    /\ dsUp = "up" /\ dsChange.pc = "no" /\ Fresh <= DsPasswords
    /\ dsDisk' = Fresh /\ dsKnown' = dsKnown \cup {Fresh}
    /\ dsChange' = [DsQuiet EXCEPT !.pc = "adopt"]
    /\ UNCHANGED <<dsUp, dsPw, dsBoot, dsStore, dsVal, dsWs, dsCrashed>>

(* The new checksum, then the list of the sessions *)
ChangeAdopts ==
    \/ /\ dsChange.pc = "adopt" /\ dsPw' = dsDisk /\ dsChange' = [dsChange EXCEPT !.pc = "list"]
       /\ UNCHANGED <<dsUp, dsDisk, dsBoot, dsKnown, dsStore, dsVal, dsWs, dsCrashed>>
    \/ /\ dsChange.pc = "list"
       /\ dsChange' = [pc |-> "revoke", todo |-> Sessions, revoked |-> Sessions]
       /\ UNCHANGED <<dsUp, dsPw, dsDisk, dsBoot, dsKnown, dsStore, dsVal, dsWs, dsCrashed>>

ChangeRevokes ==
    /\ dsChange.pc = "revoke"
    /\ IF dsChange.todo = {} THEN dsChange' = [dsChange EXCEPT !.pc = "unlink"] /\ UNCHANGED dsStore
       ELSE \E t \in dsChange.todo : /\ dsStore' = [dsStore EXCEPT ![t] = 0]
                                     /\ dsChange' = [dsChange EXCEPT !.todo = @ \ {t}]
    /\ UNCHANGED <<dsUp, dsPw, dsDisk, dsBoot, dsKnown, dsVal, dsWs, dsCrashed>>

(* The bootstrap file goes, unless that fails; the lock is released. *)
ChangeUnlinks ==
    /\ dsChange.pc = "unlink" /\ dsBoot' \in {0, dsBoot}
    /\ dsChange' = [dsChange EXCEPT !.pc = "sockets"]
    /\ UNCHANGED <<dsUp, dsPw, dsDisk, dsKnown, dsStore, dsVal, dsWs, dsCrashed>>

(* handle_change_password, back on the loop *)
ChangeClosesSockets ==
    /\ dsChange.pc = "sockets" /\ dsWs' = ClosedFor(dsChange.revoked) /\ dsChange' = DsQuiet
    /\ UNCHANGED <<dsUp, dsPw, dsDisk, dsBoot, dsKnown, dsStore, dsVal, dsCrashed>>

-----------------------------------------------------------------------------
(* The sockets *)

Counted == {w \in DsSockets : dsWs[w].counted}

(* Mutant of WsOpens: the budget looks at the connections that are ready. *)
WsOpensUnreserved ==
    /\ dsUp = "up" /\ \E w \in DsSockets, t \in Sessions :
         /\ dsWs[w].pc = "none" /\ dsStore[t] = dsPw
         /\ Cardinality({u \in Counted : dsWs[u].pc = "open"}) < DsMaxSockets
         /\ dsWs' = [dsWs EXCEPT ![w] = [pc |-> "preparing", token |-> t, counted |-> TRUE]]
    /\ UNCHANGED <<dsUp, dsPw, dsDisk, dsBoot, dsKnown, dsStore, dsChange, dsVal, dsCrashed>>

(* websocket_metrics, websocket_spectrum: a valid token, a place in the common
   budget (_reserve_ws_slot), then the handshake is awaited.               *)
WsOpens ==
    /\ dsUp = "up" /\ \E w \in DsSockets, t \in Sessions :
         /\ dsWs[w].pc = "none" /\ dsStore[t] = dsPw
         /\ Cardinality(Counted) < DsMaxSockets
         /\ dsWs' = [dsWs EXCEPT ![w] = [pc |-> "preparing", token |-> t, counted |-> TRUE]]
    /\ UNCHANGED <<dsUp, dsPw, dsDisk, dsBoot, dsKnown, dsStore, dsChange, dsVal, dsCrashed>>

(* The handshake ends: the socket is in the tables, or its place is free. *)
WsReady(w) ==
    /\ dsWs[w].pc = "preparing" /\ dsUp = "up"
    /\ dsWs' \in {[dsWs EXCEPT ![w].pc = "open"], [dsWs EXCEPT ![w] = DsNoWs]}
    /\ UNCHANGED <<dsUp, dsPw, dsDisk, dsBoot, dsKnown, dsStore, dsChange, dsVal, dsCrashed>>

(* A send fails: the socket leaves the set, its handler goes on until the
   transport tells it.                                                     *)
WsEvicted(w) ==
    /\ dsWs[w].pc = "open" /\ dsWs[w].counted /\ dsWs' = [dsWs EXCEPT ![w].counted = FALSE]
    /\ UNCHANGED <<dsUp, dsPw, dsDisk, dsBoot, dsKnown, dsStore, dsChange, dsVal, dsCrashed>>

WsGone(w) ==
    /\ dsWs[w].pc = "open" /\ dsWs' = [dsWs EXCEPT ![w] = DsNoWs]
    /\ UNCHANGED <<dsUp, dsPw, dsDisk, dsBoot, dsKnown, dsStore, dsChange, dsVal, dsCrashed>>

(* Mutant of WsRevalidates: only a socket that is still served is looked at. *)
WsRevalidatesServed(w) ==
    /\ dsWs[w].pc = "open" /\ dsWs[w].counted /\ dsStore[dsWs[w].token] # dsPw /\ dsUp = "up"
    /\ dsStore' = IF dsStore[dsWs[w].token] = 0 THEN dsStore ELSE [t \in DsTokens |-> 0]
    /\ dsWs' = [dsWs EXCEPT ![w] = DsNoWs]
    /\ UNCHANGED <<dsUp, dsPw, dsDisk, dsBoot, dsKnown, dsChange, dsVal, dsCrashed>>

(* _revalidate_ws_session: the token is validated from time to time. *)
WsRevalidates(w) ==
    /\ dsWs[w].pc = "open" /\ dsStore[dsWs[w].token] # dsPw /\ dsUp = "up"
    /\ dsStore' = IF dsStore[dsWs[w].token] = 0 THEN dsStore ELSE [t \in DsTokens |-> 0]
    /\ dsWs' = [dsWs EXCEPT ![w] = DsNoWs]
    /\ UNCHANGED <<dsUp, dsPw, dsDisk, dsBoot, dsKnown, dsChange, dsVal, dsCrashed>>

DsCrash ==
    /\ dsCrashed < DsCrashes /\ dsCrashed' = dsCrashed + 1 /\ dsUp # "down"
    /\ dsUp' = "down" /\ dsPw' = 0 /\ dsChange' = DsQuiet
    /\ dsVal' = [v \in DsValidators |-> DsNoVal] /\ dsWs' = [w \in DsSockets |-> DsNoWs]
    /\ UNCHANGED <<dsDisk, dsBoot, dsKnown, dsStore>>

DsChangeStep == ChangeAdopts \/ ChangeRevokes \/ ChangeUnlinks \/ ChangeClosesSockets

DsNext ==
    \/ Generates \/ LoadsHash \/ Login \/ Logout \/ ChangeWrites \/ DsChangeStep
    \/ \E v \in DsValidators : ValidateReads(v) \/ ValidateSlides(v)
    \/ WsOpens \/ \E w \in DsSockets : WsReady(w) \/ WsEvicted(w) \/ WsGone(w) \/ WsRevalidates(w)
    \/ DsCrash

-----------------------------------------------------------------------------

DsTypeOK ==
    /\ dsUp \in {"down", "half", "up"} /\ {dsPw, dsDisk, dsBoot} \subseteq 0..DsPasswords
    /\ dsStore \in [DsTokens -> 0..DsPasswords] /\ dsKnown \subseteq 1..DsPasswords
    /\ dsChange.pc \in {"no", "adopt", "list", "revoke", "unlink", "sockets"}
    /\ dsCrashed <= DsCrashes

(* Whatever file a crash has left out of date, the password that is asked for
   is one the user can know: the one in the bootstrap file or one the user
   has chosen ("rather than generating an unknowable replacement").        *)
PasswordIsKnown ==
    dsDisk # 0 => dsDisk \in {dsBoot} \cup dsKnown

(* A session of a password that was replaced is not accepted again, also when
   a validation under way has written it back after it was revoked, or when a
   crash came between the change and the revocation.                       *)
OldSessionsRefused ==
    [][\A v \in DsValidators :
         dsVal[v].pc = "no" /\ dsVal'[v].pc = "ok" => dsVal'[v].pw = dsPw]_dsVars

(* The two kinds of sockets share one budget, handshakes included. *)
SocketBudget == Cardinality(Counted) <= DsMaxSockets

(* A socket whose session is gone is closed, also one that was in its
   handshake when the session was revoked.                                 *)
RevokedSocketCloses ==
    \A w \in DsSockets :
       (dsWs[w].pc = "open" /\ dsStore[dsWs[w].token] # dsPw) ~> dsWs[w].pc # "open"
=============================================================================
