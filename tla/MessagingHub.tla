---------------------------- MODULE MessagingHub ----------------------------
(***************************************************************************)
(* Outgoing messages of the messaging hub (builtin_plugins/                *)
(* messaging_hub.py): sending, the retry queue, delivery tracking, the     *)
(* timeout loop, stop, crash and recovery from the message store.          *)
(*                                                                         *)
(* The threads are the callers of send_message (one per message), the      *)
(* timeout loop, the drain that a reconnected radio triggers on the event  *)
(* bus, and the radios' acknowledgements.  An action is one critical       *)
(* section, one adapter call or one commit of the store.  A drain that is  *)
(* still sending when the plugin is stopped goes on with its copy of the   *)
(* queue: its messages are in "late".                                      *)
(***************************************************************************)
EXTENDS Integers, SequencesExt

CONSTANTS
    Msgs,            \* the messages users send
    Radio,           \* the transport of a message
    Kind,            \* "lxmf", "meshtastic" or "meshcore", of a transport
    Broadcasts,      \* messages without an acknowledgement
    QueueMax,        \* outbound_queue_max
    PendingMax,      \* _PENDING_DELIVERY_CAP
    MaxLives         \* bound on starts of the hub

ASSUME HubAssumption ==
    /\ {QueueMax, PendingMax} \subseteq Nat \ {0} /\ MaxLives \in Nat
    /\ Broadcasts \subseteq Msgs

Radios == {Radio[m] : m \in Msgs}

(* The elements of a sequence that are in S, in their order *)
Kept(s, S) ==
    LET keep[n \in 0..Len(s)] == IF n = 0 THEN <<>>
                                 ELSE IF s[n] \in S THEN Append(keep[n - 1], s[n]) ELSE keep[n - 1]
    IN  keep[Len(s)]

VARIABLES
    row,       \* the status of a message in the store
    stored,    \* the stored messages in order of their timestamps
    outq,      \* _outbound_queues
    pend,      \* _pending_delivery of each adapter, oldest first
    bound,     \* messages whose ACK waiter has been released (Meshtastic)
    air,       \* messages a radio took whose acknowledgement may still come
    ackd,      \* messages popped by an acknowledgement, with the status to set
    caller,    \* the thread in send_message, per message
    drain,     \* the timeout loop and the drain on the event bus
    late,      \* messages of drains of an earlier life
    taken,     \* how often a radio took the message
    up,        \* is_available, per transport
    old,       \* messages past outbound_queue_ttl_seconds
    hub, lives \* "up", "closing" or "down"; how often it was started

hubVars == <<row, stored, outq, pend, bound, air, ackd, caller, drain, late, taken, up, old,
             hub, lives>>

HubDrains == {"loop", "event"}

NoDrain == [pc |-> "idle", radio |-> "none", items |-> <<>>, stale |-> {}]

HubInit ==
    /\ row = [m \in Msgs |-> "none"]
    /\ stored = <<>>
    /\ outq = [r \in Radios |-> <<>>]
    /\ pend = [r \in Radios |-> <<>>]
    /\ bound = {} /\ air = {}
    /\ ackd = [m \in Msgs |-> "none"]
    /\ caller = [m \in Msgs |-> "new"]
    /\ drain = [d \in HubDrains |-> NoDrain]
    /\ late = {}
    /\ taken = [m \in Msgs |-> 0]
    /\ up \in [Radios -> BOOLEAN]
    /\ old = {}
    /\ hub = "up" /\ lives = 1

-----------------------------------------------------------------------------
(* The message store *)

(* Mutant of Store: the row has no place in the order of timestamps. *)
StoreUnlisted(m, status) == row' = [row EXCEPT ![m] = status] /\ UNCHANGED stored

(* MessageStore.store *)
Store(m, status) ==
    /\ row' = [row EXCEPT ![m] = status]
    /\ stored' = Append(stored, m)

(* _TERMINAL_STATUSES *)
Terminal == {"delivered", "delivery_failed", "failed", "broadcast_sent", "read"}

(* Mutant of Updated: a timeout is written like any other status. *)
UpdatedAlways(m, status) == IF row[m] = "deleted" THEN row[m] ELSE status

(* _on_delivery_status_update: "timeout" and "expired" do not overwrite a
   terminal status, and a deleted row is not updated.                      *)
Updated(m, status) ==
    IF row[m] = "deleted" \/ (status \in {"timeout", "expired"} /\ row[m] \in Terminal)
    THEN row[m] ELSE status

Update(m, status) == row' = [row EXCEPT ![m] = Updated(m, status)]

UpdateAll(S, status) == row' = [m \in Msgs |-> IF m \in S THEN Updated(m, status) ELSE row[m]]

(* delete_conversation, or the pruning of old rows *)
DeleteRow(m) ==
    /\ hub # "down" /\ row[m] \notin {"none", "deleted"}
    /\ row' = [row EXCEPT ![m] = "deleted"]
    /\ UNCHANGED <<stored, outq, pend, bound, air, ackd, caller, drain, late, taken, up, old,
                   hub, lives>>

-----------------------------------------------------------------------------
(* Tracking of what the radios took *)

Transmit(m) ==
    /\ taken' = [taken EXCEPT ![m] = @ + 1]
    /\ air' = air \cup {m}

Untracked(m) == [pend EXCEPT ![Radio[m]] = Kept(@, Msgs \ {m})]

(* track_pending: a full LXMF tracker gives its oldest entry up. *)
Evicts(m) == Kind[Radio[m]] = "lxmf" /\ m \notin Broadcasts /\ Len(pend[Radio[m]]) >= PendingMax

(* _register_delivery_tracking: the entry first, then the ACK waiter *)
Track(m) ==
    /\ pend' = IF m \in Broadcasts THEN pend
               ELSE [pend EXCEPT ![Radio[m]] = Append(IF Evicts(m) THEN Tail(@) ELSE @, m)]
    /\ bound' = bound \cup {m}
    /\ IF Evicts(m) THEN Update(Head(pend[Radio[m]]), "timeout") ELSE UNCHANGED row

(* The answer of a radio: a Meshtastic ACK waits for the tracking entry, an
   LXMF or MeshCore one that finds none is dropped.                        *)
Acknowledge(m, status) ==
    /\ m \in air /\ m \notin Broadcasts
    /\ Kind[Radio[m]] = "meshcore" => status = "delivered"
    /\ Kind[Radio[m]] = "meshtastic" => m \in bound /\ status # "propagated"
    /\ air' = air \ {m}
    /\ pend' = Untracked(m)
    /\ ackd' = IF Kind[Radio[m]] = "meshtastic" \/ m \in Range(pend[Radio[m]])
               THEN [ackd EXCEPT ![m] = status] ELSE ackd
    /\ UNCHANGED <<row, stored, outq, bound, caller, drain, late, taken, up, old, hub, lives>>

AckStored(m) ==
    /\ ackd[m] # "none"
    /\ IF hub = "down" THEN UNCHANGED row ELSE Update(m, ackd[m])
    /\ ackd' = [ackd EXCEPT ![m] = "none"]
    /\ UNCHANGED <<stored, outq, pend, bound, air, caller, drain, late, taken, up, old, hub, lives>>

(* _on_read_receipt: only rows stored with their packet id are found, which
   rows that went through the queue are not.                               *)
ReadReceipt(m) ==
    /\ hub = "up" /\ Kind[Radio[m]] = "meshtastic" /\ m \notin Broadcasts
    /\ caller[m] \in {"track", "done"} /\ taken[m] > 0 /\ row[m] # "none"
    /\ Update(m, "read")
    /\ UNCHANGED <<stored, outq, pend, bound, air, ackd, caller, drain, late, taken, up, old,
                   hub, lives>>

-----------------------------------------------------------------------------
(* send_message *)

CallerGoto(m, label) == caller' = [caller EXCEPT ![m] = label]

(* The adapter's availability decides between a send and the queue. *)
SendMessage(m) ==
    /\ hub = "up" /\ caller[m] = "new"
    /\ CallerGoto(m, IF up[Radio[m]] THEN "send" ELSE "queue")
    /\ UNCHANGED <<row, stored, outq, pend, bound, air, ackd, drain, late, taken, up, old, hub, lives>>

(* The adapter's send: taken, not possible for now, or refused for good *)
AdapterSend(m) ==
    /\ caller[m] = "send"
    /\ \/ /\ up[Radio[m]]
          /\ Transmit(m) /\ CallerGoto(m, "sent")
       \/ CallerGoto(m, "queue") /\ UNCHANGED <<air, taken>>
       \/ CallerGoto(m, "refused") /\ UNCHANGED <<air, taken>>
    /\ UNCHANGED <<row, stored, outq, pend, bound, ackd, drain, late, up, old, hub, lives>>

(* _finalize_send: the row *)
FinalizeSend(m) ==
    /\ caller[m] \in {"sent", "refused"} /\ hub # "down"
    /\ Store(m, IF caller[m] = "sent" THEN "sent" ELSE "failed")
    /\ CallerGoto(m, IF caller[m] = "sent" THEN "track" ELSE "done")
    /\ UNCHANGED <<outq, pend, bound, air, ackd, drain, late, taken, up, old, hub, lives>>

(* _finalize_send: the tracking; a broadcast is settled at once. *)
TrackSend(m) ==
    /\ caller[m] = "track" /\ hub # "down"
    /\ IF m \in Broadcasts
       THEN Update(m, "broadcast_sent") /\ UNCHANGED <<pend, bound>>
       ELSE Track(m)
    /\ CallerGoto(m, "done")
    /\ UNCHANGED <<stored, outq, air, ackd, drain, late, taken, up, old, hub, lives>>

(* _queue_outbound: the row ... *)
StoreQueued(m) ==
    /\ caller[m] = "queue" /\ hub # "down"
    /\ Store(m, "queued")
    /\ CallerGoto(m, "append")
    /\ UNCHANGED <<outq, pend, bound, air, ackd, drain, late, taken, up, old, hub, lives>>

(* ... and the entry; a full queue gives its oldest up. *)
AppendQueued(m) ==
    LET q == outq[Radio[m]]
        full == Len(q) >= QueueMax
    IN  /\ caller[m] = "append" /\ hub # "down"
        /\ outq' = [outq EXCEPT ![Radio[m]] = Append(IF full THEN Tail(q) ELSE q, m)]
        /\ IF full THEN Update(Head(q), "failed") ELSE UNCHANGED row
        /\ CallerGoto(m, "queued")
        /\ UNCHANGED <<stored, pend, bound, air, ackd, drain, late, taken, up, old, hub, lives>>

SenderStep(m) == \/ AdapterSend(m) \/ FinalizeSend(m) \/ TrackSend(m)
                 \/ StoreQueued(m) \/ AppendQueued(m)

-----------------------------------------------------------------------------
(* _drain_outbound_queue, by the timeout loop or on a reconnect *)

(* Mutant of DrainTake: the queue is read and not emptied. *)
DrainTakeCopy(d, r) ==
    /\ hub # "down" /\ drain[d].pc = "idle" /\ outq[r] # <<>>
    /\ d = "event" => Kind[r] # "lxmf"
    /\ drain' = [drain EXCEPT ![d] = [pc |-> "adapter", radio |-> r, items |-> outq[r], stale |-> {}]]
    /\ UNCHANGED <<row, stored, outq, pend, bound, air, ackd, caller, late, taken, up, old, hub, lives>>

DrainTake(d, r) ==
    /\ hub # "down" /\ drain[d].pc = "idle" /\ outq[r] # <<>>
    /\ d = "event" => Kind[r] # "lxmf"
    /\ drain' = [drain EXCEPT ![d] = [pc |-> "adapter", radio |-> r, items |-> outq[r], stale |-> {}]]
    /\ outq' = [outq EXCEPT ![r] = <<>>]
    /\ UNCHANGED <<row, stored, pend, bound, air, ackd, caller, late, taken, up, old, hub, lives>>

(* Without an adapter everything taken is given up: stop() clears them.
   Ages are those of this moment for the whole drain.                      *)
DrainAdapter(d) ==
    /\ drain[d].pc = "adapter"
    /\ IF hub = "up"
       THEN drain' = [drain EXCEPT ![d].pc = "first", ![d].stale = old] /\ UNCHANGED row
       ELSE drain' = [drain EXCEPT ![d] = NoDrain] /\ UpdateAll(Range(drain[d].items), "failed")
    /\ UNCHANGED <<stored, outq, pend, bound, air, ackd, caller, late, taken, up, old, hub, lives>>

AtItem(d) == drain[d].pc \in {"first", "item"} /\ drain[d].items # <<>>

Item(d) == Head(drain[d].items)

DrainNext(d) == drain' = [drain EXCEPT ![d].pc = "item", ![d].items = Tail(@)]

DrainEnds(d) ==
    /\ drain[d].pc \in {"first", "item"} /\ drain[d].items = <<>>
    /\ drain' = [drain EXCEPT ![d] = NoDrain]
    /\ UNCHANGED <<row, stored, outq, pend, bound, air, ackd, caller, late, taken, up, old, hub, lives>>

(* The item is too old, or its retry is refused for good. *)
DrainGivesUp(d) ==
    /\ AtItem(d)
    /\ \/ Item(d) \in drain[d].stale /\ Update(Item(d), "expired")
       \/ Item(d) \notin drain[d].stale /\ up[drain[d].radio] /\ Update(Item(d), "failed")
    /\ DrainNext(d)
    /\ UNCHANGED <<stored, outq, pend, bound, air, ackd, caller, late, taken, up, old, hub, lives>>

(* Mutant of Requeued: the item at which the drain stops is left out. *)
RequeuedRest(d) == outq[drain[d].radio] \o Tail(drain[d].items)

(* This item and the rest go back, behind what was queued meanwhile. *)
Requeued(d) == outq[drain[d].radio] \o drain[d].items

(* The radio is gone again. *)
DrainUnavailable(d) ==
    /\ AtItem(d) /\ Item(d) \notin drain[d].stale /\ ~ up[drain[d].radio]
    /\ outq' = [outq EXCEPT ![drain[d].radio] = Requeued(d)]
    /\ drain' = [drain EXCEPT ![d] = NoDrain]
    /\ UNCHANGED <<row, stored, pend, bound, air, ackd, caller, late, taken, up, old, hub, lives>>

(* drain_time_budget_seconds are over: what is too old expires. *)
DrainBudget(d) ==
    /\ drain[d].pc = "item" /\ AtItem(d) /\ Item(d) \notin drain[d].stale
    /\ outq' = [outq EXCEPT ![drain[d].radio] =
                    @ \o Kept(drain[d].items, Msgs \ drain[d].stale)]
    /\ UpdateAll(Range(drain[d].items) \cap drain[d].stale, "expired")
    /\ drain' = [drain EXCEPT ![d] = NoDrain]
    /\ UNCHANGED <<stored, pend, bound, air, ackd, caller, late, taken, up, old, hub, lives>>

(* The radio takes the item, or fails in a way that is worth a retry. *)
DrainSend(d) ==
    /\ AtItem(d) /\ Item(d) \notin drain[d].stale /\ up[drain[d].radio]
    /\ \/ /\ Transmit(Item(d))
          /\ drain' = [drain EXCEPT ![d].pc = "mark"]
          /\ UNCHANGED outq
       \/ /\ outq' = [outq EXCEPT ![drain[d].radio] = Append(@, Item(d))]
          /\ DrainNext(d)
          /\ UNCHANGED <<air, taken>>
    /\ UNCHANGED <<row, stored, pend, bound, ackd, caller, late, up, old, hub, lives>>

(* Mutant of DrainMark: the ACK waiter is released before the status is set. *)
DrainMarkAfterTrack(d) ==
    /\ drain[d].pc \in {"mark", "track"}
    /\ IF drain[d].pc = "mark"
       THEN /\ Track(Item(d))
            /\ drain' = [drain EXCEPT ![d].pc = "track"]
       ELSE /\ Update(Item(d), "sent")
            /\ DrainNext(d)
            /\ UNCHANGED <<pend, bound>>
    /\ UNCHANGED <<stored, outq, air, ackd, caller, late, taken, up, old, hub, lives>>

(* The item is marked as sent, and then tracked. *)
DrainMark(d) ==
    /\ drain[d].pc \in {"mark", "track"}
    /\ IF drain[d].pc = "mark"
       THEN /\ Update(Item(d), "sent")
            /\ drain' = [drain EXCEPT ![d].pc = "track"]
            /\ UNCHANGED <<pend, bound>>
       ELSE /\ Track(Item(d))
            /\ DrainNext(d)
    /\ UNCHANGED <<stored, outq, air, ackd, caller, late, taken, up, old, hub, lives>>

DrainStep(d) == \/ DrainAdapter(d) \/ DrainEnds(d) \/ DrainGivesUp(d) \/ DrainUnavailable(d)
                \/ DrainBudget(d) \/ DrainSend(d) \/ DrainMark(d)

-----------------------------------------------------------------------------
(* _delivery_timeout_loop, besides its drains *)

LoopIdle == hub = "up" /\ drain["loop"].pc = "idle"

(* expire_stale_pending: the entry is popped; whoever pops it sets the status. *)
ExpirePending(m) ==
    /\ LoopIdle /\ m \in Range(pend[Radio[m]])
    /\ pend' = Untracked(m)
    /\ drain' = [drain EXCEPT !["loop"] = [NoDrain EXCEPT !.pc = "timeout", !.items = <<m>>]]
    /\ UNCHANGED <<row, stored, outq, bound, air, ackd, caller, late, taken, up, old, hub, lives>>

(* Mutant of TimedOut: the popped entry is dropped without a status. *)
TimedOutDropped ==
    /\ drain["loop"].pc = "timeout"
    /\ drain' = [drain EXCEPT !["loop"] = NoDrain]
    /\ UNCHANGED <<row, stored, outq, pend, bound, air, ackd, caller, late, taken, up, old, hub, lives>>

TimedOut ==
    /\ drain["loop"].pc = "timeout"
    /\ Update(Item("loop"), "timeout")
    /\ drain' = [drain EXCEPT !["loop"] = NoDrain]
    /\ UNCHANGED <<stored, outq, pend, bound, air, ackd, caller, late, taken, up, old, hub, lives>>

(* Mutant of ExpireQueued: nothing looks at the age of queued messages. *)
ExpireQueuedNever == FALSE /\ UNCHANGED hubVars

(* expire_queued_outbound *)
ExpireQueued ==
    LET gone == (UNION {Range(outq[r]) : r \in Radios}) \cap old
    IN  /\ LoopIdle /\ gone # {}
        /\ outq' = [r \in Radios |-> Kept(outq[r], Msgs \ gone)]
        /\ UpdateAll(gone, "expired")
        /\ UNCHANGED <<stored, pend, bound, air, ackd, caller, drain, late, taken, up, old, hub, lives>>

TimeoutStep == (\E m \in Msgs : ExpirePending(m)) \/ TimedOut

-----------------------------------------------------------------------------
(* Stop, crash and restart *)

(* stop: the adapters are dropped. *)
StopHub ==
    /\ hub = "up"
    /\ hub' = "closing"
    /\ UNCHANGED <<row, stored, outq, pend, bound, air, ackd, caller, drain, late, taken, up, old, lives>>

(* Everything but the store is forgotten; calls in progress come to nothing. *)
Forget ==
    /\ hub' = "down"
    /\ outq' = [r \in Radios |-> <<>>]
    /\ pend' = [r \in Radios |-> <<>>]
    /\ bound' = {} /\ air' = {}
    /\ ackd' = [m \in Msgs |-> "none"]
    /\ caller' = [m \in Msgs |-> CASE caller[m] = "new" -> "new"
                                 [] caller[m] \in {"append", "queued"} -> "queued"
                                 [] OTHER -> "done"]
    /\ drain' = [d \in HubDrains |-> NoDrain]
    /\ UNCHANGED <<row, stored, taken, up, old, lives>>

(* What a drain has still to send *)
Unsent(d) ==
    CASE drain[d].pc \in {"first", "item"} -> Range(drain[d].items)
      [] drain[d].pc \in {"mark", "track"} -> Range(Tail(drain[d].items))
      [] OTHER -> {}

(* The threads are joined for five seconds and the store is closed; a drain
   that is still busy keeps its messages.                                  *)
CloseHub ==
    /\ hub = "closing"
    /\ late' = late \cup UNION {Unsent(d) : d \in HubDrains}
    /\ Forget

Crash == hub # "down" /\ late' = {} /\ Forget

(* A drain of an earlier life sends; it can record nothing. *)
LateSend(m) ==
    /\ m \in late /\ Kind[Radio[m]] # "lxmf"
    /\ late' = late \ {m}
    /\ taken' = [taken EXCEPT ![m] = @ + (IF up[Radio[m]] THEN 1 ELSE 0)]
    /\ UNCHANGED <<row, stored, outq, pend, bound, air, ackd, caller, drain, up, old, hub, lives>>

(* The queued rows of a radio that have not expired, oldest first *)
Recoverable(r) == Kept(stored, {m \in Msgs \ old : Radio[m] = r /\ row[m] = "queued"})

(* start, with _recover_queued_messages: what does not fit expires. *)
StartHub ==
    LET fits(r) == SubSeq(Recoverable(r), 1, IF Len(Recoverable(r)) < QueueMax
                                             THEN Len(Recoverable(r)) ELSE QueueMax)
    IN  /\ hub = "down" /\ lives < MaxLives
        /\ hub' = "up" /\ lives' = lives + 1
        /\ outq' = [r \in Radios |-> fits(r)]
        /\ row' = [m \in Msgs |-> IF /\ row[m] = "queued"
                                     /\ m \in old \/ (m \in Range(Recoverable(Radio[m])) /\ m \notin Range(fits(Radio[m])))
                                  THEN "expired" ELSE row[m]]
        /\ UNCHANGED <<stored, pend, bound, air, ackd, caller, drain, late, taken, up, old>>

-----------------------------------------------------------------------------
(* The world: radios come and go, messages grow old. *)

LinkChanges(r) ==
    /\ up' = [up EXCEPT ![r] = ~ @]
    /\ UNCHANGED <<row, stored, outq, pend, bound, air, ackd, caller, drain, late, taken, old, hub, lives>>

GrowsOld(m) ==
    /\ caller[m] \in {"append", "queued"} /\ m \notin old
    /\ old' = old \cup {m}
    /\ UNCHANGED <<row, stored, outq, pend, bound, air, ackd, caller, drain, late, taken, up, hub, lives>>

HubNext ==
    \/ \E m \in Msgs :
        \/ SendMessage(m) \/ SenderStep(m) \/ AckStored(m) \/ ReadReceipt(m)
        \/ DeleteRow(m) \/ LateSend(m) \/ GrowsOld(m)
        \/ \E s \in {"delivered", "delivery_failed", "propagated"} : Acknowledge(m, s)
    \/ \E d \in HubDrains : DrainStep(d) \/ \E r \in Radios : DrainTake(d, r)
    \/ TimeoutStep \/ ExpireQueued
    \/ StopHub \/ CloseHub \/ Crash \/ StartHub
    \/ \E r \in Radios : LinkChanges(r)

HubSpec == HubInit /\ [][HubNext]_hubVars

-----------------------------------------------------------------------------
(* Properties *)

(* Every variable keeps its type, and a message is stored once. *)
HubTypeOK ==
    /\ row \in [Msgs -> {"none", "queued", "sent", "failed", "expired", "timeout", "delivered",
                         "delivery_failed", "propagated", "broadcast_sent", "read", "deleted"}]
    /\ IsInjective(stored) /\ Range(stored) = {m \in Msgs : row[m] # "none"}
    /\ \A r \in Radios : \A m \in Range(outq[r]) \cup Range(pend[r]) : Radio[m] = r
    /\ bound \cup air \cup late \cup old \subseteq Msgs

(* A message that waits is remembered: it is in its queue, in the hands of a
   drain, or its sender is about to queue it.                              *)
QueuedIsRemembered ==
    hub = "up" =>
        \A m \in Msgs : row[m] = "queued" =>
            \/ caller[m] = "append"
            \/ m \in Range(outq[Radio[m]])
            \/ \E d \in HubDrains : m \in Range(drain[d].items)

(* A message goes out twice only when the hub was started again in between:
   two drains never have the same message.                                 *)
SentOncePerLife == \A m \in Msgs : taken[m] <= lives

(* The status of a message moves forward, whatever the order in which sends,
   drains, acknowledgements and timeouts come.                             *)
Abstract == INSTANCE Outbox WITH Messages <- Msgs, status <- row

ForwardOnly == Abstract!OutboxSpec

(* "Terminal statuses are final - once set, later updates from slower sources
   must not overwrite them": the timeout loop never does.                  *)
TimeoutNeverOverwrites ==
    [][\A m \in Msgs : row[m] \in Terminal => row'[m] \notin {"timeout", "expired"}]_hubVars

(* A queued message does not wait for ever: it is sent, given up or expires. *)
QueuedSettles == \A m \in Msgs : row[m] = "queued" ~> row[m] # "queued" \/ hub # "up"

(* A tracked message is settled, if only by a timeout. *)
TrackedSettles ==
    \A m \in Msgs : m \in Range(pend[Radio[m]]) /\ row[m] = "sent"
                        ~> row[m] # "sent" \/ hub # "up"

(* The messaging hub: every queued message is remembered, one life of the hub sends
   it once, its status only advances, and a late timeout overwrites no answer. *)
MessagesKept ==
    /\ [](/\ HubTypeOK
          /\ QueuedIsRemembered
          /\ SentOncePerLife)
    /\ ForwardOnly
    /\ TimeoutNeverOverwrites
=============================================================================
