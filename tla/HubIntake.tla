----------------------------- MODULE HubIntake -----------------------------
(***************************************************************************)
(* What comes in to the messaging hub (builtin_plugins/messaging_hub.py),  *)
(* in four parts that share nothing but the constants:                     *)
(*   - the message store with the adapters that fill it, its readers, its  *)
(*     pruning, clock changes, stops, crashes and restarts (Hi...);        *)
(*   - the snapshot for the dashboard and its two caches (Sn...);          *)
(*   - the LXMF propagation node (Pn...);                                  *)
(*   - the change of an old store's columns (Sc...).                       *)
(* Times are counted in steps of a bounded clock.                          *)
(***************************************************************************)
EXTENDS Integers, FiniteSets, SequencesExt

CONSTANTS
    HiMsg,           \* the messages: transport, sub-transport, type, peer, ...
    HistoryLimit,    \* message_history_limit, per transport and sub-transport
    PruneGap,        \* the 30 s of _maybe_prune
    HiWallMax,       \* bound on the wall clock
    HiLives,         \* bound on starts of the hub
    Reactions,       \* <<packet id, emoji with its sender>>
    SnWriters,       \* threads that change the store, as often as there are threads
    Snappers,        \* threads in broadcast_snapshot
    CastTtl, CastMin, ConvTtl,    \* the caches' times
    SnTimeMax,       \* bound on the monotonic clock
    PnNodes, PnHops, \* propagation nodes, and the hops they can be away
    PnKept,          \* _MAX_PROP_NODES
    PnFailsMax,      \* bound on counted failures
    PnStale,         \* _PROP_STALE_S
    PnTimeMax,       \* bound on the clock of the announces
    PnFailing,       \* threads that report a failed delivery
    OldRow           \* rows of an old store: transport, sub-transport, type, peer, channel

ASSUME HubIntakeAssumption ==
    /\ {HistoryLimit, PruneGap, HiWallMax, HiLives, PnKept, PnFailsMax, PnTimeMax} \subseteq Nat
    /\ {CastTtl, CastMin, ConvTtl, SnTimeMax, PnStale} \subseteq Nat /\ PnHops \subseteq Nat
    /\ IsFiniteSet(DOMAIN HiMsg)

NoChannel == "none"
Indexed == {"0", "1", "2", "3", "4", "5", "6", "7"}

(* _compute_contact_id: the conversation of a message.  Only Meshtastic
   broadcasts are told apart by channel.                                   *)
ContactId(m) ==
    IF m.type = "broadcast"
    THEN <<"broadcast", m.transport, m.sub,
           IF m.transport = "meshtastic" THEN m.channel ELSE NoChannel>>
    ELSE <<m.peer, m.sub>>

-----------------------------------------------------------------------------
(* The message store *)

HiMsgs == DOMAIN HiMsg

VARIABLES
    hiRows,      \* the messages with a row, in the order of their ids
    hiStamp,     \* the row's timestamp
    hiUnread,    \* rows with read = 0
    hiReacts,    \* the reactions in a row's metadata
    hiStored,    \* the messages that were ever stored
    hiLast,      \* _last_ts
    hiWall,      \* time.time()
    hiPruned,    \* _last_prune_ts, -1 when it is 0.0
    hiHandler,   \* the thread that brings a message; "done" has published it
    hiAdapters,  \* transports with a registered adapter
    hiLife, hiStarts

hiTable == <<hiRows, hiStamp, hiUnread, hiReacts, hiStored, hiLast>>
hiTimes == <<hiWall, hiPruned>>
hiHub == <<hiAdapters, hiLife, hiStarts>>
hiVars == <<hiTable, hiTimes, hiHandler, hiHub>>

Transports == {HiMsg[m].transport : m \in HiMsgs}

HiInit ==
    /\ hiRows = <<>> /\ hiUnread = {} /\ hiStored = {}
    /\ hiStamp = [m \in HiMsgs |-> 0]
    /\ hiReacts = [m \in HiMsgs |-> {}]
    /\ hiLast = 0 /\ hiWall = 1 /\ hiPruned = -1
    /\ hiHandler = [m \in HiMsgs |-> "new"]
    /\ hiAdapters = {} /\ hiLife = "starting" /\ hiStarts = 1

Listed == Range(hiRows)

DeleteRows(S) ==
    /\ hiRows' = SelectSeq(hiRows, LAMBDA m : m \notin S)
    /\ hiStamp' = [m \in HiMsgs |-> IF m \in S THEN 0 ELSE hiStamp[m]]
    /\ hiReacts' = [m \in HiMsgs |-> IF m \in S THEN {} ELSE hiReacts[m]]
    /\ hiUnread' = hiUnread \ S
    /\ UNCHANGED <<hiStored, hiLast>>

HiHandlerAt(m, label) == hiHandler' = [hiHandler EXCEPT ![m] = label]

(* The rest of start: register_adapter for each transport; an adapter that does
   not start is left out.                                                  *)
RegisterAdapters(ts) ==
    /\ hiLife = "starting" /\ hiLife' = "up"
    /\ hiAdapters' = ts
    /\ UNCHANGED <<hiTable, hiTimes, hiHandler, hiStarts>>

(* The same transport and sub-transport *)
SameBucket(n, m) == HiMsg[n].transport = HiMsg[m].transport /\ HiMsg[n].sub = HiMsg[m].sub

(* Between start and stop of its adapter *)
Subscribed(m) == HiMsg[m].transport \in hiAdapters

(* An adapter's callback for an incoming message (_on_lxmf_message) *)
Arrives(m) ==
    /\ hiHandler[m] = "new" /\ Subscribed(m)
    /\ HiHandlerAt(m, "store")
    /\ UNCHANGED <<hiTable, hiTimes, hiHub>>

(* The thread of a link brings one message after the other (_on_mesh_event);
   MeshCore's event is offloaded, several at a time (_on_meshcore_event).  *)
MessageArrives(m) ==
    /\ HiMsg[m].direction = "received"
    /\ HiMsg[m].transport # "meshcore" =>
           \A n \in HiMsgs : SameBucket(n, m) /\ HiMsg[n].direction = "received" =>
                               hiHandler[n] \in {"new", "done", "lost"}
    /\ Arrives(m)

(* MessageStore.store: a clock that went back does not put a row before one
   that is there.                                                          *)
Stamp == IF hiWall <= hiLast THEN hiLast + 1 ELSE hiWall

Insert(m) ==
    /\ hiRows' = Append(hiRows, m) /\ hiStored' = hiStored \cup {m}
    /\ hiStamp' = [hiStamp EXCEPT ![m] = Stamp] /\ hiLast' = Stamp
    /\ hiUnread' = IF HiMsg[m].direction = "received" THEN hiUnread \cup {m} ELSE hiUnread

(* The store is closed: the event is skipped. *)
StoreFails(m) ==
    /\ hiHandler[m] = "store" /\ hiLife = "closed" /\ HiHandlerAt(m, "lost")
    /\ UNCHANGED <<hiTable, hiTimes, hiHub>>

(* _on_adapter_message: the row *)
StoreMessage(m) ==
    /\ hiHandler[m] = "store" /\ hiLife # "closed"
    /\ Insert(m)
    /\ HiHandlerAt(m, "decide")
    /\ UNCHANGED <<hiReacts, hiTimes, hiHub>>

(* A message of our own is stored read (_finalize_send). *)
SendsOwn(m) ==
    /\ HiMsg[m].direction = "sent" /\ hiHandler[m] = "new"
    /\ hiLife = "up" /\ Subscribed(m)
    /\ HiHandlerAt(m, "store")
    /\ UNCHANGED <<hiTable, hiTimes, hiHub>>

(* _maybe_prune: at most once in a while, by the wall clock *)
MaybePrune(m) ==
    /\ hiHandler[m] = "decide"
    /\ IF HistoryLimit > 0 /\ (hiPruned < 0 \/ hiWall - hiPruned >= PruneGap)
       THEN hiPruned' = hiWall /\ HiHandlerAt(m, "prune")
       ELSE UNCHANGED hiPruned /\ HiHandlerAt(m, "publish")
    /\ UNCHANGED <<hiTable, hiWall, hiHub>>

(* Its quota is the bucket's own. *)
Bucket(m) == {n \in Listed : SameBucket(n, m)}

(* Mutant of PrunedBefore: only the age counts. *)
PrunedByAge(m, n) == hiStamp[m] < hiStamp[n]

(* ORDER BY read DESC, timestamp ASC *)
PrunedBefore(m, n) ==
    \/ m \notin hiUnread /\ n \in hiUnread
    \/ (m \in hiUnread <=> n \in hiUnread) /\ hiStamp[m] < hiStamp[n]

(* MessageStore.prune: what is over the limit of its bucket *)
Excess ==
    {m \in Listed : Cardinality({n \in Bucket(m) : PrunedBefore(n, m)})
                        < Cardinality(Bucket(m)) - HistoryLimit}

Prune(m) ==
    /\ hiHandler[m] = "prune"
    /\ DeleteRows(IF hiLife = "closed" THEN {} ELSE Excess)
    /\ HiHandlerAt(m, "publish")
    /\ UNCHANGED <<hiTimes, hiHub>>

(* MESSAGE_RECEIVED, or MESSAGE_SENT for a message of our own *)
PublishMessage(m) ==
    /\ hiHandler[m] = "publish"
    /\ HiHandlerAt(m, "done")
    /\ UNCHANGED <<hiTable, hiTimes, hiHub>>

(* add_reaction: the newest row with the packet id that is reacted to gets the
   reaction, unless it has it; the same packet may be there by LoRa and MQTT. *)
Reacted(p) ==
    LET rows == {m \in Listed : HiMsg[m].transport = "meshtastic" /\ HiMsg[m].packet = p}
    IN  {m \in rows : \A n \in rows : hiStamp[n] <= hiStamp[m]}

ReactionStored(x) ==
    /\ hiLife # "closed" /\ "meshtastic" \in hiAdapters
    /\ \E m \in Reacted(x[1]) : hiReacts' = [hiReacts EXCEPT ![m] = @ \cup {x}]
    /\ UNCHANGED <<hiRows, hiStamp, hiUnread, hiStored, hiLast, hiTimes, hiHandler, hiHub>>

Conversation(c) == {m \in Listed : ContactId(HiMsg[m]) = c}

(* mark_read *)
MarkRead(c) ==
    /\ hiLife = "up" /\ hiUnread \cap Conversation(c) # {}
    /\ hiUnread' = hiUnread \ Conversation(c)
    /\ UNCHANGED <<hiRows, hiStamp, hiReacts, hiStored, hiLast, hiTimes, hiHandler, hiHub>>

(* delete_conversation *)
DeleteConversation(c) ==
    /\ hiLife = "up" /\ Conversation(c) # {}
    /\ DeleteRows(Conversation(c))
    /\ UNCHANGED <<hiTimes, hiHandler, hiHub>>

(* stop: the adapters ... *)
StopAdapters ==
    /\ hiLife = "up" /\ hiLife' = "stopping" /\ hiAdapters' = {}
    /\ UNCHANGED <<hiTable, hiTimes, hiHandler, hiStarts>>

(* ... and then the store *)
CloseStore ==
    /\ hiLife = "stopping" /\ hiLife' = "closed"
    /\ UNCHANGED <<hiTable, hiTimes, hiHandler, hiAdapters, hiStarts>>

(* A crash ends every thread. *)
HiCrash ==
    /\ hiLife # "closed"
    /\ hiLife' = "closed" /\ hiAdapters' = {}
    /\ hiHandler' = [m \in HiMsgs |-> IF hiHandler[m] \in {"new", "done"} THEN hiHandler[m]
                                      ELSE "lost"]
    /\ UNCHANGED <<hiTable, hiTimes, hiStarts>>

(* SELECT MAX(timestamp) *)
LastStored ==
    IF hiRows = <<>> THEN 0
    ELSE CHOOSE t \in {hiStamp[m] : m \in Listed} : \A m \in Listed : hiStamp[m] <= t

(* start, with MessageStore.__init__ *)
OpenStore ==
    /\ hiLife = "closed" /\ hiStarts < HiLives
    /\ hiLife' = "starting" /\ hiStarts' = hiStarts + 1
    /\ hiLast' = LastStored /\ hiPruned' = -1
    /\ UNCHANGED <<hiRows, hiStamp, hiUnread, hiReacts, hiStored, hiWall, hiHandler, hiAdapters>>

(* The wall clock goes on, or is set back. *)
WallClock ==
    /\ hiWall' \in {hiWall + 1, 1} /\ hiWall' <= HiWallMax
    /\ UNCHANGED <<hiTable, hiPruned, hiHandler, hiHub>>

HiDeletes == \E c \in {ContactId(HiMsg[m]) : m \in Listed} : DeleteConversation(c)

HiNext ==
    \/ \E ts \in SUBSET Transports : RegisterAdapters(ts)
    \/ \E m \in HiMsgs :
           \/ MessageArrives(m) \/ SendsOwn(m) \/ StoreMessage(m) \/ StoreFails(m)
           \/ MaybePrune(m) \/ Prune(m) \/ PublishMessage(m)
    \/ \E x \in Reactions : ReactionStored(x)
    \/ \E c \in {ContactId(HiMsg[m]) : m \in Listed} : MarkRead(c)
    \/ HiDeletes \/ StopAdapters \/ CloseStore \/ HiCrash \/ OpenStore \/ WallClock

HiSpec == HiInit /\ [][HiNext]_hiVars

-----------------------------------------------------------------------------
(* The snapshot for the dashboard.  The store's content is its number of
   changes; a snapshot shows the unread counts of one content and the
   conversations of another.                                               *)

NotCached == [at |-> -1, unread |-> 0, conv |-> 0]

VARIABLES
    snContent,   \* changes of the store so far
    snWhen,      \* when the store got each content
    snTime,      \* time.monotonic()
    snCast,      \* _broadcast_cache
    snConv,      \* _conv_cache
    snDirty,     \* _broadcast_cache_dirty_ts is set
    snWriter,    \* writers: "idle", or what is to be invalidated
    snapper      \* threads in broadcast_snapshot

snVars == <<snContent, snWhen, snTime, snCast, snConv, snDirty, snWriter, snapper>>

SnIdle == [pc |-> "idle", now |-> 0, convNow |-> 0, unread |-> 0, conv |-> 0]

SnInit ==
    /\ snContent = 0 /\ snWhen = <<>> /\ snTime = 0
    /\ snCast = NotCached /\ snConv = NotCached /\ snDirty = FALSE
    /\ snWriter = [w \in SnWriters |-> "idle"]
    /\ snapper = [s \in Snappers |-> SnIdle]

(* A message is stored, marked as read, or its conversation is deleted. *)
ChangeStore(w, kind) ==
    /\ snWriter[w] = "idle" /\ snContent < Cardinality(SnWriters)
    /\ snContent' = snContent + 1 /\ snWhen' = Append(snWhen, snTime)
    /\ snWriter' = [snWriter EXCEPT ![w] = IF kind = "deleted" THEN "idle" ELSE kind]
    /\ UNCHANGED <<snTime, snCast, snConv, snDirty, snapper>>

(* _invalidate_broadcast_cache, on MESSAGE_RECEIVED and MESSAGE_SENT *)
Invalidate(w) ==
    /\ snWriter[w] = "message"
    /\ snWriter' = [snWriter EXCEPT ![w] = "idle"]
    /\ snConv' = NotCached /\ snDirty' = TRUE
    /\ UNCHANGED <<snContent, snWhen, snTime, snCast, snapper>>

(* mark_read: the snapshot is dropped, the conversations are not. *)
DropSnapshot(w) ==
    /\ snWriter[w] = "read"
    /\ snWriter' = [snWriter EXCEPT ![w] = "idle"]
    /\ snCast' = NotCached
    /\ UNCHANGED <<snContent, snWhen, snTime, snConv, snDirty, snapper>>

(* A call is answered from the cache while that is young enough ... *)
CacheServes ==
    /\ snCast # NotCached
    /\ \/ snTime - snCast.at < CastMin
       \/ snTime - snCast.at < CastTtl /\ ~ snDirty

(* ... and computes a new snapshot otherwise. *)
AskSnapshot(s) ==
    /\ snapper[s].pc = "idle"
    /\ ~ CacheServes
    /\ snapper' = [snapper EXCEPT ![s] = [SnIdle EXCEPT !.pc = "unread", !.now = snTime]]
    /\ UNCHANGED <<snContent, snWhen, snTime, snCast, snConv, snDirty, snWriter>>

(* get_unread_counts_grouped *)
CountUnread(s) ==
    /\ snapper[s].pc = "unread"
    /\ snapper' = [snapper EXCEPT ![s].pc = "conv", ![s].unread = snContent]
    /\ UNCHANGED <<snContent, snWhen, snTime, snCast, snConv, snDirty, snWriter>>

(* _get_cached_conversations *)
CachedConversations(s) ==
    /\ snapper[s].pc = "conv"
    /\ snapper' = [snapper EXCEPT ![s] =
           IF snConv # NotCached /\ snTime - snConv.at < ConvTtl
           THEN [@ EXCEPT !.pc = "store", !.conv = snConv.conv]
           ELSE [@ EXCEPT !.pc = "query", !.convNow = snTime]]
    /\ UNCHANGED <<snContent, snWhen, snTime, snCast, snConv, snDirty, snWriter>>

(* MessageStore.get_conversations *)
QueryConversations(s) ==
    /\ snapper[s].pc = "query"
    /\ snapper' = [snapper EXCEPT ![s].pc = "keep", ![s].conv = snContent]
    /\ UNCHANGED <<snContent, snWhen, snTime, snCast, snConv, snDirty, snWriter>>

KeepConversations(s) ==
    /\ snapper[s].pc = "keep"
    /\ snConv' = [NotCached EXCEPT !.at = snapper[s].convNow, !.conv = snapper[s].conv]
    /\ snapper' = [snapper EXCEPT ![s].pc = "store"]
    /\ UNCHANGED <<snContent, snWhen, snTime, snCast, snDirty, snWriter>>

Result(s) == [at |-> snapper[s].now, unread |-> snapper[s].unread, conv |-> snapper[s].conv]

(* The cache is as old as the call that filled it. *)
KeepSnapshot(s) ==
    /\ snapper[s].pc = "store"
    /\ snCast' = Result(s)
    /\ snapper' = [snapper EXCEPT ![s].pc = "serve"]
    /\ UNCHANGED <<snContent, snWhen, snTime, snConv, snDirty, snWriter>>

(* The flag is cleared, whatever was published since the counts were read. *)
ServeSnapshot(s) ==
    /\ snapper[s].pc = "serve"
    /\ snDirty' = FALSE
    /\ snapper' = [snapper EXCEPT ![s] = SnIdle]
    /\ UNCHANGED <<snContent, snWhen, snTime, snCast, snConv, snWriter>>

SnTick ==
    /\ snTime < SnTimeMax /\ snTime' = snTime + 1
    /\ UNCHANGED <<snContent, snWhen, snCast, snConv, snDirty, snWriter, snapper>>

SnNext ==
    \/ \E w \in SnWriters : \/ \E kind \in {"message", "read", "deleted"} : ChangeStore(w, kind)
                            \/ Invalidate(w) \/ DropSnapshot(w)
    \/ \E s \in Snappers : \/ AskSnapshot(s) \/ CountUnread(s) \/ CachedConversations(s)
                           \/ QueryConversations(s) \/ KeepConversations(s) \/ KeepSnapshot(s)
                           \/ ServeSnapshot(s)
    \/ SnTick

SnSpec == SnInit /\ [][SnNext]_snVars

-----------------------------------------------------------------------------
(* The LXMF propagation node *)

VARIABLES
    pnKnown,     \* _propagation_nodes: the nodes in it
    pnHops, pnSeen, pnFails,   \* their entries
    pnChosen,    \* _current_prop_node
    pnRouter,    \* the node the router sends to
    pnCall,      \* threads: the node to be set outside the lock
    pnTime

pnVars == <<pnKnown, pnHops, pnSeen, pnFails, pnChosen, pnRouter, pnCall, pnTime>>

NoNode == "none"
PnThreads == PnFailing \cup {"announce"}

PnInit ==
    /\ pnKnown = {}
    /\ pnHops = [n \in PnNodes |-> 0] /\ pnSeen = pnHops /\ pnFails = pnHops
    /\ pnChosen = NoNode /\ pnRouter = NoNode
    /\ pnCall = [t \in PnThreads |-> NoNode]
    /\ pnTime = 0

Fresh(n) == pnTime - pnSeen[n] < PnStale

(* Fewer hops, then heard of later *)
Ranks(hops, seen, n, k) == hops[n] < hops[k] \/ (hops[n] = hops[k] /\ seen[n] > seen[k])

(* _select_best_prop_node among fresh entries: the first with fewer than three
   failures, else the first of those with the fewest failures.             *)
Best(known, hops, seen, fails) ==
    LET good == {n \in known : fails[n] < 3}
        least == {n \in known : \A k \in known : fails[n] <= fails[k]}
        of == IF good # {} THEN good ELSE least
    IN  {n \in of : \A k \in of : ~ Ranks(hops, seen, k, n)}

(* What the locked section of a thread chooses, and has yet to tell the router *)
Chooses(t, known, hops, seen, fails) ==
    LET best == Best({n \in known : pnTime - seen[n] < PnStale}, hops, seen, fails)
    IN  IF best = {} THEN UNCHANGED <<pnChosen, pnCall>>
        ELSE \E n \in best :
                 /\ pnChosen' = n
                 /\ pnCall' = IF n = pnChosen THEN pnCall ELSE [pnCall EXCEPT ![t] = n]

(* The entries of the nodes in a set; the others are forgotten. *)
Of(entry, kept) == [n \in PnNodes |-> IF n \in kept THEN entry[n] ELSE 0]

(* _handle_propagation_announce: the entry is renewed, stale ones go, and the
   best few stay.                                                          *)
Announced(n, hops) ==
    LET all == pnKnown \cup {n}
        h == [pnHops EXCEPT ![n] = hops]
        s == [pnSeen EXCEPT ![n] = pnTime]
        f == [pnFails EXCEPT ![n] = 0]
        fresh == {k \in all : pnTime - s[k] < PnStale}
    IN  /\ pnCall["announce"] = NoNode
        /\ \E kept \in SUBSET fresh :
               /\ IF Cardinality(fresh) <= PnKept THEN kept = fresh
                  ELSE /\ Cardinality(kept) = PnKept
                       /\ \A k \in kept, o \in fresh \ kept : ~ Ranks(h, s, o, k)
               /\ pnKnown' = kept
               /\ pnHops' = Of(h, kept) /\ pnSeen' = Of(s, kept) /\ pnFails' = Of(f, kept)
               /\ Chooses("announce", kept, h, s, f)
        /\ UNCHANGED <<pnRouter, pnTime>>

(* _check_propagation_failover *)
DeliveryFailed(t) ==
    LET f == IF pnChosen \in pnKnown THEN [pnFails EXCEPT ![pnChosen] = @ + 1] ELSE pnFails
    IN  /\ pnCall[t] = NoNode /\ pnChosen # NoNode /\ pnKnown # {}
        /\ pnFails[pnChosen] < PnFailsMax
        /\ pnFails' = f
        /\ Chooses(t, pnKnown, pnHops, pnSeen, f)
        /\ UNCHANGED <<pnKnown, pnHops, pnSeen, pnRouter, pnTime>>

(* set_outbound_propagation_node, outside the lock *)
TellRouter(t) ==
    /\ pnCall[t] # NoNode
    /\ pnRouter' = pnCall[t]
    /\ pnCall' = [pnCall EXCEPT ![t] = NoNode]
    /\ UNCHANGED <<pnKnown, pnHops, pnSeen, pnFails, pnChosen, pnTime>>

(* prune_stale_propagation, by the maintenance loop *)
PruneStale ==
    /\ \E n \in pnKnown : ~ Fresh(n)
    /\ LET kept == {n \in pnKnown : Fresh(n)}
       IN  /\ pnKnown' = kept
           /\ pnHops' = Of(pnHops, kept) /\ pnSeen' = Of(pnSeen, kept)
           /\ pnFails' = Of(pnFails, kept)
    /\ UNCHANGED <<pnChosen, pnRouter, pnCall, pnTime>>

PnTick ==
    /\ pnTime < PnTimeMax /\ pnTime' = pnTime + 1
    /\ UNCHANGED <<pnKnown, pnHops, pnSeen, pnFails, pnChosen, pnRouter, pnCall>>

PnNext ==
    \/ \E n \in PnNodes, hops \in PnHops : Announced(n, hops)
    \/ \E t \in PnFailing : DeliveryFailed(t)
    \/ \E t \in PnThreads : TellRouter(t)
    \/ PruneStale \/ PnTick

PnSpec == PnInit /\ [][PnNext]_pnVars

-----------------------------------------------------------------------------
(* _migrate_schema: the columns a store of an older version lacks.  SQLite
   commits an added column at once, the values for the old rows later.     *)

VARIABLES
    scColumns,   \* the columns of the table, of those in ScColumn
    scConv,      \* contact_id of each old row
    scSub,       \* its sub_transport
    scGone,      \* rows that were dropped
    scPhase,     \* where start is
    scSeen,      \* the columns it found
    scGap,       \* a crash fell between a column and its values
    scFirst,     \* the rows when the store was ready for the first time
    scRuns

scVars == <<scColumns, scConv, scSub, scGone, scPhase, scSeen, scGap, scFirst, scRuns>>

OldRows == DOMAIN OldRow
ScColumn == {"contact_id", "read", "search_text", "sub_transport"}
V2Columns == ScColumn \ {"sub_transport"}
NoConv == <<"null">>
Rows == [conv |-> scConv, sub |-> scSub, gone |-> scGone]

(* What the versions before this one wrote: none, the sub-transport of
   broadcasts alone, or channels by name and for every transport.          *)
OldConv(r, columns) ==
    CASE columns = {} -> NoConv
      [] columns = V2Columns -> IF OldRow[r].type = "broadcast"
                                THEN <<"broadcast", OldRow[r].transport, OldRow[r].sub, NoChannel>>
                                ELSE <<OldRow[r].peer, "">>
      [] OTHER -> IF OldRow[r].type = "broadcast"
                  THEN <<"broadcast", OldRow[r].transport, OldRow[r].sub, OldRow[r].channel>>
                  ELSE <<OldRow[r].peer, OldRow[r].sub>>

ScInit ==
    /\ scColumns \in {{}, V2Columns, ScColumn}
    /\ scConv = [r \in OldRows |-> OldConv(r, scColumns)]
    /\ scSub = [r \in OldRows |-> IF scColumns = ScColumn THEN OldRow[r].sub ELSE ""]
    /\ scGone = {} /\ scPhase = "off" /\ scSeen = {} /\ scGap = FALSE
    /\ scFirst = <<>> /\ scRuns = 0

ScGoto(label) == scPhase' = label

ScBegin ==
    /\ scPhase = "off" /\ scRuns < HiLives
    /\ scSeen' = scColumns /\ scRuns' = scRuns + 1
    /\ ScGoto(IF "contact_id" \in scColumns THEN "v3" ELSE "contact_id")
    /\ UNCHANGED <<scColumns, scConv, scSub, scGone, scGap, scFirst>>

After(column) == CASE column = "contact_id" -> "read" [] column = "read" -> "search_text"
                   [] OTHER -> "fill"

(* ALTER TABLE ... ADD COLUMN, three times *)
AddColumn ==
    /\ scPhase \in V2Columns
    /\ scColumns' = scColumns \cup {scPhase} /\ ScGoto(After(scPhase))
    /\ UNCHANGED <<scConv, scSub, scGone, scSeen, scGap, scFirst, scRuns>>

(* Conversations by peer or by transport, for rows that have none *)
Backfill ==
    /\ scPhase = "fill" /\ ScGoto("v3")
    /\ scConv' = [r \in OldRows |->
           IF scConv[r] # NoConv THEN scConv[r]
           ELSE IF OldRow[r].type = "broadcast"
                THEN <<"broadcast", OldRow[r].transport, "", NoChannel>>
           ELSE <<OldRow[r].peer, "">>]
    /\ UNCHANGED <<scColumns, scSub, scGone, scSeen, scGap, scFirst, scRuns>>

AddSubColumn ==
    /\ scPhase = "v3"
    /\ IF "sub_transport" \in scSeen THEN ScGoto("clean") /\ UNCHANGED scColumns
       ELSE ScGoto("fill_sub") /\ scColumns' = scColumns \cup {"sub_transport"}
    /\ UNCHANGED <<scConv, scSub, scGone, scSeen, scGap, scFirst, scRuns>>

(* The sub-transport an old row gets *)
GuessedSub(r) ==
    CASE scConv[r] = <<"broadcast", "meshtastic", "mqtt", NoChannel>> -> "mqtt"
      [] scConv[r] = <<"broadcast", "meshtastic", "lora", NoChannel>> -> "lora"
      [] OldRow[r].transport = "meshtastic" /\ OldRow[r].type = "direct" -> "lora"
      [] OTHER -> ""

(* Direct Meshtastic messages move to the thread of their sub-transport. *)
BackfillSub ==
    /\ scPhase = "fill_sub" /\ ScGoto("clean")
    /\ scSub' = [r \in OldRows |-> GuessedSub(r)]
    /\ scConv' = [r \in OldRows |->
           IF OldRow[r].transport = "meshtastic" /\ OldRow[r].type = "direct" /\ scConv[r] # NoConv
           THEN <<OldRow[r].peer, GuessedSub(r)>> ELSE scConv[r]]
    /\ UNCHANGED <<scColumns, scGone, scSeen, scGap, scFirst, scRuns>>

(* Meshtastic broadcasts without a channel, or with the name of one *)
Dropped(r) ==
    /\ OldRow[r].type = "broadcast" /\ OldRow[r].transport = "meshtastic"
    /\ \/ scConv[r] \in {<<"broadcast", "meshtastic", s, NoChannel>> : s \in {"lora", "mqtt"}}
       \/ /\ scSub[r] = "mqtt" /\ scConv[r] # NoConv /\ scConv[r][3] = "mqtt"
          /\ scConv[r][4] \notin Indexed \cup {NoChannel}

(* The indexes need every column; then the rows that nothing would find are
   dropped or folded.                                                      *)
CleanUp ==
    /\ scPhase = "clean"
    /\ IF "read" \in scColumns
       THEN /\ ScGoto("ready")
            /\ scGone' = scGone \cup {r \in OldRows : Dropped(r)}
            /\ scConv' = [r \in OldRows |->
                   IF /\ OldRow[r].type = "broadcast" /\ OldRow[r].transport = "meshcore"
                      /\ scConv[r] # NoConv
                   THEN <<"broadcast", "meshcore", "", NoChannel>> ELSE scConv[r]]
            /\ scFirst' = IF scFirst = <<>>
                          THEN <<[Rows EXCEPT !.conv = scConv', !.gone = scGone']>> ELSE scFirst
       ELSE ScGoto("broken") /\ UNCHANGED <<scGone, scConv, scFirst>>
    /\ UNCHANGED <<scColumns, scSub, scSeen, scGap, scRuns>>

(* A stop or a crash *)
ScEnds ==
    /\ scPhase # "off" /\ ScGoto("off")
    /\ scGap' = (scGap \/ scPhase \in {"read", "search_text", "fill", "fill_sub"})
    /\ UNCHANGED <<scColumns, scConv, scSub, scGone, scSeen, scFirst, scRuns>>

ScNext == \/ ScBegin \/ AddColumn \/ Backfill \/ AddSubColumn \/ BackfillSub \/ CleanUp
          \/ ScEnds

ScSpec == ScInit /\ [][ScNext]_scVars

-----------------------------------------------------------------------------
(* Properties *)

(* The store has a row with its own id for what it lists, and the threads, the
   caches and the entries have their values.                               *)
HiTypeOK ==
    /\ Listed \cup hiStored \subseteq HiMsgs /\ hiUnread \subseteq Listed
    /\ hiStamp \in [HiMsgs -> Nat]
    /\ hiReacts \in [HiMsgs -> SUBSET Reactions]
    /\ hiHandler \in [HiMsgs -> {"new", "store", "decide", "prune", "publish", "done", "lost"}]
    /\ hiLast \in Nat /\ hiWall \in 1..HiWallMax /\ hiPruned \in -1..HiWallMax
    /\ hiAdapters \subseteq Transports
    /\ hiLife \in {"starting", "up", "stopping", "closed"} /\ hiStarts \in Nat

SnTypeOK ==
    /\ snContent = Len(snWhen) /\ snTime \in 0..SnTimeMax /\ snDirty \in BOOLEAN
    /\ snWriter \in [SnWriters -> {"idle", "message", "read"}]
    /\ \A c \in {snCast, snConv} :
           c.at \in -1..snTime /\ {c.unread, c.conv} \subseteq 0..snContent
    /\ \A s \in Snappers :
           /\ snapper[s].pc \in {"idle", "unread", "conv", "query", "keep", "store", "serve"}
           /\ {snapper[s].unread, snapper[s].conv} \subseteq 0..snContent

PnTypeOK ==
    /\ pnKnown \subseteq PnNodes /\ Cardinality(pnKnown) <= PnKept
    /\ pnHops \in [PnNodes -> PnHops \cup {0}] /\ pnSeen \in [PnNodes -> 0..PnTimeMax]
    /\ pnFails \in [PnNodes -> 0..PnFailsMax]
    /\ {pnChosen, pnRouter} \subseteq PnNodes \cup {NoNode}
    /\ pnCall \in [PnThreads -> PnNodes \cup {NoNode}]

ScTypeOK ==
    /\ scColumns \subseteq ScColumn /\ scSeen \subseteq ScColumn /\ scGone \subseteq OldRows
    /\ scGap \in BOOLEAN /\ scRuns \in 0..HiLives

(* Whatever the wall clock does, over restarts and deletions, the history is in
   the order in which its rows were written: readers sort by timestamp.    *)
HistoryInOrder ==
    \A i, j \in 1..Len(hiRows) : i < j => hiStamp[hiRows[i]] < hiStamp[hiRows[j]]

(* An event is published only for a message that was stored, also while the
   hub stops, crashes or is started again.                                 *)
EventsHaveRows == \A m \in HiMsgs : hiHandler[m] = "done" => m \in hiStored

Place(m) == CHOOSE i \in 1..Len(hiRows) : hiRows[i] = m

(* Besides deleted conversations, a row is given up only for the limit of its
   own bucket, an unread one only when no read row is left there, and the
   older of two that are alike.                                            *)
PruneIsFair ==
    [][ \A m \in Listed \ Range(hiRows') :
            \/ HiDeletes
            \/ /\ Cardinality(Bucket(m) \cap Range(hiRows')) = HistoryLimit
               /\ \A n \in Bucket(m) \cap Range(hiRows') :
                      /\ m \in hiUnread => n \in hiUnread
                      /\ (m \in hiUnread <=> n \in hiUnread) => Place(m) < Place(n) ]_hiVars

(* What was so before t *)
ContentBefore(t) == Cardinality({c \in 1..snContent : snWhen[c] < t})

(* Whatever writers and other calls do meanwhile, and although a flag that was
   set during a computation is cleared by it: the unread counts of a snapshot
   are at most the snapshot's time older than the call that asked for it, and
   its conversations at most their own cache's time more.                  *)
IsBounded(view, asked) ==
    /\ view.unread >= ContentBefore(asked - CastTtl + 1)
    /\ view.conv >= ContentBefore(asked - CastTtl - ConvTtl + 2)

SnapshotBounded ==
    /\ CacheServes => IsBounded(snCast, snTime)
    /\ \A s \in Snappers : snapper[s].pc = "serve" => IsBounded(Result(s), snapper[s].now)

(* A node that failed three times is kept only while no fresh candidate has
   failed less often.                                                      *)
FailingIsLeft ==
    pnChosen \in pnKnown /\ pnFails[pnChosen] >= 3 =>
        \A n \in pnKnown : Fresh(n) => pnFails[n] >= 3

(* Unless a crash fell between a column and its values, every row of an old
   store that is kept is in the conversation a message like it would join. *)
OldRowsJoin ==
    scPhase = "ready" /\ ~ scGap =>
        \A r \in OldRows \ scGone :
            \/ scConv[r] = ContactId([OldRow[r] EXCEPT !.sub = scSub[r]])
            \/ /\ OldRow[r].type = "broadcast" /\ OldRow[r].transport = "meshtastic"
               /\ scConv[r] = <<"broadcast", "meshtastic", "", NoChannel>>

(* The cleanups that run at every start change nothing once they are done. *)
CleanUpRepeats ==
    scPhase = "ready" => Rows = scFirst[1]

=============================================================================
