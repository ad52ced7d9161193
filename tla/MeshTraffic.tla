----------------------------- MODULE MeshTraffic -----------------------------
(***************************************************************************)
(* The traffic between LXMF and the mesh in                                *)
(* builtin_plugins/meshtastic_gateway.py: four machines that share        *)
(* nothing but the gateway's lock, each with its own specification.        *)
(*                                                                         *)
(*   out    LXMF messages to the radio, through a rate limit and a queue   *)
(*          that the connection loop drains;                               *)
(*   in     packets of the mesh to the LXMF recipients, through a queue    *)
(*          of deferred messages that the same loop retries;               *)
(*   seen   the cache that tells a packet heard twice (by MQTT and by      *)
(*          LoRa), bounded;                                                *)
(*   nodes  the table of the nodes heard by MQTT, bounded.                 *)
(***************************************************************************)
EXTENDS Integers, Sequences, FiniteSets, SequencesExt

CONSTANTS
    OutMsgs, OutMax,      \* LXMF messages; send_queue_size
    InItems, InMax,       \* a packet for a recipient; pending_lxmf_size
    InSources,            \* the threads that deliver packets (LoRa, MQTT)
    SeenKeys, SeenMax,    \* packet identities; dedup_max_entries
    SeenClean,            \* _dedup_cleanup_interval
    SeenAccepts,          \* bound: how often a packet is accepted
    NodeIds, NodeSelf,    \* node ids; the gateway's own
    NodeMax, NodeEvery    \* mqtt_max_nodes; inserts between two evictions

ASSUME MeshTrafficAssumption ==
    /\ {OutMax, InMax, SeenMax, SeenClean, SeenAccepts, NodeEvery} \subseteq Nat \ {0}
    /\ NodeSelf \in NodeIds /\ NodeMax \in Nat /\ NodeMax >= 2

-----------------------------------------------------------------------------
(* out: LXMF to the mesh *)

VARIABLES
    outAt,      \* where a message is
    outQueue,   \* _send_queue
    outOld,     \* messages past their time to live
    outCame,    \* history: the messages in the order they were queued
    outToken,   \* the rate limit lets the next one through
    outUp,      \* an interface is there
    outDrain,   \* where the drain is
    outAir      \* history: how often a message entered the radio's code

outVars == <<outAt, outQueue, outOld, outCame, outToken, outUp, outDrain, outAir>>

OutInit ==
    /\ outAt = [m \in OutMsgs |-> "new"]
    /\ outQueue = <<>> /\ outOld = {} /\ outCame = <<>>
    /\ outToken = TRUE /\ outUp = FALSE /\ outDrain = "idle"
    /\ outAir = [m \in OutMsgs |-> 0]

(* _check_send_rate_limit *)
TakeToken == outToken /\ outToken' = FALSE

(* _enqueue_lxmf_send: a full queue gives its oldest up *)
Enqueue(m) ==
    LET full == Len(outQueue) >= OutMax
        rest == IF full THEN Tail(outQueue) ELSE outQueue IN
    /\ outQueue' = Append(rest, m)
    /\ outAt' = [n \in OutMsgs |-> CASE n = m -> "queued"
                                     [] full /\ n = Head(outQueue) -> "displaced"
                                     [] OTHER -> outAt[n]]
    /\ outCame' = Append(outCame, m)

(* _handle_lxmf_message, up to the choice of the interface *)
HandleLxmf(m) ==
    /\ outAt[m] = "new"
    /\ \/ TakeToken /\ outAt' = [outAt EXCEPT ![m] = "sending"] /\ UNCHANGED <<outQueue, outCame>>
       \/ ~outToken /\ Enqueue(m) /\ UNCHANGED outToken
    /\ UNCHANGED <<outOld, outUp, outDrain, outAir>>

(* ... and its send: without an interface, or when the command is refused
   before it starts, the message is dropped.                               *)
LxmfSends(m) ==
    /\ outAt[m] = "sending"
    /\ \/ outUp /\ outAt' = [outAt EXCEPT ![m] = "sent"] /\ outAir' = [outAir EXCEPT ![m] = @ + 1]
       \/ outAt' = [outAt EXCEPT ![m] = "dropped"] /\ UNCHANGED outAir
    /\ UNCHANGED <<outQueue, outOld, outCame, outToken, outUp, outDrain>>

DrainTakesAny ==
    /\ outDrain \in {"idle", "again"}
    /\ outDrain' = IF outQueue = <<>> THEN "idle" ELSE "taken"
    /\ outQueue' = IF outQueue = <<>> THEN <<>> ELSE Tail(outQueue)
    /\ outAt' = [n \in OutMsgs |-> IF outQueue # <<>> /\ n = outQueue[1] THEN "held" ELSE outAt[n]]
    /\ UNCHANGED <<outOld, outCame, outToken, outUp, outAir>>

(* _drain_send_queue takes the first message that has not expired. *)
DrainTakes ==
    /\ outDrain \in {"idle", "again"}
    /\ LET live == SelectSeq(outQueue, LAMBDA n : n \notin outOld)
           rest == IF live = <<>> THEN <<>>
                   ELSE SubSeq(outQueue, SelectInSeq(outQueue, LAMBDA n : n = live[1]),
                               Len(outQueue))
           gone == ToSet(outQueue) \ ToSet(rest) IN
       /\ outDrain' = IF rest = <<>> THEN "idle" ELSE "taken"
       /\ outQueue' = IF rest = <<>> THEN <<>> ELSE Tail(rest)
       /\ outAt' = [n \in OutMsgs |-> CASE n \in gone -> "expired"
                                        [] rest # <<>> /\ n = rest[1] -> "held"
                                        [] OTHER -> outAt[n]]
    /\ UNCHANGED <<outOld, outCame, outToken, outUp, outAir>>

PutBackLast(m) ==
    /\ outQueue' = Append(outQueue, m)
    /\ outAt' = [outAt EXCEPT ![m] = "queued"]
    /\ outDrain' = "idle"

(* A message the drain cannot send now goes back to the front. *)
PutBack(m) ==
    /\ outQueue' = <<m>> \o outQueue
    /\ outAt' = [outAt EXCEPT ![m] = "queued"]
    /\ outDrain' = "idle"

DrainPays ==
    /\ outDrain = "taken"
    /\ \E m \in OutMsgs :
          /\ outAt[m] = "held"
          /\ \/ TakeToken /\ outDrain' = "paid" /\ UNCHANGED <<outQueue, outAt>>
             \/ ~outToken /\ PutBack(m) /\ UNCHANGED outToken
    /\ UNCHANGED <<outOld, outCame, outUp, outAir>>

DrainSendsAgain ==
    /\ outDrain = "paid"
    /\ \E m \in OutMsgs :
          /\ outAt[m] = "held"
          /\ \/ PutBack(m) /\ UNCHANGED outAir
             \/ /\ outUp
                /\ outAir' = [outAir EXCEPT ![m] = @ + 1]
                /\ \/ outAt' = [outAt EXCEPT ![m] = "sent"] /\ outDrain' = "again" /\ UNCHANGED outQueue
                   \/ PutBack(m)
    /\ UNCHANGED <<outOld, outCame, outToken, outUp>>

(* The send: no interface, or a command that never started, puts the message
   back; one that started is never tried again, whatever became of it.     *)
DrainSends ==
    /\ outDrain = "paid"
    /\ \E m \in OutMsgs :
          /\ outAt[m] = "held"
          /\ \/ PutBack(m) /\ UNCHANGED outAir
             \/ /\ outUp
                /\ outAir' = [outAir EXCEPT ![m] = @ + 1]
                /\ \/ outAt' = [outAt EXCEPT ![m] = "sent"] /\ outDrain' = "again"
                   \/ outAt' = [outAt EXCEPT ![m] = "uncertain"] /\ outDrain' = "idle"
                /\ UNCHANGED outQueue
    /\ UNCHANGED <<outOld, outCame, outToken, outUp>>

(* The time between two sends passes; an interface comes and goes. *)
TokenBack == ~outToken /\ outToken' = TRUE
             /\ UNCHANGED <<outAt, outQueue, outOld, outCame, outUp, outDrain, outAir>>
OutUpChanges == outUp' = ~outUp
                /\ UNCHANGED <<outAt, outQueue, outOld, outCame, outToken, outDrain, outAir>>

(* A waiting message gets too old, the oldest first. *)
OutAges ==
    /\ \E i \in DOMAIN outCame :
          /\ outCame[i] \notin outOld /\ \A j \in 1..(i - 1) : outCame[j] \in outOld
          /\ outOld' = outOld \cup {outCame[i]}
    /\ UNCHANGED <<outAt, outQueue, outCame, outToken, outUp, outDrain, outAir>>

OutDrains == DrainTakes \/ DrainPays \/ DrainSends

OutNext == OutDrains \/ TokenBack \/ OutUpChanges \/ OutAges
           \/ \E m \in OutMsgs : HandleLxmf(m) \/ LxmfSends(m)

OutSpec == OutInit /\ [][OutNext]_outVars

OutTypeOK ==
    /\ outAt \in [OutMsgs -> {"new", "sending", "queued", "held", "sent", "uncertain",
                              "expired", "displaced", "dropped"}]
    /\ Len(outQueue) <= OutMax + 1          \* the drain puts back without looking
    /\ \A m \in OutMsgs : outAt[m] = "queued" <=> m \in ToSet(outQueue)
    /\ outDrain \in {"idle", "taken", "paid", "again"}
    /\ outDrain \in {"taken", "paid"} <=> \E m \in OutMsgs : outAt[m] = "held"

(* A message enters the radio's code at most once, and one that did is in no
   queue any more: a send that timed out may have gone out already.        *)
EntersRadioOnce ==
    \A m \in OutMsgs : outAir[m] <= 1 /\ (outAir[m] = 1 => outAt[m] \in {"sent", "uncertain"})

(* The queue keeps the order of arrival although the drain takes messages
   out and puts them back while others arrive.                             *)
OutQueueInOrder ==
    LET place(m) == SelectInSeq(outCame, LAMBDA n : n = m) IN
    \A i, j \in DOMAIN outQueue : i < j => place(outQueue[i]) < place(outQueue[j])

(* A queued message is sent or given up: it does not wait for ever. *)
OutQueueSettles == \A m \in OutMsgs : outAt[m] = "queued" ~> outAt[m] \notin {"queued", "held"}

-----------------------------------------------------------------------------
(* in: the mesh to LXMF *)

VARIABLES
    inAt,       \* where an item is
    inWork,     \* items a source's thread still has to forward
    inPending,  \* _pending_lxmf
    inOld,      \* items past their time to live
    inLeft,     \* retries left in this round of the loop
    inPath,     \* the recipients' identities are known
    inSent      \* history: how often an item was handed to the LXMF router

inVars == <<inAt, inWork, inPending, inOld, inLeft, inPath, inSent>>

InInit ==
    /\ inAt = [i \in InItems |-> "new"]
    /\ inWork = [s \in InSources |-> {}]
    /\ inPending = <<>> /\ inOld = {} /\ inLeft = 0
    /\ inPath = FALSE
    /\ inSent = [i \in InItems |-> 0]

(* _on_mesh_text, once the packet is accepted: its items are to be forwarded. *)
OnMeshText(s, i) ==
    /\ inWork[s] = {} /\ inAt[i] = "new"
    /\ inWork' = [inWork EXCEPT ![s] = {i}]
    /\ inAt' = [inAt EXCEPT ![i] = "work"]
    /\ UNCHANGED <<inPending, inOld, inLeft, inPath, inSent>>

(* _try_send_lxmf: handed to the router when the identity is known *)
TrySend(i) ==
    /\ inPath
    /\ inAt' = [inAt EXCEPT ![i] = "sent"]
    /\ inSent' = [inSent EXCEPT ![i] = @ + 1]

(* _forward_to_lxmf: what cannot be sent is deferred; a full queue gives its
   oldest up.                                                              *)
ForwardToLxmf(s) ==
    /\ \E i \in inWork[s] :
          /\ inWork' = [inWork EXCEPT ![s] = @ \ {i}]
          /\ \/ TrySend(i) /\ UNCHANGED inPending
             \/ /\ ~inPath
                /\ LET full == Len(inPending) >= InMax IN
                   /\ inPending' = Append(IF full THEN Tail(inPending) ELSE inPending, i)
                   /\ inAt' = [j \in InItems |-> CASE j = i -> "pending"
                                                   [] full /\ j = inPending[1] -> "displaced"
                                                   [] OTHER -> inAt[j]]
                /\ UNCHANGED inSent
    /\ UNCHANGED <<inOld, inLeft, inPath>>

(* _retry_pending_lxmf: one round looks at as many as there were, each taken
   from the front and put back at the end when it still cannot be sent.    *)
RetryBegins ==
    /\ inLeft = 0 /\ inPending # <<>>
    /\ inLeft' = Len(inPending)
    /\ UNCHANGED <<inAt, inWork, inPending, inOld, inPath, inSent>>

RetryTakesAny ==
    /\ inLeft > 0 /\ \A i \in InItems : inAt[i] # "held"
    /\ IF inPending = <<>>
       THEN inLeft' = 0 /\ UNCHANGED <<inPending, inAt>>
       ELSE inAt' = [inAt EXCEPT ![inPending[1]] = "held"] /\ inPending' = Tail(inPending)
            /\ UNCHANGED inLeft
    /\ UNCHANGED <<inWork, inOld, inPath, inSent>>

RetryTakes ==
    /\ inLeft > 0 /\ \A i \in InItems : inAt[i] # "held"
    /\ IF inPending = <<>>
       THEN inLeft' = 0 /\ UNCHANGED <<inPending, inAt>>
       ELSE /\ inLeft' = IF inPending[1] \in inOld THEN inLeft - 1 ELSE inLeft
            /\ inPending' = Tail(inPending)
            /\ inAt' = [inAt EXCEPT ![inPending[1]] = IF inPending[1] \in inOld THEN "expired"
                                                      ELSE "held"]
    /\ UNCHANGED <<inWork, inOld, inPath, inSent>>

RetrySendsAndKeeps ==
    /\ \E i \in InItems :
          /\ inAt[i] = "held"
          /\ inPending' = Append(inPending, i)
          /\ inSent' = [inSent EXCEPT ![i] = IF inPath THEN @ + 1 ELSE @]
          /\ inAt' = [inAt EXCEPT ![i] = "pending"]
    /\ inLeft' = inLeft - 1
    /\ UNCHANGED <<inWork, inOld, inPath>>

RetrySends ==
    /\ \E i \in InItems :
          /\ inAt[i] = "held"
          /\ \/ TrySend(i) /\ UNCHANGED inPending
             \/ ~inPath /\ inPending' = Append(inPending, i)
                /\ inAt' = [inAt EXCEPT ![i] = "pending"] /\ UNCHANGED inSent
    /\ inLeft' = inLeft - 1
    /\ UNCHANGED <<inWork, inOld, inPath>>

InPathChanges == inPath' = ~inPath /\ UNCHANGED <<inAt, inWork, inPending, inOld, inLeft, inSent>>

InAges(i) ==
    /\ inAt[i] \in {"pending", "held"} /\ i \notin inOld
    /\ inOld' = inOld \cup {i}
    /\ UNCHANGED <<inAt, inWork, inPending, inLeft, inPath, inSent>>

RetryStep == RetryBegins \/ RetryTakes \/ RetrySends

InNext == RetryStep \/ InPathChanges \/ (\E i \in InItems : InAges(i))
          \/ \E s \in InSources : ForwardToLxmf(s) \/ \E i \in InItems : OnMeshText(s, i)

InSpec == InInit /\ [][InNext]_inVars

InTypeOK ==
    /\ inAt \in [InItems -> {"new", "work", "pending", "held", "sent", "expired", "displaced"}]
    /\ Len(inPending) <= InMax + 1
    /\ \A i \in InItems : inAt[i] = "pending" <=> i \in ToSet(inPending)
    /\ inLeft \in 0..(InMax + 1)

(* A packet is handed to the router at most once for a recipient: forwarding
   and retrying never both send it.                                        *)
ForwardedOnce ==
    \A i \in InItems : inSent[i] <= 1 /\ (inSent[i] = 1 => inAt[i] = "sent")

(* A deferred packet is sent or given up. *)
DeferredSettles == \A i \in InItems : inAt[i] = "pending" ~> inAt[i] \notin {"pending", "held"}

-----------------------------------------------------------------------------
(* seen: packets heard before *)

VARIABLES
    seen,       \* _seen_packet_ids, by time, the oldest first
    seenOld,    \* how many of the oldest are past the time to live
    seenCount,  \* _dedup_inserts_since_cleanup
    seenTimes,  \* history: how often a packet was accepted
    seenAfter,  \* history: the packets accepted since a packet was
    seenLapsed  \* history: packets whose time to live ended since

seenVars == <<seen, seenOld, seenCount, seenTimes, seenAfter, seenLapsed>>

SeenInit ==
    /\ seen = <<>> /\ seenOld = 0 /\ seenCount = 0
    /\ seenTimes = [k \in SeenKeys |-> 0]
    /\ seenAfter = [k \in SeenKeys |-> {}] /\ seenLapsed = {}

Place(s, k) == SelectInSeq(s, LAMBDA n : n = k)      \* 0 when it is not there

(* What is left of a table: not the expired ones, and at most n of the newest *)
Newest(s, n) == IF Len(s) > n THEN SubSeq(s, Len(s) - n + 1, Len(s)) ELSE s
Oldest(s, n) == IF Len(s) > n THEN SubSeq(s, 1, n) ELSE s

TrimmedWrong(s) == IF Len(s) > SeenMax THEN Oldest(s, Len(s) - SeenMax \div 2) ELSE s

(* _packet_is_duplicate_locked: the cache after a packet is accepted.  It is
   scanned every SeenClean inserts or when it is over its limit; still over
   the limit, the older half of the limit goes.                            *)
Trimmed(s) == IF Len(s) > SeenMax THEN Newest(s, Len(s) - SeenMax \div 2) ELSE s

Accept(k) ==
    /\ seenTimes[k] < SeenAccepts
    /\ Place(seen, k) <= seenOld
    /\ LET known == Place(seen, k) # 0
           all == Append(SelectSeq(seen, LAMBDA n : n # k), k)
           old == IF known THEN seenOld - 1 ELSE seenOld
           scan == seenCount + 1 >= SeenClean \/ Len(all) > SeenMax IN
       /\ seen' = IF scan THEN Trimmed(SubSeq(all, old + 1, Len(all))) ELSE all
       /\ seenOld' = IF scan THEN 0 ELSE old
       /\ seenCount' = IF scan THEN 0 ELSE seenCount + 1
    /\ seenTimes' = [seenTimes EXCEPT ![k] = @ + 1]
    /\ seenAfter' = [n \in SeenKeys |-> IF n = k THEN {} ELSE seenAfter[n] \cup {k}]
    /\ seenLapsed' = seenLapsed \ {k}

SeenAges ==
    /\ seenOld < Len(seen) /\ seenOld' = seenOld + 1
    /\ seenLapsed' = seenLapsed \cup {seen[seenOld + 1]}
    /\ UNCHANGED <<seen, seenCount, seenTimes, seenAfter>>

SeenNext == SeenAges \/ \E k \in SeenKeys : Accept(k)

SeenSpec == SeenInit /\ [][SeenNext]_seenVars

SeenTypeOK ==
    /\ Len(seen) <= SeenMax /\ seenOld \in 0..Len(seen) /\ seenCount \in 0..(SeenClean - 1)
    /\ \A i, j \in DOMAIN seen : i # j => seen[i] # seen[j]

(* A packet is accepted a second time within its time to live only when the
   full cache had to forget it, after more than half of the limit of other
   packets.                                                                *)
DuplicateNeedsEviction ==
    [][\A k \in SeenKeys :
          (seenTimes'[k] > seenTimes[k] /\ seenTimes[k] > 0 /\ k \notin seenLapsed)
              => Cardinality(seenAfter[k]) >= SeenMax + 1 - SeenMax \div 2]_seenVars

-----------------------------------------------------------------------------
(* nodes: the table of the MQTT client *)

VARIABLES
    nodes,      \* the table of nodes by the time they were last heard
    nodesOld,   \* how many of the oldest are past the time to live
    nodesCount  \* _node_inserts_since_eviction

nodeVars == <<nodes, nodesOld, nodesCount>>

NodeInit == nodes = <<NodeSelf>> /\ nodesOld = 0 /\ nodesCount = 0   \* _register_self_in_nodes

EvictedByAge(s, old) ==
    LET live == SubSeq(s, old + 1, Len(s))
        keep == (NodeMax * 3) \div 4 IN
    IF Len(live) > NodeMax THEN Newest(live, keep) ELSE live

(* _maybe_evict_nodes: what is too old goes, except the gateway itself; over
   the limit, three quarters of the limit stay, the gateway first.         *)
TrEvicted(s, old) ==
    LET live == SelectSeq(s, LAMBDA n : n = NodeSelf \/ Place(s, n) > old)
        others == SelectSeq(live, LAMBDA n : n # NodeSelf)
        keep == (NodeMax * 3) \div 4 IN
    IF Len(live) > NodeMax THEN <<NodeSelf>> \o Newest(others, keep - 1) ELSE live

(* _handle_nodeinfo, _handle_position: a node is heard; the gateway's own
   packets are ignored.                                                    *)
HearNode(n) ==
    /\ n # NodeSelf
    /\ LET known == Place(nodes, n) # 0
           all == Append(SelectSeq(nodes, LAMBDA x : x # n), n)
           old == IF known /\ Place(nodes, n) <= nodesOld THEN nodesOld - 1 ELSE nodesOld
           due == nodesCount + 1 >= NodeEvery IN
       /\ nodes' = IF due THEN TrEvicted(all, old) ELSE all
       /\ nodesOld' = IF due THEN 0 ELSE old
       /\ nodesCount' = IF due THEN 0 ELSE nodesCount + 1

(* _process_mqtt_message: a packet with a signal strength enters its sender,
   with no time it was heard at, which counts as the oldest.               *)
HearSnr(n) ==
    /\ n # NodeSelf
    /\ LET known == Place(nodes, n) # 0
           all == IF known THEN nodes ELSE <<n>> \o nodes
           old == IF known THEN nodesOld ELSE nodesOld + 1
           due == nodesCount + 1 >= NodeEvery IN
       /\ nodes' = IF due THEN TrEvicted(all, old) ELSE all
       /\ nodesOld' = IF due THEN 0 ELSE old
       /\ nodesCount' = IF due THEN 0 ELSE nodesCount + 1

NodesAge ==
    /\ nodesOld < Len(nodes) /\ nodesOld' = nodesOld + 1
    /\ UNCHANGED <<nodes, nodesCount>>

NodeNext == NodesAge \/ \E n \in NodeIds : HearNode(n) \/ HearSnr(n)

NodeSpec == NodeInit /\ [][NodeNext]_nodeVars

NodeTypeOK == Len(nodes) < NodeMax + NodeEvery /\ nodesOld \in 0..Len(nodes)

(* The gateway never evicts itself from its table. *)
SelfIsKept == Place(nodes, NodeSelf) # 0

(* The gateway's queues keep their order and pass each message on once, a packet seen
   is a duplicate until it is evicted, and the own node is never evicted. *)
TrafficInOrder ==
    /\ [](/\ OutTypeOK
          /\ InTypeOK
          /\ SeenTypeOK
          /\ NodeTypeOK
          /\ EntersRadioOnce
          /\ OutQueueInOrder
          /\ ForwardedOnce
          /\ SelfIsKept)
    /\ DuplicateNeedsEviction
=============================================================================
