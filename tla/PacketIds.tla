------------------------------ MODULE PacketIds ------------------------------
(***************************************************************************)
(* The durable packet-id allocator of the Meshtastic MQTT client           *)
(* (_DurablePacketIdAllocator in builtin_plugins/meshtastic_gateway.py).   *)
(* A packet is encrypted under the nonce (node number, packet id), so the  *)
(* pair must never be given out twice, over crashes, restarts and several  *)
(* processes that share the state file under a file lock.                  *)
(*                                                                         *)
(* Both files are replaced atomically: a crash leaves the old or the new   *)
(* content.  The lock is released by a crash.                              *)
(***************************************************************************)
EXTENDS Integers, FiniteSets

CONSTANTS
    Procs,          \* processes with an allocator
    NodeNums,       \* node numbers a random draw may give
    MaxPacketId,    \* _MAX_MESHTASTIC_PACKET_ID
    BlockSize       \* _PACKET_ID_BLOCK_SIZE

ASSUME PacketIdsAssumption ==
    /\ MaxPacketId \in Nat /\ BlockSize \in 1..(MaxPacketId - 1)
    /\ 0 \notin NodeNums

VARIABLES
    idFile,    \* the state file; node 0 when there is none
    numFile,   \* the node number file; 0 when it is missing or unreadable
    flock,     \* the processes in the file lock
    alloc,     \* the allocator of a process
    emitted    \* the nonces of the packets sent so far

idVars == <<idFile, numFile, flock, alloc, emitted>>

NoIdFile == [node |-> 0, high |-> 0, pending |-> FALSE]

NoAlloc == [pc |-> "off", node |-> 0, next |-> 0, left |-> 0]

IdInit ==
    /\ idFile = NoIdFile
    /\ numFile \in NodeNums \cup {0}      \* of a version without the state file
    /\ flock = {}
    /\ alloc = [p \in Procs |-> NoAlloc]
    /\ emitted = {}

-----------------------------------------------------------------------------

(* _under_file_lock, for a new allocator and for one that needs a block *)
IdLock(p) ==
    /\ flock = {}
    /\ \/ alloc[p].pc = "off"
       \/ alloc[p].pc = "ready" /\ alloc[p].left = 0
    /\ flock' = {p}
    /\ alloc' = [alloc EXCEPT ![p].pc = IF @ = "off" THEN "init" ELSE "more"]
    /\ UNCHANGED <<idFile, numFile, emitted>>

(* An error while the allocator is made leaves none, and the connection is
   tried again; one in take leaves it without ids.                         *)
Fail(p) ==
    /\ alloc' = [alloc EXCEPT ![p] = IF @.next = 0 THEN NoAlloc ELSE [@ EXCEPT !.pc = "ready"]]
    /\ flock' = {}

(* _new_node_num *)
NewNodeNum == NodeNums \ {numFile}

(* Mutant of Enroll: the node number file is left as it is. *)
EnrollStateOnly(p) ==
    /\ alloc[p].pc = "init" /\ idFile = NoIdFile
    /\ \E n \in NewNodeNum :
        /\ idFile' = [node |-> n, high |-> BlockSize, pending |-> TRUE]
        /\ alloc' = [alloc EXCEPT ![p] = [pc |-> "complete", node |-> n, next |-> 1, left |-> BlockSize]]
    /\ UNCHANGED <<numFile, flock, emitted>>

(* _initialize without a state file: a new identity with the first block.
   The state is written first, so the old identity is never used again.    *)
Enroll(p) ==
    /\ alloc[p].pc = "init" /\ idFile = NoIdFile
    /\ \E n \in NewNodeNum :
        /\ idFile' = [node |-> n, high |-> BlockSize, pending |-> TRUE]
        /\ alloc' = [alloc EXCEPT ![p] = [pc |-> "num", node |-> n, next |-> 1, left |-> BlockSize]]
    /\ UNCHANGED <<numFile, flock, emitted>>

(* _initialize with one: an interrupted enrollment is completed, any other
   must agree with the node number file.                                   *)
LoadState(p) ==
    /\ alloc[p].pc = "init" /\ idFile # NoIdFile
    /\ \/ /\ ~ idFile.pending /\ numFile # idFile.node
          /\ Fail(p)
       \/ /\ idFile.pending \/ numFile = idFile.node
          /\ alloc' = [alloc EXCEPT ![p] = [pc |-> IF idFile.pending THEN "num" ELSE "reserve",
                                           node |-> idFile.node, next |-> 0, left |-> 0]]
          /\ UNCHANGED flock
    /\ UNCHANGED <<idFile, numFile, emitted>>

WriteNodeNum(p) ==
    /\ alloc[p].pc = "num"
    /\ numFile' = alloc[p].node
    /\ alloc' = [alloc EXCEPT ![p].pc = "complete"]
    /\ UNCHANGED <<idFile, flock, emitted>>

(* The state is rewritten as complete; a new identity is ready with it. *)
WriteComplete(p) ==
    /\ alloc[p].pc = "complete"
    /\ idFile' = [idFile EXCEPT !.pending = FALSE]
    /\ IF alloc[p].left > 0
       THEN alloc' = [alloc EXCEPT ![p].pc = "ready"] /\ flock' = {}
       ELSE alloc' = [alloc EXCEPT ![p].pc = "reserve"] /\ UNCHANGED flock
    /\ UNCHANGED <<numFile, emitted>>

(* _reserve_more: the files must still be those of this identity. *)
CheckIdentity(p) ==
    /\ alloc[p].pc = "more"
    /\ IF ~ idFile.pending /\ idFile.node = alloc[p].node /\ numFile = alloc[p].node
       THEN alloc' = [alloc EXCEPT ![p].pc = "reserve"] /\ UNCHANGED flock
       ELSE Fail(p)
    /\ UNCHANGED <<idFile, numFile, emitted>>

Block == IF MaxPacketId - idFile.high < BlockSize THEN MaxPacketId - idFile.high ELSE BlockSize

(* Mutant of Reserve: the block is used before the state is written. *)
ReserveInMemory(p) ==
    /\ alloc[p].pc = "reserve" /\ idFile.high < MaxPacketId
    /\ alloc' = [alloc EXCEPT ![p] = [pc |-> "ready", node |-> idFile.node,
                                      next |-> idFile.high + 1, left |-> Block]]
    /\ flock' = {}
    /\ UNCHANGED <<idFile, numFile, emitted>>

(* _reserve_after_locked: the watermark is written before an id is used. *)
Reserve(p) ==
    /\ alloc[p].pc = "reserve" /\ idFile.high < MaxPacketId
    /\ idFile' = [idFile EXCEPT !.high = @ + Block]
    /\ alloc' = [alloc EXCEPT ![p] = [pc |-> "ready", node |-> idFile.node,
                                      next |-> idFile.high + 1, left |-> Block]]
    /\ flock' = {}
    /\ UNCHANGED <<numFile, emitted>>

(* The ids are exhausted, or the write fails before or after the file was
   replaced: there is no id, and a written block is lost.                  *)
ReserveFails(p) ==
    /\ alloc[p].pc = "reserve"
    /\ \/ UNCHANGED idFile
       \/ idFile.high < MaxPacketId /\ idFile' = [idFile EXCEPT !.high = @ + Block]
    /\ Fail(p)
    /\ UNCHANGED <<numFile, emitted>>

(* take, and the encryption of the packet it is for *)
Take(p) ==
    /\ alloc[p].pc = "ready" /\ alloc[p].left > 0
    /\ emitted' = emitted \cup {<<alloc[p].node, alloc[p].next>>}
    /\ alloc' = [alloc EXCEPT ![p].next = @ + 1, ![p].left = @ - 1]
    /\ UNCHANGED <<idFile, numFile, flock>>

(* The process ends, anywhere; it may come back. *)
IdCrash(p) ==
    /\ alloc[p].pc # "off"
    /\ alloc' = [alloc EXCEPT ![p] = NoAlloc]
    /\ flock' = flock \ {p}
    /\ UNCHANGED <<idFile, numFile, emitted>>

IdNext == \E p \in Procs :
    \/ IdLock(p) \/ Enroll(p) \/ LoadState(p) \/ WriteNodeNum(p) \/ WriteComplete(p)
    \/ CheckIdentity(p) \/ Reserve(p) \/ ReserveFails(p) \/ Take(p) \/ IdCrash(p)

IdSpec == IdInit /\ [][IdNext]_idVars

-----------------------------------------------------------------------------
(* Properties *)

IdTypeOK ==
    /\ idFile \in [node : NodeNums \cup {0}, high : 0..MaxPacketId, pending : BOOLEAN]
    /\ numFile \in NodeNums \cup {0}
    /\ flock \in {{}} \cup {{p} : p \in Procs}
    /\ \A p \in Procs : alloc[p].node \in NodeNums \cup {0} /\ alloc[p].left \in 0..BlockSize

(* The nonces a process has reserved and not used *)
Reserved(p) ==
    {<<alloc[p].node, i>> : i \in alloc[p].next..(alloc[p].next + alloc[p].left - 1)}

(* "A crash can waste IDs but cannot cause a later process to reuse them":
   what a process may still use was used by nobody and is reserved by no
   other, and is within the 32-bit id space.                               *)
NonceNeverReused ==
    \A p \in Procs :
        /\ Reserved(p) \cap emitted = {}
        /\ \A q \in Procs \ {p} : Reserved(p) \cap Reserved(q) = {}
        /\ \A x \in Reserved(p) : x[2] \in 1..MaxPacketId


(* Who sends under an identity finds it in both files when it comes back: a
   crash during the enrollment never brings the old identity back.         *)
IdentityIsDurable ==
    \A p \in Procs : alloc[p].pc = "ready" =>
        idFile.node = alloc[p].node /\ numFile = alloc[p].node /\ ~ idFile.pending

(* Two processes, crashes and a lost state file never make a radio reuse a nonce, and
   a node's identity is on disk before it is used. *)
PacketIdsSafe ==
    /\ IdTypeOK
    /\ NonceNeverReused
    /\ IdentityIsDurable

=============================================================================
