--------------------------- MODULE MCSdrScheduler ---------------------------
(* Instances of SdrScheduler for TLC: wx is the weather alert decoder
   (critical), apt the satellite capture (scheduled), ais and ism background
   decoders; ais1 and ais2 are two starts of ais; adsb uses the dongle without
   the scheduler.                                                          *)
EXTENDS SdrScheduler

CONSTANTS wx, apt, ais, ism, ais1, ais2, adsb

CallerOf(r) == IF r \in {ais1, ais2} THEN ais ELSE r

MCOwner == [r \in Regs |-> CallerOf(r)]

MCPrio == [c \in {CallerOf(r) : r \in Regs} |->
             IF c = wx THEN 0 ELSE IF c = apt THEN 1 ELSE 2]

TokenBound == 16   \* more tokens than a state of four instances can remember

MCTokens == 1 .. TokenBound
=============================================================================
