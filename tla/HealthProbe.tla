----------------------------- MODULE HealthProbe -----------------------------
(***************************************************************************)
(* The health probe of a Meshtastic radio (meshtastic_health.py): callers  *)
(* of the same interface generation share one flight, whose worker sends a *)
(* request into a library that may block for ever and accepts only the     *)
(* answer to that request.  Workers are limited, callers wait no longer    *)
(* than the deadline, and the generation may change at any moment.         *)
(*                                                                         *)
(* The version and argument checks before a flight are one refusal.        *)
(***************************************************************************)
EXTENDS Integers, FiniteSets

CONSTANTS
    HpCallers, HpGens,   \* callers; interface generations
    HpFlights,           \* bound: flights in a behaviour
    HpWorkers            \* max_workers

ASSUME HealthProbeAssumption == {HpGens, HpFlights, HpWorkers} \subseteq Nat \ {0}

VARIABLES
    hpCur,       \* the generation for which is_current holds
    hpFlight,    \* the flights, in the order they began
    hpInflight,  \* _inflight: of a generation, its flight or 0
    hpSlots,     \* worker slots in use
    hpHandlers,  \* flights with a response handler in the library
    hpAnswers,   \* history: flights whose own request the radio answered
    hpCaller     \* [pc, flight, gen, result] of a caller

hpVars == <<hpCur, hpFlight, hpInflight, hpSlots, hpHandlers, hpAnswers, hpCaller>>

NoFlight == [gen |-> 0, pc |-> "none", late |-> FALSE, packet |-> "none", result |-> "none"]

HpInit ==
    /\ hpCur = 1
    /\ hpFlight = [f \in 1..HpFlights |-> NoFlight]
    /\ hpInflight = [g \in 1..HpGens |-> 0]
    /\ hpSlots = 0 /\ hpHandlers = {} /\ hpAnswers = {}
    /\ hpCaller = [c \in HpCallers |-> [pc |-> "idle", flight |-> 0, gen |-> 0, result |-> "none"]]

CallerGets(c, result) ==
    hpCaller' = [hpCaller EXCEPT ![c].pc = "idle", ![c].flight = 0, ![c].result = result]

(* probe, before the lock: the interface of some generation is at hand *)
ProbeCalled(c, g) ==
    /\ hpCaller[c].pc = "idle" /\ g <= hpCur
    /\ hpCaller' = [hpCaller EXCEPT ![c] =
          [pc |-> IF g = hpCur THEN "join" ELSE "idle", flight |-> 0, gen |-> g,
           result |-> IF g = hpCur THEN "none" ELSE "stale"]]
    /\ UNCHANGED <<hpCur, hpFlight, hpInflight, hpSlots, hpHandlers, hpAnswers>>

(* Under the lock: join the flight of the generation, or begin one with a
   free slot if the radio's queue has room.                                *)
JoinOrBegin(c) ==
    LET g == hpCaller[c].gen
        f == hpInflight[g]
        new == {n \in 1..HpFlights : hpFlight[n].pc = "none"
                                     /\ \A k \in 1..(n - 1) : hpFlight[k].pc # "none"} IN
    /\ hpCaller[c].pc = "join"
    /\ \/ /\ f # 0
          /\ hpCaller' = [hpCaller EXCEPT ![c].pc = "wait", ![c].flight = f]
          /\ UNCHANGED <<hpFlight, hpInflight, hpSlots>>
       \/ /\ f = 0 /\ hpSlots < HpWorkers
          /\ \E n \in new :
                /\ hpFlight' = [hpFlight EXCEPT ![n] = [NoFlight EXCEPT !.gen = g, !.pc = "check"]]
                /\ hpInflight' = [hpInflight EXCEPT ![g] = n]
                /\ hpCaller' = [hpCaller EXCEPT ![c].pc = "wait", ![c].flight = n]
          /\ hpSlots' = hpSlots + 1
       \/ /\ f = 0     \* no slot, or no room in the queue
          /\ CallerGets(c, "inconclusive") /\ UNCHANGED <<hpFlight, hpInflight, hpSlots>>
    /\ UNCHANGED <<hpCur, hpHandlers, hpAnswers>>

(* _finish_flight: the handler goes, then the entry and the slot, and only
   then are the waiters told.                                              *)
FlightFinishKeepingSlot(f, result) ==
    /\ hpFlight' = [hpFlight EXCEPT ![f].pc = "done", ![f].result = result]
    /\ hpHandlers' = hpHandlers \ {f}
    /\ hpInflight' = [g \in 1..HpGens |-> IF hpInflight[g] = f THEN 0 ELSE hpInflight[g]]
    /\ hpSlots' = IF result = "timeout" THEN hpSlots ELSE hpSlots - 1

FlightFinishLeavingHandler(f, result) ==
    /\ hpFlight' = [hpFlight EXCEPT ![f].pc = "done", ![f].result = result]
    /\ hpInflight' = [g \in 1..HpGens |-> IF hpInflight[g] = f THEN 0 ELSE hpInflight[g]]
    /\ hpSlots' = hpSlots - 1
    /\ UNCHANGED hpHandlers

FlightFinish(f, result) ==
    /\ hpFlight' = [hpFlight EXCEPT ![f].pc = "done", ![f].result = result]
    /\ hpHandlers' = hpHandlers \ {f}
    /\ hpInflight' = [g \in 1..HpGens |-> IF hpInflight[g] = f THEN 0 ELSE hpInflight[g]]
    /\ hpSlots' = hpSlots - 1

(* _run_flight: the generation is checked, then the library is entered; it
   registers the handler before it may block.                              *)
FlightSends(f) ==
    /\ hpFlight[f].pc = "check"
    /\ IF hpFlight[f].gen = hpCur
       THEN /\ hpFlight' = [hpFlight EXCEPT ![f].pc = "sending"]
            /\ hpHandlers' = hpHandlers \cup {f}
            /\ UNCHANGED <<hpInflight, hpSlots>>
       ELSE FlightFinish(f, "stale")
    /\ UNCHANGED <<hpCur, hpAnswers, hpCaller>>

(* _sendAdmin returns, or raises. *)
FlightSent(f) ==
    /\ hpFlight[f].pc = "sending"
    /\ \/ /\ hpFlight' = [hpFlight EXCEPT ![f].pc = "await"]
          /\ UNCHANGED <<hpHandlers, hpInflight, hpSlots>>
       \/ FlightFinish(f, "transport_error")
       \/ FlightFinish(f, "unsupported")
    /\ UNCHANGED <<hpCur, hpAnswers, hpCaller>>

(* A packet reaches the handler of a flight: its answer, a refusal, or
   something the checks of _validate_response will not accept              *)
RadioAnswers(f) ==
    /\ f \in hpHandlers /\ hpFlight[f].packet = "none"
    /\ \E kind \in {"metadata", "nak", "other"} :
          /\ hpFlight' = [hpFlight EXCEPT ![f].packet = kind]
          /\ hpAnswers' = IF kind = "metadata" THEN hpAnswers \cup {f} ELSE hpAnswers
    /\ UNCHANGED <<hpCur, hpInflight, hpSlots, hpHandlers, hpCaller>>

(* _validate_response *)
ProbeVerdictAny(packet) == IF packet = "nak" THEN "alive" ELSE "verified"

ProbeVerdict(packet) ==
    CASE packet = "metadata" -> "verified"
      [] packet = "nak" -> "alive"
      [] packet = "other" -> "unsupported"

FlightEnds(f) ==
    /\ hpFlight[f].pc = "await"
    /\ \/ hpFlight[f].packet = "none" /\ hpFlight[f].late /\ FlightFinish(f, "timeout")
       \/ /\ hpFlight[f].packet # "none"
          /\ FlightFinish(f, IF hpFlight[f].gen = hpCur THEN ProbeVerdict(hpFlight[f].packet) ELSE "stale")
    /\ UNCHANGED <<hpCur, hpAnswers, hpCaller>>

(* _wait_for_flight: the flight is done or its deadline has passed.  The
   generation is checked again before the result is taken, and a late waiter
   removes the handler of a worker that is still blocked.                  *)
WaitUnchecked(c) ==
    LET f == hpCaller[c].flight IN
    /\ hpCaller[c].pc = "wait" /\ (hpFlight[f].pc = "done" \/ hpFlight[f].late)
    /\ CallerGets(c, IF hpFlight[f].pc = "done" THEN hpFlight[f].result ELSE "timeout")
    /\ hpHandlers' = hpHandlers \ {f}
    /\ UNCHANGED <<hpCur, hpFlight, hpInflight, hpSlots, hpAnswers>>

WaitForDone(c) ==
    LET f == hpCaller[c].flight IN
    /\ hpCaller[c].pc = "wait" /\ hpFlight[f].pc = "done"
    /\ CallerGets(c, IF hpFlight[f].gen = hpCur THEN hpFlight[f].result ELSE "stale")
    /\ UNCHANGED <<hpCur, hpFlight, hpInflight, hpSlots, hpHandlers, hpAnswers>>

WaitEnds(c) ==
    LET f == hpCaller[c].flight IN
    /\ hpCaller[c].pc = "wait" /\ (hpFlight[f].pc = "done" \/ hpFlight[f].late)
    /\ IF hpFlight[f].gen = hpCur /\ hpFlight[f].pc = "done"
       THEN CallerGets(c, hpFlight[f].result) /\ UNCHANGED hpHandlers
       ELSE /\ CallerGets(c, IF hpFlight[f].gen = hpCur THEN "timeout" ELSE "stale")
            /\ hpHandlers' = hpHandlers \ {f}
    /\ UNCHANGED <<hpCur, hpFlight, hpInflight, hpSlots, hpAnswers>>

DeadlinePasses(f) ==
    /\ hpFlight[f].pc \notin {"none", "done"} /\ ~hpFlight[f].late
    /\ hpFlight' = [hpFlight EXCEPT ![f].late = TRUE]
    /\ UNCHANGED <<hpCur, hpInflight, hpSlots, hpHandlers, hpAnswers, hpCaller>>

NewGeneration ==
    /\ hpCur < HpGens /\ hpCur' = hpCur + 1
    /\ UNCHANGED <<hpFlight, hpInflight, hpSlots, hpHandlers, hpAnswers, hpCaller>>

FlightStep(f) == FlightSends(f) \/ FlightSent(f) \/ FlightEnds(f)

HpNext ==
    \/ NewGeneration
    \/ \E c \in HpCallers : JoinOrBegin(c) \/ WaitEnds(c) \/ \E g \in 1..HpGens : ProbeCalled(c, g)
    \/ \E f \in 1..HpFlights : FlightStep(f) \/ RadioAnswers(f) \/ DeadlinePasses(f)

HpSpec == HpInit /\ [][HpNext]_hpVars

-----------------------------------------------------------------------------

HpTypeOK ==
    /\ hpCur \in 1..HpGens
    /\ \A f \in 1..HpFlights :
          hpFlight[f].pc \in {"none", "check", "sending", "await", "done"}
    /\ hpHandlers \cup hpAnswers \subseteq 1..HpFlights
    /\ \A c \in HpCallers : hpCaller[c].pc \in {"idle", "join", "wait"}

(* The workers that may be inside the library are exactly the ones the
   adapter still knows: no slot is lost or freed twice, whichever of the
   many ways a flight ends in.                                             *)
SlotsAreFlights ==
    LET working == {f \in 1..HpFlights : hpFlight[f].pc \notin {"none", "done"}} IN
    /\ hpSlots = Cardinality(working) /\ hpSlots <= HpWorkers
    /\ working = {hpInflight[g] : g \in 1..HpGens} \ {0}

(* A caller is told "verified" only when the radio has answered the request
   of its own flight, and for the generation that is current then: "a late
   response from an old interface generation" never restores health.       *)
VerifiedIsCurrent ==
    [][\A c \in HpCallers :
          (hpCaller[c].pc = "wait" /\ hpCaller'[c].pc = "idle" /\ hpCaller'[c].result = "verified")
              => hpCaller[c].gen = hpCur /\ hpCaller[c].flight \in hpAnswers]_hpVars

(* A flight that has ended leaves no handler behind in the library. *)
NoHandlerLeft == \A f \in hpHandlers : hpFlight[f].pc \in {"sending", "await"}

(* A caller gets its result although the worker is blocked for ever. *)
CallerReturns == \A c \in HpCallers : hpCaller[c].pc = "wait" ~> hpCaller[c].pc = "idle"
=============================================================================
