---- MODULE MCHubAndClaims ----
(* Instance for TLC: safety of several components.  A behaviour follows the
   component its focus names and leaves the others in their initial states. *)
EXTENDS RtlSdrClaims, MessagingHub, StateTrees, TLC

VARIABLE focus

CIndexes == {0, 1}
CRadio == [m \in Msgs |-> "lora"]
CKind == [r \in {"lora"} |-> "meshtastic"]

MCInit ==
    /\ focus \in {"rtl_sdr_claims", "messaging_hub", "merge", "restore", "config"}
    /\ ClInit
    /\ focus # "rtl_sdr_claims" => inventory = [i \in Indexes |-> NoSerial]
    /\ HubInit
    /\ focus # "messaging_hub" => up = [r \in Radios |-> TRUE]
    /\ SmInit
    /\ focus # "merge" => smCanon = NoTree /\ smLegacy = [s \in SmSources |-> NoTree]
    \* Contents 1 and 2 are interchangeable: the first source holds no 2.
    /\ \A f \in SmFiles : smLegacy[1][f] # 2
    /\ RtInit
    /\ focus # "restore" => rtLive = [r \in RtRoots |-> 0] /\ rtFiles = [f \in RtManaged |-> 0]
    /\ CgInit
    /\ focus # "config" => cgConf = [homes |-> {1}, mesh |-> "canonical", policy |-> "allowlist", list |-> "none", pw |-> "none"] /\ cgSecret = [hash |-> "none", boot |-> "none", sessions |-> TRUE]

OnlyRtlSdrClaims ==
    /\ focus = "rtl_sdr_claims" /\ ClNext
    /\ UNCHANGED <<focus, hubVars, smVars, rtVars, cgVars>>

OnlyMessagingHub ==
    /\ focus = "messaging_hub" /\ HubNext
    /\ UNCHANGED <<focus, clVars, smVars, rtVars, cgVars>>

OnlyMerge ==
    /\ focus = "merge" /\ SmNext
    /\ UNCHANGED <<focus, clVars, hubVars, rtVars, cgVars>>

OnlyRestore ==
    /\ focus = "restore" /\ RtNext
    /\ UNCHANGED <<focus, clVars, hubVars, smVars, cgVars>>

OnlyConfig ==
    /\ focus = "config" /\ CgNext
    /\ UNCHANGED <<focus, clVars, hubVars, smVars, rtVars>>

MCNext ==
    \/ OnlyRtlSdrClaims
    \/ OnlyMessagingHub
    \/ OnlyMerge
    \/ OnlyRestore
    \/ OnlyConfig

MCVars == <<focus, clVars, hubVars, smVars, rtVars, cgVars>>

MCSpec == MCInit /\ [][MCNext]_MCVars

Symmetric == Permutations(ClCallers) \cup Permutations(Msgs)
====
