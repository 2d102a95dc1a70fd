------------------------------- MODULE Pairing -------------------------------
(***************************************************************************)
(* What the central is to callers that take turns: a map from serial       *)
(* numbers to cameras that is paired and unpaired one entry at a time, and *)
(* that no crash, restart or shutdown changes.                             *)
(***************************************************************************)
CONSTANTS Serials, Cameras

VARIABLE paired     \* the entries of the map

Init == paired = {}

\* Neither the serial number nor the camera is in the map yet.
Pair(s, c) ==
    /\ \A entry \in paired : entry.serial # s /\ entry.camera # c
    /\ paired' = paired \cup {[serial |-> s, camera |-> c]}

Unpair(entry) == paired' = paired \ {entry}

Next ==
    \/ \E s \in Serials, c \in Cameras : Pair(s, c)
    \/ \E entry \in paired : Unpair(entry)

Spec == Init /\ [][Next]_paired
==============================================================================
