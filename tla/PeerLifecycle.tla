---------------------------- MODULE PeerLifecycle ----------------------------
(***************************************************************************)
(* What the central promises about each camera it pairs, without threads,  *)
(* locks or indexes.  A camera is stored in the database before callers    *)
(* can reach it by its id, it is withdrawn from callers before it is       *)
(* removed from the database, a process restart loses no stored camera,    *)
(* and a camera that was removed never comes back, or, if it may return,   *)
(* only into the database.                                                 *)
(***************************************************************************)
CONSTANTS
    Peers,
    MayReturn   \* whether a removed camera may be stored again

VARIABLE phase    \* phase[p]: how far camera p got

Phases == {"new", "stored", "paired", "removed"}

TypeOK == phase \in [Peers -> Phases]

Init == phase = [p \in Peers |-> "new"]

\* Camera p moves from one phase to the next.
Advance(p, from, to) ==
    /\ phase[p] = from
    /\ phase' = [phase EXCEPT ![p] = to]

\* The process ends: what was paired is only stored, until it is loaded again.
Restart ==
    phase' = [p \in Peers |-> IF phase[p] = "paired" THEN "stored" ELSE phase[p]]

Next ==
    \/ \E p \in Peers :
          \/ Advance(p, "new", "stored")
          \/ Advance(p, "stored", "paired")
          \/ Advance(p, "paired", "stored")
          \/ Advance(p, "stored", "removed")
          \/ MayReturn /\ Advance(p, "removed", "stored")
    \/ Restart

Spec == Init /\ [][Next]_phase
==============================================================================
