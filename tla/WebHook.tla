------------------------------- MODULE WebHook -------------------------------
(***************************************************************************)
(* What the hook of one peer in Homegear's webserver promises: a request   *)
(* gets in only while the hook is open, and whoever is inside when it is   *)
(* closed for good gets out, so that removing the hooks can wait for it.   *)
(***************************************************************************)
CONSTANT Visitors   \* the requests that may be dispatched to the peer

VARIABLES
    open,           \* whether requests are dispatched
    inside          \* the requests being served

vars == <<open, inside>>

Init == open \in BOOLEAN /\ inside = {}

Enter(v) ==
    /\ open /\ v \notin inside
    /\ inside' = inside \cup {v}
    /\ UNCHANGED open

Leave(v) ==
    /\ v \in inside
    /\ inside' = inside \ {v}
    /\ UNCHANGED open

\* The peer is hooked, or its hooks are removed.
Turn == open' \in BOOLEAN /\ UNCHANGED inside

\* The process ends.
Stop == open' = FALSE /\ inside' = {}

Next == (\E v \in Visitors : Enter(v) \/ Leave(v)) \/ Turn \/ Stop

SafeSpec == Init /\ [][Next]_vars

\* An open hook may keep its requests for ever, a closed one may not.
Drains == \A v \in Visitors : v \in inside ~> v \notin inside \/ open

Spec == SafeSpec /\ Drains
=============================================================================
