--------------------------- MODULE MCPeerRegistry ---------------------------
(* Instances of PeerRegistry for TLC. *)
EXTENDS PeerRegistry, TLC

\* Threads, cameras and serial numbers are interchangeable (safety runs only).
Symmetry == Permutations(Rpc) \cup Permutations(Web) \cup Permutations(Peers)
            \cup Permutations(Serials)
=============================================================================
