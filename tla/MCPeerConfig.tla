---------------------------- MODULE MCPeerConfig ----------------------------
(* Instances of PeerConfig for TLC. *)
EXTENDS PeerConfig, TLC

\* Calls are interchangeable.
Symmetry == Permutations(Threads)
=============================================================================
