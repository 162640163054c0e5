-------------------------- MODULE MCConnectionMaps --------------------------
(* Instances of ConnectionMaps for TLC.                                     *)
EXTENDS ConnectionMaps, TLC

(* Connections of one kind, and addresses, are interchangeable.             *)
Symmetry ==
    Permutations(Conns \ P2P) \cup Permutations(P2P) \cup Permutations(Addrs)
=============================================================================
