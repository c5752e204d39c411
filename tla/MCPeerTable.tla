----------------------------- MODULE MCPeerTable -----------------------------
(***************************************************************************)
(* Instances of PeerTable for TLC: connections and heap addresses are      *)
(* interchangeable, descriptors and slots are ordered.                     *)
(***************************************************************************)
EXTENDS PeerTable, TLC

Symmetry == Permutations(Conns) \cup Permutations(Addrs)

(* The executions in which registrations race and nobody is timed out.     *)
NoTimeouts == blame \subseteq {"overlap"}
=============================================================================
