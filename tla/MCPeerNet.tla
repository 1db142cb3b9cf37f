------------------------------ MODULE MCPeerNet ------------------------------
(* A small instance of PeerNet for TLC.                                     *)
EXTENDS PeerNet, TLC

CONSTANTS r1, r2, l1

MCRlpxIds   == {r1, r2}
MCLibp2pIds == {l1}
Symmetry    == Permutations(MCRlpxIds)
=============================================================================
