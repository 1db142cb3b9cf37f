------------------------------ MODULE MCFetcher ------------------------------
(* A small instance of Fetcher for TLC: an RLPx node that reconnects once,  *)
(* as a second object, and a libp2p node.                                   *)
EXTENDS Fetcher, TLC

CONSTANTS r1, r2, l1

MCPeers  == {r1, r2, l1}
MCId     == (r1 :> "rlpx") @@ (r2 :> "rlpx") @@ (l1 :> "libp2p")
MCLibp2p == {l1}
=============================================================================
