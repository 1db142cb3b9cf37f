\* Two devp2p ids and one libp2p id for two places in the pool.
SPECIFICATION Spec
CONSTANTS
    r1 = r1
    r2 = r2
    l1 = l1
    RlpxIds <- MCRlpxIds
    Libp2pIds <- MCLibp2pIds
    MaxPeers = 2
    MaxObjects = 2
    MaxListeners = 2
SYMMETRY Symmetry
CHECK_DEADLOCK FALSE
INVARIANTS
    MembersAreConnected
    PoolBounded
    UnheardOnlyBesideLibp2p
    MembersHeardOnce
