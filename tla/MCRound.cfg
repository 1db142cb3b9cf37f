\* Every pool of three peers, and every range of up to six blocks; bytes of
\* three values and hashes of three bytes, so numbers of one and two bytes.
SPECIFICATION SpecBoth
CONSTANTS
    NumPeers = 3
    MaxTd = 2
    MaxHeight = 6
    MaxRequest = 3
    MinPeers = 2
    Base = 3
    HashLength = 3
    MaxNumber = 8
    MaxRequests = 2
    Undefined = Undefined
CHECK_DEADLOCK FALSE
INVARIANTS
    BestIsHeaviest
    TasksTile
    StatusArrives
    RequestArrives
