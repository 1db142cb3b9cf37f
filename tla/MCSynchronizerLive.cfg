\* Liveness, without symmetry and over one block.
SPECIFICATION FairSpec
CONSTANTS
    l1 = l1
    l2 = l2
    s1 = s1
    s2 = s2
    f1 = f1
    f2 = f2
    Loops <- MCLoops
    Stops <- MCOneStop
    Fetchers <- MCFetchers
    None = None
    MaxHeight = 1
    MinPeers = 2
    MaxPeers = 2
PROPERTIES
    LoopsEnd
    CatchesUp
