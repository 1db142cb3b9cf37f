\* Two loops, two stop() calls and two fetchers at a time, over two blocks.
SPECIFICATION Spec
CONSTANTS
    l1 = l1
    l2 = l2
    s1 = s1
    s2 = s2
    f1 = f1
    f2 = f2
    Loops <- MCLoops
    Stops <- MCStops
    Fetchers <- MCFetchers
    None = None
    MaxHeight = 2
    MinPeers = 2
    MaxPeers = 2
SYMMETRY Symmetry
INVARIANTS
    NoGap
    StopReachesFetcher
