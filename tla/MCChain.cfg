\* Three calls at a time over two blocks.
SPECIFICATION Spec
CONSTANTS
    c1 = c1
    c2 = c2
    c3 = c3
    Calls <- MCCalls
    Null = Null
    MaxHeight = 2
SYMMETRY Symmetry
INVARIANTS
    CacheInDatabase
    StaleOnlyIfSpoiled
PROPERTIES
    PutIsVisible
