\* Two protocols, and each of the ways in which a peer comes to be.
SPECIFICATION FairSpec
CONSTANTS
    Protocols = {eth, les}
    MaxAsked = 1
CHECK_DEADLOCK FALSE
INVARIANTS
    ConnectedIsWhole
    AnsweredOnce
    FlagFollowsEvents
PROPERTIES
    ThrowsOnlyWhileBinding
    BindingEnds
    DialConnects
