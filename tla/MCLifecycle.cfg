\* Two overlapping calls of stop(), or interrupts, and one user of the RPC server.
SPECIFICATION SpecRpc
CONSTANTS
    s1 = s1
    s2 = s2
    u1 = u1
    Stops <- MCStops
    MaxBootstraps = 2
    Users <- MCUsers
    Commands <- MCCommands
    Hosts <- MCHosts
    Numbers <- MCNumbers
    BootstrapNodes <- MCBootstrapNodes
INVARIANTS
    TransportKnowsHead
    FirstRunComplete
    StoppedIsQuiet
    ServersAsAsked
    RequestsMeetNode
PROPERTIES
    LonelyPoolBootstraps
    StopsResolve
    InterruptExits
