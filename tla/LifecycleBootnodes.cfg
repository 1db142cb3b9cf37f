\* The two clients of the first example of the README of the repository.
SPECIFICATION SpecRpc
CONSTANTS
    s1 = s1
    s2 = s2
    u1 = u1
    Stops <- MCStops
    MaxBootstraps = 2
    Users <- MCUsers
    Commands <- MCReadme
    Hosts <- MCHosts
    Numbers <- MCNumbers
    BootstrapNodes <- MCBootstrapNodes
INVARIANT
    BootnodesAsAsked
