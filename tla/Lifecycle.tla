------------------------------ MODULE Lifecycle ------------------------------
(***************************************************************************)
(* The life of a node: open(), start() and stop() of lib/client.ts, and    *)
(* what they call in lib/service/ethereumservice.ts, lib/service/service.ts,*)
(* lib/net/server/*.ts, lib/net/peerpool.ts, lib/sync/sync.ts and          *)
(* lib/blockchain/chain.ts.                                                *)
(*                                                                         *)
(* One service, and the servers that the configuration has.  open() and    *)
(* start() are called by one caller that awaits them, and calls them again *)
(* after they failed; stop() is called at any time, also while a stop() is *)
(* under way.  start() is only called when all earlier calls have settled. *)
(***************************************************************************)
EXTENDS Naturals

CONSTANTS
    Stops,          \* bound of the model: calls of stop() under way at a time
    MaxBootstraps   \* bound of the model: overlapping bootstraps

ASSUME LifecycleAssumption == MaxBootstraps \in Nat \ {0}

Transports == {"rlpx", "libp2p"}

VARIABLES
    servers,         \* config.servers, by name; never changes
    caller,          \* what the caller awaits: "nothing", "chain" or "servers"
    stop,            \* call of stop() -> "none", "interval" or "servers"
    clientOpened, clientStarted,
    serviceOpened, serviceRunning,
    answering,       \* the service listens to the 'message' event of its pool
    poolOpened,
    checking,        \* the interval of _statusCheck() is set
    chain,           \* "unread", "loaded" with its head, or "failed": opened,
                     \* but its head could not be read
    starting,        \* server -> what its start() awaits: "nothing",
                     \* "protocols", "listening"
    started,         \* server -> server.started
    transport,       \* server -> "none", "up" or "destroyed"
    syncRunning,     \* synchronizer.running
    lonely,          \* the pool is empty
    periods,         \* noPeerPeriods; 3 stands for 3 or more
    bootstraps,      \* calls of bootstrap() that _statusCheck() awaits
    failed,          \* history: servers whose last start() was rejected
    stopped,         \* history: some stop() got through the service
    unstoppable      \* history: some stop() was rejected

callsV   == <<caller, stop>>
clientV  == <<clientOpened, clientStarted>>
runV     == <<serviceRunning, syncRunning>>
poolV    == <<poolOpened, checking>>
serverV  == <<starting, started, transport>>
checkV   == <<lonely, periods, bootstraps>>
historyV == <<failed, stopped, unstoppable>>
vars     == <<servers, callsV, clientV, serviceOpened, runV, answering, poolV, chain,
              serverV, checkV, historyV>>

Init ==
    /\ servers \in SUBSET Transports
    /\ caller = "nothing" /\ stop = [s \in Stops |-> "none"]
    /\ clientOpened = FALSE /\ clientStarted = FALSE
    /\ serviceOpened = FALSE /\ serviceRunning = FALSE /\ answering = TRUE
    /\ syncRunning = FALSE /\ poolOpened = FALSE /\ checking = FALSE
    /\ chain = "unread"
    /\ starting = [x \in Transports |-> "nothing"]
    /\ started = [x \in Transports |-> FALSE]
    /\ transport = [x \in Transports |-> "none"]
    /\ lonely = TRUE /\ periods = 0 /\ bootstraps = 0
    /\ failed = {} /\ stopped = FALSE /\ unstoppable = FALSE

-----------------------------------------------------------------------------
(* open() *)

\* The pool subscribes to the servers and starts its status check.
PoolOpens == poolOpened' = TRUE /\ checking' = TRUE

\* The service adds its protocols to the servers, opens its pool and is open.
ServiceOpens == serviceOpened' = TRUE /\ PoolOpens

\* open(): the service opens, and awaits its chain.  A service that is open
\* already, from a call that failed, has nothing to await.
Open ==
    /\ caller = "nothing" /\ ~clientOpened
    /\ IF serviceOpened
       THEN clientOpened' = TRUE /\ UNCHANGED <<caller, serviceOpened, poolV>>
       ELSE caller' = "chain" /\ ServiceOpens /\ UNCHANGED clientOpened
    /\ UNCHANGED <<servers, stop, clientStarted, runV, answering, chain, serverV,
                   checkV, historyV>>

\* The head is read, and with it open() is over.
ChainOpened ==
    /\ caller = "chain" /\ caller' = "nothing"
    /\ chain' = "loaded" /\ clientOpened' = TRUE
    /\ UNCHANGED <<servers, stop, clientStarted, serviceOpened, runV, answering, poolV,
                   serverV, checkV, historyV>>

\* open() is rejected: the database does not open, or does but not its head.
OpenFails ==
    /\ caller = "chain" /\ caller' = "nothing"
    /\ chain' \in {"unread", "failed"}
    /\ UNCHANGED <<servers, stop, clientV, serviceOpened, runV, answering, poolV,
                   serverV, checkV, historyV>>

-----------------------------------------------------------------------------
(* start() *)

\* The last part of start(): the service finds the servers started, runs, and
\* starts the synchronizer without awaiting it.
RunService == serviceRunning' = TRUE /\ syncRunning' = TRUE /\ clientStarted' = TRUE

\* start(): each server that is not started opens its protocols.
Start ==
    /\ caller = "nothing" /\ clientOpened /\ ~clientStarted
    /\ \A s \in Stops : stop[s] = "none"
    /\ \A x \in Transports : starting[x] = "nothing"
    /\ IF \A x \in servers : started[x]
       THEN RunService /\ UNCHANGED <<caller, starting>>
       ELSE /\ caller' = "servers"
            /\ starting' = [x \in Transports |-> IF x \in servers /\ ~started[x]
                                                 THEN "protocols" ELSE "nothing"]
            /\ UNCHANGED <<runV, clientStarted>>
    /\ UNCHANGED <<servers, stop, clientOpened, serviceOpened, answering, poolV, chain,
                   started, transport, checkV, historyV>>

\* RlpxServer makes its transports and listens: peers may come.
InitTransport(x) ==
    transport' = IF x = "rlpx" THEN [transport EXCEPT ![x] = "up"] ELSE transport

\* Mutant of ProtocolsOpened: the protocols do not open the chain.
ProtocolsOpenedUnread(x) ==
    /\ starting[x] = "protocols" /\ starting' = [starting EXCEPT ![x] = "listening"]
    /\ started' = [started EXCEPT ![x] = TRUE] /\ InitTransport(x)
    /\ failed' = failed \ {x}
    /\ UNCHANGED <<servers, callsV, clientV, serviceOpened, runV, answering, poolV,
                   chain, checkV, stopped, unstoppable>>

\* The protocols of a server are open, for which they opened the chain unless
\* it was: as far as Server.start() goes the server is started.
ProtocolsOpened(x) ==
    /\ starting[x] = "protocols" /\ starting' = [starting EXCEPT ![x] = "listening"]
    /\ chain' \in {chain, "loaded"} \ {"unread"}
    /\ started' = [started EXCEPT ![x] = TRUE] /\ InitTransport(x)
    /\ failed' = failed \ {x}
    /\ UNCHANGED <<servers, callsV, clientV, serviceOpened, runV, answering, poolV,
                   checkV, stopped, unstoppable>>

\* The bootnodes are contacted, or the libp2p node listens.  With the last
\* server that start() awaits the service runs.
ServerStarted(x) ==
    /\ starting[x] = "listening" /\ starting' = [starting EXCEPT ![x] = "nothing"]
    /\ started' = [started EXCEPT ![x] = TRUE]
    /\ transport' = [transport EXCEPT ![x] = "up"]
    /\ IF caller = "servers" /\ \A y \in servers : starting'[y] = "nothing"
       THEN caller' = "nothing" /\ RunService
       ELSE UNCHANGED <<caller, runV, clientStarted>>
    /\ UNCHANGED <<servers, stop, clientOpened, serviceOpened, answering, poolV, chain,
                   checkV, historyV>>

\* The chain does not open for a protocol, or the libp2p node does not listen:
\* start() is rejected, while the other servers go on starting.
ServerFails(x) ==
    /\ \/ starting[x] = "protocols" /\ chain = "unread" /\ chain' \in {"unread", "failed"}
       \/ starting[x] = "listening" /\ x = "libp2p" /\ UNCHANGED chain
    /\ starting' = [starting EXCEPT ![x] = "nothing"]
    /\ caller' = "nothing" /\ failed' = failed \cup {x}
    /\ UNCHANGED <<servers, stop, clientV, serviceOpened, runV, answering, poolV,
                   started, transport, checkV, stopped, unstoppable>>

-----------------------------------------------------------------------------
(* stop() *)

\* The pool is emptied, and its status check ends.
ClosePool == poolOpened' = FALSE /\ checking' = FALSE /\ lonely' = TRUE

\* Service.stop(): if the service is open its pool is closed and loses all its
\* listeners, also those that only the constructor attaches.
CloseService ==
    /\ IF serviceOpened /\ serviceRunning
       THEN answering' = FALSE /\ ClosePool
       ELSE UNCHANGED <<answering, poolV, lonely>>
    /\ serviceOpened' = FALSE /\ serviceRunning' = FALSE

\* Both servers stop at once.  RlpxServer destroys its transports there and
\* then; that of libp2p is awaited, and with it the end of stop().
StopServers(s) ==
    /\ transport' = IF started["rlpx"] THEN [transport EXCEPT !["rlpx"] = "destroyed"]
                    ELSE transport
    /\ started' = [started EXCEPT !["rlpx"] = FALSE]
    /\ stop' = [stop EXCEPT ![s] = IF started["libp2p"] THEN "servers" ELSE "none"]
    /\ clientStarted' = started["libp2p"]
    /\ stopped' = TRUE

\* Mutant of Stop: the service does not await its synchronizer.
StopUnawaited(s) ==
    /\ stop[s] = "none" /\ clientStarted
    /\ IF serviceRunning
       THEN /\ stop' = [stop EXCEPT ![s] = "interval"] /\ CloseService
            /\ UNCHANGED <<transport, started, clientStarted, stopped>>
       ELSE StopServers(s) /\ UNCHANGED <<serviceOpened, serviceRunning, answering, poolV, lonely>>
    /\ UNCHANGED <<servers, caller, clientOpened, syncRunning, chain, starting, periods,
                   bootstraps, failed, unstoppable>>

\* stop(): the synchronizer is stopped first, which takes an interval; a
\* service that does not run has nothing to stop.
Stop(s) ==
    /\ stop[s] = "none" /\ clientStarted
    /\ IF serviceRunning
       THEN /\ stop' = [stop EXCEPT ![s] = "interval"]
            /\ UNCHANGED <<transport, started, clientStarted, stopped>>
       ELSE StopServers(s)
    /\ UNCHANGED <<servers, caller, clientOpened, serviceOpened, runV, answering, poolV,
                   chain, starting, checkV, failed, unstoppable>>

\* Mutant of SyncStopped: the interval is only waited for while the
\* synchronizer runs.
SyncStoppedWhileRunning(s) ==
    /\ stop[s] = "interval" /\ syncRunning
    /\ syncRunning' = FALSE
    /\ CloseService /\ StopServers(s)
    /\ UNCHANGED <<servers, caller, clientOpened, chain, starting, periods, bootstraps,
                   failed, unstoppable>>

\* Mutant of SyncStopped: the status check goes on.
SyncStoppedChecks(s) ==
    /\ stop[s] = "interval"
    /\ syncRunning' = FALSE
    /\ answering' = FALSE /\ poolOpened' = FALSE /\ lonely' = TRUE
    /\ serviceOpened' = FALSE /\ serviceRunning' = FALSE
    /\ StopServers(s)
    /\ UNCHANGED <<servers, caller, clientOpened, checking, chain, starting, periods,
                   bootstraps, failed, unstoppable>>

\* The interval is over: the synchronizer and the service stop, then the servers.
SyncStopped(s) ==
    /\ stop[s] = "interval"
    /\ syncRunning' = FALSE
    /\ CloseService /\ StopServers(s)
    /\ UNCHANGED <<servers, caller, clientOpened, chain, starting, periods, bootstraps,
                   failed, unstoppable>>

\* The libp2p node has stopped, and with it the client.
StopEnds(s) ==
    /\ stop[s] = "servers" /\ stop' = [stop EXCEPT ![s] = "none"]
    /\ started' = [started EXCEPT !["libp2p"] = FALSE]
    /\ transport' = [transport EXCEPT !["libp2p"] = "destroyed"]
    /\ clientStarted' = FALSE
    /\ UNCHANGED <<servers, caller, clientOpened, serviceOpened, runV, answering, poolV,
                   chain, starting, checkV, historyV>>

\* The libp2p node does not stop: stop() is rejected, the client stays started.
StopFails(s) ==
    /\ stop[s] = "servers" /\ stop' = [stop EXCEPT ![s] = "none"]
    /\ unstoppable' = TRUE
    /\ UNCHANGED <<servers, caller, clientV, serviceOpened, runV, answering, poolV,
                   chain, serverV, checkV, failed, stopped>>

-----------------------------------------------------------------------------
(* The status check of the pool *)

\* Mutant of StatusCheck: the count starts again at every check.
StatusCheckForgets ==
    /\ checking
    /\ periods' = IF lonely THEN 1 ELSE 0
    /\ UNCHANGED <<servers, callsV, clientV, serviceOpened, runV, answering, poolV,
                   chain, serverV, lonely, bootstraps, historyV>>

\* _statusCheck(), every 20 s: the third empty check in a row bootstraps the
\* RlpxServer again; where there is none the count starts again at once.
StatusCheck ==
    /\ checking
    /\ IF ~lonely \/ (periods >= 2 /\ "rlpx" \notin servers)
       THEN periods' = 0 /\ UNCHANGED bootstraps
       ELSE /\ periods' = IF periods < 3 THEN periods + 1 ELSE 3
            /\ IF periods >= 2
               THEN bootstraps < MaxBootstraps /\ bootstraps' = bootstraps + 1
               ELSE UNCHANGED bootstraps
    /\ UNCHANGED <<servers, callsV, clientV, serviceOpened, runV, answering, poolV,
                   chain, serverV, lonely, historyV>>

\* The bootstrap that _statusCheck() awaits ends; a server that has not been
\* started catches its error.
Bootstrapped ==
    /\ bootstraps > 0 /\ bootstraps' = bootstraps - 1 /\ periods' = 0
    /\ UNCHANGED <<servers, callsV, clientV, serviceOpened, runV, answering, poolV,
                   chain, serverV, lonely, historyV>>

\* Peers come while a transport is up, and go.
Peers ==
    /\ lonely' = ~lonely /\ (lonely => \E x \in servers : transport[x] = "up")
    /\ UNCHANGED <<servers, callsV, clientV, serviceOpened, runV, answering, poolV,
                   chain, serverV, periods, bootstraps, historyV>>

-----------------------------------------------------------------------------

\* What promises and timers do, as opposed to callers and peers.
Settle ==
    \/ ChainOpened \/ OpenFails
    \/ \E x \in Transports : ProtocolsOpened(x) \/ ServerStarted(x) \/ ServerFails(x)
    \/ \E s \in Stops : SyncStopped(s) \/ StopEnds(s) \/ StopFails(s)
    \/ StatusCheck \/ Bootstrapped

Next == Open \/ Start \/ (\E s \in Stops : Stop(s)) \/ Settle \/ Peers

Spec == Init /\ [][Next]_vars

-----------------------------------------------------------------------------
(* Properties *)

TypeOK ==
    /\ servers \in SUBSET Transports
    /\ caller \in {"nothing", "chain", "servers"}
    /\ stop \in [Stops -> {"none", "interval", "servers"}]
    /\ clientOpened \in BOOLEAN /\ clientStarted \in BOOLEAN
    /\ serviceOpened \in BOOLEAN /\ serviceRunning \in BOOLEAN
    /\ answering \in BOOLEAN /\ poolOpened \in BOOLEAN /\ checking \in BOOLEAN
    /\ chain \in {"unread", "loaded", "failed"}
    /\ starting \in [Transports -> {"nothing", "protocols", "listening"}]
    /\ started \in [Transports -> BOOLEAN]
    /\ transport \in [Transports -> {"none", "up", "destroyed"}]
    /\ syncRunning \in BOOLEAN /\ lonely \in BOOLEAN
    /\ periods \in 0 .. 3 /\ bootstraps \in 0 .. MaxBootstraps
    /\ failed \in SUBSET servers /\ stopped \in BOOLEAN /\ unstoppable \in BOOLEAN

\* A transport accepts peers only when the handshake can tell our head, also
\* when open() failed and was called again: encodeStatus() takes
\* chain.blocks.latest for granted.  Only a database that opened, and whose
\* head could not be read, gets past this.
TransportKnowsHead ==
    \A x \in Transports : transport[x] = "up" => chain # "unread"

\* Until a stop() is through with the service, a started client is complete:
\* its servers are up, except those whose start failed before, its pool is
\* open and looked after, its service answers and its synchronizer runs.
FirstRunComplete ==
    clientStarted /\ ~stopped =>
        /\ \A x \in servers : started[x] /\ (transport[x] = "up" \/ x \in failed)
        /\ poolOpened /\ checking /\ serviceRunning /\ answering /\ syncRunning

\* Unless the start of a server failed, nothing goes on in a client that is
\* not started: however often and when stop() was called, and whether some of
\* its calls failed, no server, no service, no status check and no
\* synchronizer is left running.
StoppedIsQuiet ==
    /\ failed = {} /\ ~clientStarted /\ caller = "nothing"
    /\ \A s \in Stops : stop[s] = "none"
    =>
    /\ \A x \in servers : ~started[x] /\ transport[x] # "up"
    /\ ~serviceRunning /\ ~syncRunning
    /\ stopped => ~checking
=============================================================================
