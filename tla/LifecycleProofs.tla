-------------------------- MODULE LifecycleProofs --------------------------
(***************************************************************************)
(* Invariants of Lifecycle, proved for every set of overlapping calls of   *)
(* stop() and every configuration of servers: for a program that uses the  *)
(* client as it likes, and in the composition with the program and the RPC *)
(* server of Cli and Rpc, for every command and any number of users.       *)
(***************************************************************************)
EXTENDS Rpc, WellFoundedInduction, TLAPS

-----------------------------------------------------------------------------
(* Lifecycle *)

\* Before open() is through nothing is started, and it is under way at most once.
Unopened ==
    /\ ~clientOpened => /\ ~clientStarted /\ ~stopped /\ caller # "servers"
                        /\ \A s \in Stops : stop[s] = "none"
                        /\ \A x \in Transports : starting[x] = "nothing" /\ ~started[x]
                                                 /\ transport[x] = "none"
    /\ caller = "chain" => ~clientOpened /\ serviceOpened

\* The head is known from the moment a server is past its protocols.
HeadKnown ==
    \A x \in Transports :
        transport[x] = "up" \/ starting[x] = "listening" => chain # "unread"

\* Servers start only while neither a stop() nor a started client is there.
Starts ==
    /\ \A x \in Transports \ servers : starting[x] = "nothing" /\ ~started[x]
    /\ \A x \in Transports : transport[x] = "up" => started[x]
    /\ clientStarted \/ (\E s \in Stops : stop[s] # "none") =>
          caller # "servers" /\ \A x \in Transports : starting[x] = "nothing"
    /\ caller = "servers" =>
          \A x \in servers : starting[x] = "nothing" => started[x]

\* The first run, up to its first stop().
FirstRun ==
    ~stopped =>
        /\ \A x \in Transports :
              started[x] /\ starting[x] = "nothing" => transport[x] = "up" \/ x \in failed
        /\ clientStarted => serviceRunning /\ \A x \in servers : started[x]
        /\ answering
        /\ serviceOpened => poolOpened /\ checking
        /\ clientOpened => serviceOpened

\* What a stop() that is under way has done.
Stopping ==
    /\ syncRunning = serviceRunning
    /\ serviceRunning => clientStarted
    /\ \A s \in Stops :
          /\ stop[s] = "servers" => stopped /\ ~started["rlpx"] /\ ~serviceRunning
          /\ stop[s] = "interval" => clientStarted \/ stopped
    /\ stopped => ~serviceOpened /\ ~checking

\* A client that is not started, and does not start, has no server on its way
\* or up, unless another one failed.
Resting ==
    ~clientStarted /\ caller # "servers" =>
        \/ \E x \in failed : starting[x] = "nothing"
        \/ \A x \in Transports :
              ~started[x] /\ transport[x] # "up" /\ starting[x] = "nothing"

LifeInv == TypeOK /\ Unopened /\ HeadKnown /\ Starts /\ FirstRun /\ Stopping /\ Resting

\* Every step keeps the types.
LEMMA TypeStep == TypeOK /\ Starts /\ [Next]_vars => TypeOK'
<1> SUFFICES ASSUME TypeOK, Starts, [Next]_vars PROVE TypeOK'
  OBVIOUS
<1> USE DEF callsV, clientV, runV, poolV, serverV, checkV, historyV, Transports
<1>1. CASE Open
  BY <1>1 DEF Open, ServiceOpens, PoolOpens, TypeOK
<1>2. CASE ChainOpened
  BY <1>2 DEF ChainOpened, TypeOK
<1>3. CASE OpenFails
  BY <1>3 DEF OpenFails, TypeOK
<1>4. CASE Start
  BY <1>4 DEF Start, RunService, TypeOK
<1>5. ASSUME NEW x \in Transports, ProtocolsOpened(x) PROVE TypeOK'
  <2>1. /\ starting' \in [Transports -> {"nothing", "protocols", "listening"}]
        /\ started' \in [Transports -> BOOLEAN]
        /\ transport' \in [Transports -> {"none", "up", "destroyed"}]
    BY <1>5 DEF ProtocolsOpened, InitTransport, TypeOK
  <2>2. chain' \in {"unread", "loaded", "failed"} /\ failed' \in SUBSET servers
    BY <1>5 DEF ProtocolsOpened, TypeOK
  <2> QED
    BY <1>5, <2>1, <2>2 DEF ProtocolsOpened, TypeOK
<1>6. ASSUME NEW x \in Transports, ServerStarted(x) PROVE TypeOK'
  <2>1. /\ starting' \in [Transports -> {"nothing", "protocols", "listening"}]
        /\ started' \in [Transports -> BOOLEAN]
        /\ transport' \in [Transports -> {"none", "up", "destroyed"}]
    BY <1>6 DEF ServerStarted, TypeOK
  <2>2. /\ caller' \in {"nothing", "chain", "servers"} /\ clientStarted' \in BOOLEAN
        /\ serviceRunning' \in BOOLEAN /\ syncRunning' \in BOOLEAN
    BY <1>6 DEF ServerStarted, RunService, TypeOK
  <2> QED
    BY <1>6, <2>1, <2>2 DEF ServerStarted, TypeOK
<1>7. ASSUME NEW x \in Transports, ServerFails(x) PROVE TypeOK'
  <2>1. x \in servers
    BY <1>7 DEF ServerFails, Starts
  <2>2. /\ starting' \in [Transports -> {"nothing", "protocols", "listening"}]
        /\ chain' \in {"unread", "loaded", "failed"}
    BY <1>7 DEF ServerFails, TypeOK
  <2>3. failed' \in SUBSET servers /\ caller' = "nothing"
    BY <1>7, <2>1 DEF ServerFails, TypeOK
  <2> QED
    BY <1>7, <2>2, <2>3 DEF ServerFails, TypeOK
<1>8. ASSUME NEW s \in Stops, Stop(s) PROVE TypeOK'
  <2>1. /\ stop' \in [Stops -> {"none", "interval", "servers"}]
        /\ started' \in [Transports -> BOOLEAN]
        /\ transport' \in [Transports -> {"none", "up", "destroyed"}]
    BY <1>8 DEF Stop, StopServers, TypeOK
  <2>2. clientStarted' \in BOOLEAN /\ stopped' \in BOOLEAN
    BY <1>8 DEF Stop, StopServers, TypeOK
  <2> QED
    BY <1>8, <2>1, <2>2 DEF Stop, TypeOK
<1>9. ASSUME NEW s \in Stops, SyncStopped(s) PROVE TypeOK'
  <2>1. /\ stop' \in [Stops -> {"none", "interval", "servers"}]
        /\ started' \in [Transports -> BOOLEAN]
        /\ transport' \in [Transports -> {"none", "up", "destroyed"}]
        /\ clientStarted' \in BOOLEAN /\ stopped' \in BOOLEAN
    BY <1>9 DEF SyncStopped, StopServers, TypeOK
  <2>2. /\ answering' \in BOOLEAN /\ poolOpened' \in BOOLEAN /\ checking' \in BOOLEAN
        /\ lonely' \in BOOLEAN /\ serviceOpened' \in BOOLEAN
        /\ serviceRunning' \in BOOLEAN /\ syncRunning' \in BOOLEAN
    BY <1>9 DEF SyncStopped, CloseService, ClosePool, TypeOK
  <2> QED
    BY <1>9, <2>1, <2>2 DEF SyncStopped, TypeOK
<1>10. ASSUME NEW s \in Stops, StopEnds(s) \/ StopFails(s) PROVE TypeOK'
  <2>1. CASE StopEnds(s)
    <3>1. /\ stop' \in [Stops -> {"none", "interval", "servers"}]
          /\ started' \in [Transports -> BOOLEAN]
          /\ transport' \in [Transports -> {"none", "up", "destroyed"}]
      BY <2>1 DEF StopEnds, TypeOK
    <3>2. /\ caller' \in {"nothing", "chain", "servers"} /\ clientOpened' \in BOOLEAN
          /\ clientStarted' \in BOOLEAN /\ serviceOpened' \in BOOLEAN
          /\ serviceRunning' \in BOOLEAN /\ answering' \in BOOLEAN
          /\ poolOpened' \in BOOLEAN /\ checking' \in BOOLEAN
          /\ syncRunning' \in BOOLEAN /\ lonely' \in BOOLEAN
      BY <2>1 DEF StopEnds, TypeOK
    <3>3. /\ servers' \in SUBSET Transports /\ chain' \in {"unread", "loaded", "failed"}
          /\ starting' \in [Transports -> {"nothing", "protocols", "listening"}]
          /\ periods' \in 0 .. 3 /\ bootstraps' \in 0 .. MaxBootstraps
          /\ failed' \in SUBSET servers' /\ stopped' \in BOOLEAN /\ unstoppable' \in BOOLEAN
      BY <2>1 DEF StopEnds, TypeOK
    <3> QED
      BY <3>1, <3>2, <3>3 DEF TypeOK
  <2>2. CASE StopFails(s)
    BY <2>2 DEF StopFails, TypeOK
  <2> QED
    BY <1>10, <2>1, <2>2
<1>11. CASE StatusCheck
  BY <1>11, LifecycleAssumption DEF StatusCheck, TypeOK
<1>12. CASE Bootstrapped
  BY <1>12, LifecycleAssumption DEF Bootstrapped, TypeOK
<1>13. CASE Peers
  BY <1>13 DEF Peers, TypeOK
<1>14. CASE UNCHANGED vars
  BY <1>14 DEF vars, TypeOK
<1> QED
  BY <1>1, <1>2, <1>3, <1>4, <1>5, <1>6, <1>7, <1>8, <1>9, <1>10, <1>11, <1>12,
     <1>13, <1>14 DEF Next, Settle

\* The head is read before a server is past its protocols, whatever failed.
LEMMA HeadStep == LifeInv /\ TypeOK' /\ [Next]_vars => HeadKnown'
<1> SUFFICES ASSUME LifeInv, TypeOK', [Next]_vars PROVE HeadKnown'
  OBVIOUS
<1> USE DEF callsV, clientV, runV, poolV, serverV, checkV, historyV, LifeInv, HeadKnown
<1>1. CASE Open \/ StatusCheck \/ Bootstrapped \/ Peers \/ UNCHANGED vars
  BY <1>1 DEF Open, StatusCheck, Bootstrapped, Peers, vars
<1>2. CASE ChainOpened \/ OpenFails
  BY <1>2 DEF ChainOpened, OpenFails, Unopened
<1>3. CASE Start
  BY <1>3 DEF Start, TypeOK
<1>4. ASSUME NEW x \in Transports, ProtocolsOpened(x) PROVE HeadKnown'
  BY <1>4 DEF ProtocolsOpened
<1>5. ASSUME NEW x \in Transports, ServerStarted(x) PROVE HeadKnown'
  BY <1>5 DEF ServerStarted, TypeOK
<1>6. ASSUME NEW x \in Transports, ServerFails(x) PROVE HeadKnown'
  BY <1>6 DEF ServerFails, TypeOK
<1>7. ASSUME NEW s \in Stops, Stop(s) \/ SyncStopped(s) PROVE HeadKnown'
  BY <1>7 DEF Stop, SyncStopped, StopServers, TypeOK
<1>8. ASSUME NEW s \in Stops, StopEnds(s) \/ StopFails(s) PROVE HeadKnown'
  BY <1>8 DEF StopEnds, StopFails, TypeOK
<1> QED
  BY <1>1, <1>2, <1>3, <1>4, <1>5, <1>6, <1>7, <1>8 DEF Next, Settle

\* Nothing is started before open() is through.
LEMMA UnopenedStep == LifeInv /\ TypeOK' /\ [Next]_vars => Unopened'
<1> SUFFICES ASSUME LifeInv, TypeOK', [Next]_vars PROVE Unopened'
  OBVIOUS
<1> USE DEF callsV, clientV, runV, poolV, serverV, checkV, historyV, LifeInv, Unopened
<1>1. CASE Open
  BY <1>1 DEF Open, ServiceOpens
<1>2. CASE ChainOpened \/ OpenFails
  BY <1>2 DEF ChainOpened, OpenFails
<1>3. CASE Start
  BY <1>3 DEF Start, RunService
<1>4. ASSUME NEW x \in Transports, ProtocolsOpened(x) PROVE Unopened'
  BY <1>4 DEF ProtocolsOpened
<1>5. ASSUME NEW x \in Transports, ServerStarted(x) PROVE Unopened'
  BY <1>5 DEF ServerStarted, RunService
<1>6. ASSUME NEW x \in Transports, ServerFails(x) PROVE Unopened'
  BY <1>6 DEF ServerFails
<1>7. ASSUME NEW s \in Stops, Stop(s) PROVE Unopened'
  BY <1>7 DEF Stop
<1>8. ASSUME NEW s \in Stops, SyncStopped(s) PROVE Unopened'
  BY <1>8 DEF SyncStopped, CloseService
<1>9. ASSUME NEW s \in Stops, StopEnds(s) \/ StopFails(s) PROVE Unopened'
  BY <1>9 DEF StopEnds, StopFails
<1>10. CASE StatusCheck \/ Bootstrapped \/ Peers \/ UNCHANGED vars
  BY <1>10 DEF StatusCheck, Bootstrapped, Peers, vars
<1> QED
  BY <1>1, <1>2, <1>3, <1>4, <1>5, <1>6, <1>7, <1>8, <1>9, <1>10 DEF Next, Settle

\* Servers go on starting only in a client that neither is nor was started.
LEMMA StartsStep == LifeInv /\ TypeOK' /\ [Next]_vars => Starts'
<1> SUFFICES ASSUME LifeInv, TypeOK', [Next]_vars PROVE Starts'
  OBVIOUS
<1> USE DEF callsV, clientV, runV, poolV, serverV, checkV, historyV, LifeInv, Starts
<1>1. CASE Open
  BY <1>1 DEF Open
<1>2. CASE ChainOpened \/ OpenFails
  BY <1>2 DEF ChainOpened, OpenFails
<1>3. CASE Start
  BY <1>3 DEF Start, RunService, TypeOK
<1>4. ASSUME NEW x \in Transports, ProtocolsOpened(x) PROVE Starts'
  BY <1>4 DEF ProtocolsOpened, InitTransport, TypeOK
<1>5. ASSUME NEW x \in Transports, ServerStarted(x) PROVE Starts'
  BY <1>5 DEF ServerStarted, RunService, TypeOK
<1>6. ASSUME NEW x \in Transports, ServerFails(x) PROVE Starts'
  BY <1>6 DEF ServerFails, TypeOK
<1>7. ASSUME NEW s \in Stops, Stop(s) PROVE Starts'
  <2>1. /\ caller' # "servers" /\ UNCHANGED <<servers, starting>>
        /\ \A x \in Transports : starting[x] = "nothing"
    BY <1>7 DEF Stop
  <2>2. /\ \A x \in Transports : started'[x] => started[x]
        /\ \A x \in Transports : transport'[x] = "up" => started'[x]
    <3>1. CASE serviceRunning
      BY <1>7, <3>1 DEF Stop
    <3>2. CASE ~serviceRunning
      BY <1>7, <3>2 DEF Stop, StopServers, TypeOK
    <3> QED
      BY <3>1, <3>2
  <2> QED
    BY <2>1, <2>2
<1>8. ASSUME NEW s \in Stops, SyncStopped(s) PROVE Starts'
  BY <1>8 DEF SyncStopped, StopServers, TypeOK
<1>9. ASSUME NEW s \in Stops, StopEnds(s) PROVE Starts'
  BY <1>9 DEF StopEnds, TypeOK
<1>10. ASSUME NEW s \in Stops, StopFails(s) PROVE Starts'
  BY <1>10 DEF StopFails, TypeOK
<1>11. CASE StatusCheck \/ Bootstrapped \/ Peers \/ UNCHANGED vars
  BY <1>11 DEF StatusCheck, Bootstrapped, Peers, vars
<1> QED
  BY <1>1, <1>2, <1>3, <1>4, <1>5, <1>6, <1>7, <1>8, <1>9, <1>10, <1>11 DEF Next, Settle

\* Until its first stop() gets through, a started client keeps all it has.
LEMMA FirstRunStep == LifeInv /\ TypeOK' /\ [Next]_vars => FirstRun'
<1> SUFFICES ASSUME LifeInv, TypeOK', [Next]_vars PROVE FirstRun'
  OBVIOUS
<1> USE DEF callsV, clientV, runV, poolV, serverV, checkV, historyV, LifeInv, FirstRun
<1>1. CASE Open
  <2>1. CASE serviceOpened
    BY <1>1, <2>1 DEF Open
  <2>2. CASE ~serviceOpened
    BY <1>1, <2>2 DEF Open, ServiceOpens, PoolOpens
  <2> QED
    BY <2>1, <2>2
<1>2. CASE ChainOpened \/ OpenFails
  BY <1>2 DEF ChainOpened, OpenFails, Unopened
<1>3. CASE Start
  BY <1>3 DEF Start, RunService, TypeOK
<1>4. ASSUME NEW x \in Transports, ProtocolsOpened(x) PROVE FirstRun'
  BY <1>4 DEF ProtocolsOpened, InitTransport, TypeOK
<1>5. ASSUME NEW x \in Transports, ServerStarted(x) PROVE FirstRun'
  BY <1>5 DEF ServerStarted, RunService, TypeOK, Starts
<1>6. ASSUME NEW x \in Transports, ServerFails(x) PROVE FirstRun'
  BY <1>6 DEF ServerFails, TypeOK
<1>7. ASSUME NEW s \in Stops, Stop(s) PROVE FirstRun'
  BY <1>7 DEF Stop, StopServers, TypeOK
<1>8. ASSUME NEW s \in Stops, SyncStopped(s) PROVE FirstRun'
  BY <1>8 DEF SyncStopped, StopServers, TypeOK
<1>9. ASSUME NEW s \in Stops, StopEnds(s) \/ StopFails(s) PROVE FirstRun'
  BY <1>9 DEF StopEnds, StopFails, Stopping
<1>10. CASE StatusCheck \/ Bootstrapped \/ Peers \/ UNCHANGED vars
  BY <1>10 DEF StatusCheck, Bootstrapped, Peers, vars
<1> QED
  BY <1>1, <1>2, <1>3, <1>4, <1>5, <1>6, <1>7, <1>8, <1>9, <1>10 DEF Next, Settle

\* The calls of stop() do their parts in order, whoever else stops.
LEMMA StoppingStep == LifeInv /\ TypeOK' /\ [Next]_vars => Stopping'
<1> SUFFICES ASSUME LifeInv, TypeOK', [Next]_vars PROVE Stopping'
  OBVIOUS
<1> USE DEF callsV, clientV, runV, poolV, serverV, checkV, historyV, LifeInv, Stopping
<1>1. CASE Open
  <2>1. ~stopped /\ \A s \in Stops : stop[s] = "none"
    BY <1>1 DEF Open, Unopened
  <2> QED
    BY <1>1, <2>1 DEF Open
<1>2. CASE ChainOpened \/ OpenFails
  BY <1>2 DEF ChainOpened, OpenFails
<1>3. CASE Start
  BY <1>3 DEF Start, RunService, TypeOK
<1>4. ASSUME NEW x \in Transports, ProtocolsOpened(x) PROVE Stopping'
  BY <1>4 DEF ProtocolsOpened, Starts, TypeOK
<1>5. ASSUME NEW x \in Transports, ServerStarted(x) PROVE Stopping'
  BY <1>5 DEF ServerStarted, RunService, Starts, TypeOK
<1>6. ASSUME NEW x \in Transports, ServerFails(x) PROVE Stopping'
  BY <1>6 DEF ServerFails
<1>7. ASSUME NEW s \in Stops, Stop(s) PROVE Stopping'
  <2>1. CASE serviceRunning
    BY <1>7, <2>1 DEF Stop, TypeOK
  <2>2. CASE ~serviceRunning
    <3>1. stopped /\ ~serviceOpened /\ ~checking
      BY <1>7, <2>2 DEF Stop, FirstRun
    <3>2. /\ serviceRunning' = FALSE /\ syncRunning' = FALSE /\ stopped' = TRUE
          /\ ~serviceOpened' /\ ~checking'
      BY <1>7, <2>2, <3>1 DEF Stop, StopServers, TypeOK
    <3>3. ~started'["rlpx"]
      BY <1>7, <2>2 DEF Stop, StopServers, TypeOK, Transports
    <3> QED
      BY <3>2, <3>3
  <2> QED
    BY <2>1, <2>2
<1>8. ASSUME NEW s \in Stops, SyncStopped(s) PROVE Stopping'
  <2>1. /\ syncRunning' = FALSE /\ serviceRunning' = FALSE /\ stopped' = TRUE
        /\ ~started'["rlpx"]
    BY <1>8 DEF SyncStopped, CloseService, StopServers, TypeOK, Transports
  <2>2. ~serviceOpened' /\ ~checking'
    BY <1>8 DEF SyncStopped, CloseService, ClosePool, FirstRun, Unopened
  <2> QED
    BY <2>1, <2>2
<1>9. ASSUME NEW s \in Stops, StopEnds(s) \/ StopFails(s) PROVE Stopping'
  <2>1. stop' = [stop EXCEPT ![s] = "none"] /\ UNCHANGED <<runV, serviceOpened, poolV, stopped>>
    BY <1>9 DEF StopEnds, StopFails
  <2>2. stopped /\ ~serviceRunning
    BY <1>9 DEF StopEnds, StopFails
  <2>3. started'["rlpx"] = started["rlpx"]
    BY <1>9 DEF StopEnds, StopFails, TypeOK, Transports
  <2> QED
    BY <2>1, <2>2, <2>3 DEF TypeOK
<1>10. CASE StatusCheck \/ Bootstrapped \/ Peers \/ UNCHANGED vars
  BY <1>10 DEF StatusCheck, Bootstrapped, Peers, vars
<1> QED
  BY <1>1, <1>2, <1>3, <1>4, <1>5, <1>6, <1>7, <1>8, <1>9, <1>10 DEF Next, Settle

\* A client that is not started stays at rest.
LEMMA RestingStep == LifeInv /\ TypeOK' /\ [Next]_vars => Resting'
<1> SUFFICES ASSUME LifeInv, TypeOK', [Next]_vars PROVE Resting'
  OBVIOUS
<1> USE DEF callsV, clientV, runV, poolV, serverV, checkV, historyV, LifeInv, Resting
<1>1. CASE Open
  BY <1>1 DEF Open
<1>2. CASE ChainOpened \/ OpenFails
  BY <1>2 DEF ChainOpened, OpenFails
<1>3. CASE Start
  BY <1>3 DEF Start, RunService
<1>4. ASSUME NEW x \in Transports, ProtocolsOpened(x) PROVE Resting'
  BY <1>4 DEF ProtocolsOpened, Starts, TypeOK
<1>5. ASSUME NEW x \in Transports, ServerStarted(x) PROVE Resting'
  BY <1>5 DEF ServerStarted, RunService, Starts, TypeOK
<1>6. ASSUME NEW x \in Transports, ServerFails(x) PROVE Resting'
  BY <1>6 DEF ServerFails, TypeOK
<1>7. ASSUME NEW s \in Stops, Stop(s) PROVE Resting'
  <2>1. CASE serviceRunning
    BY <1>7, <2>1 DEF Stop
  <2>2. CASE ~serviceRunning
    <3>1. \A x \in Transports : starting'[x] = "nothing"
      BY <1>7 DEF Stop, Starts
    <3>2. ~started["libp2p"] => \A x \in Transports : ~started'[x] /\ transport'[x] # "up"
      BY <1>7, <2>2 DEF Stop, StopServers, Starts, TypeOK, Transports
    <3> QED
      BY <1>7, <2>2, <3>1, <3>2 DEF Stop, StopServers
  <2> QED
    BY <2>1, <2>2
<1>8. ASSUME NEW s \in Stops, SyncStopped(s) PROVE Resting'
  BY <1>8 DEF SyncStopped, StopServers, Starts, TypeOK, Transports
<1>9. ASSUME NEW s \in Stops, StopEnds(s) PROVE Resting'
  BY <1>9 DEF StopEnds, Starts, Stopping, TypeOK, Transports
<1>10. ASSUME NEW s \in Stops, StopFails(s) PROVE Resting'
  BY <1>10 DEF StopFails
<1>11. CASE StatusCheck \/ Bootstrapped \/ Peers \/ UNCHANGED vars
  BY <1>11 DEF StatusCheck, Bootstrapped, Peers, vars
<1> QED
  BY <1>1, <1>2, <1>3, <1>4, <1>5, <1>6, <1>7, <1>8, <1>9, <1>10, <1>11 DEF Next, Settle

\* LifeInv is inductive.
LEMMA LifeStep == LifeInv /\ [Next]_vars => LifeInv'
<1> SUFFICES ASSUME LifeInv, [Next]_vars PROVE LifeInv'
  OBVIOUS
<1>1. TypeOK'
  BY TypeStep DEF LifeInv
<1> QED
  BY <1>1, HeadStep, UnopenedStep, StartsStep, FirstRunStep, StoppingStep, RestingStep
  DEF LifeInv

\* LifeInv holds at the start.
LEMMA LifeInit == Init => LifeInv
<1> SUFFICES ASSUME Init PROVE LifeInv
  OBVIOUS
<1>1. TypeOK
  <2>1. /\ stop \in [Stops -> {"none", "interval", "servers"}]
        /\ starting \in [Transports -> {"nothing", "protocols", "listening"}]
        /\ started \in [Transports -> BOOLEAN]
        /\ transport \in [Transports -> {"none", "up", "destroyed"}]
    BY DEF Init
  <2>2. periods \in 0 .. 3 /\ bootstraps \in 0 .. MaxBootstraps
    BY LifecycleAssumption DEF Init
  <2> QED
    BY <2>1, <2>2 DEF Init, TypeOK
<1>2. Unopened /\ HeadKnown /\ Starts
  BY DEF Init, Unopened, HeadKnown, Starts
<1>3. FirstRun /\ Stopping /\ Resting
  BY DEF Init, FirstRun, Stopping, Resting
<1> QED
  BY <1>1, <1>2, <1>3 DEF LifeInv

-----------------------------------------------------------------------------
(* The program and its RPC server *)

\* The node is untouched until run() calls open(); what run() goes on from is an
\* open() that read the head, which stays known.
ProgramInv ==
    /\ main \in {"library", "options", "failed", "configured", "opening", "opened",
                 "starting", "ready"}
    /\ main = "options" => servers = {}
    /\ main \in {"options", "configured"} =>
          caller = "nothing" /\ ~clientOpened /\ ~serviceOpened
    /\ main = "opening" => caller = "chain"
    /\ main \in {"opened", "starting", "ready"} => clientOpened /\ chain = "loaded"

\* Requests come when run() is over, if it has made the RPC server, for which
\* there is the ETH protocol.
Serving == main = "ready" /\ asked.rpc

CallsInv ==
    /\ call \in [Users -> {"none", "reading", "over", "thrown"}]
    /\ Serving => "eth" \in config.protocols
    /\ \A u \in Users : call[u] # "none" => Serving

NodeInv == LifeInv /\ ProgramInv /\ CallsInv

\* What a step of the program is for the node: run() makes the Config, the node
\* takes a step or none.
LEMMA NodeStep == [NextRpc]_rpcVars => Configure \/ [Next]_vars
<1> SUFFICES ASSUME [NextRpc]_rpcVars PROVE Configure \/ [Next]_vars
  OBVIOUS
<1>1. CASE NextCli
  <2>1. CASE CallOpen \/ CallStart
    BY <2>1 DEF CallOpen, CallStart, Next
  <2>2. CASE Killed \/ Ended
    BY <2>2 DEF Killed, Ended, cliVars
  <2>3. CASE \E s \in Stops : Interrupt(s)
    BY <2>3 DEF Interrupt, Runs, Next
  <2>4. CASE Runs(Next) \/ Runs(Settle \/ Peers)
    BY <2>4 DEF Runs, Next
  <2> QED BY <1>1, <2>1, <2>2, <2>3, <2>4 DEF NextCli
<1>2. CASE UNCHANGED vars
  BY <1>2
<1> QED
  BY <1>1, <1>2 DEF NextRpc, rpcVars, cliVars, Refuse, Call, Throw, Read, Forget

\* The servers of a Config are of the two transports, and making one touches
\* nothing else of the node.
LEMMA ConfigureStep ==
    ASSUME LifeInv, ProgramInv, Configure
    PROVE  LifeInv' /\ ProgramInv'
<1> USE DEF callsV, clientV, runV, poolV, serverV, checkV, historyV
<1>1. /\ UNCHANGED <<caller, stop, clientOpened, clientStarted, serviceOpened,
                     serviceRunning, syncRunning, answering>>
      /\ UNCHANGED <<poolOpened, checking, chain, starting, started, transport>>
      /\ UNCHANGED <<lonely, periods, bootstraps, failed, stopped, unstoppable>>
  BY DEF Configure
<1>2. servers = {} /\ caller = "nothing" /\ ~clientOpened /\ ~serviceOpened
  BY DEF Configure, ProgramInv
<1>3. servers' \in SUBSET Transports
  <2>1. /\ servers' = {config'.servers[i].name : i \in DOMAIN config'.servers}
        /\ config' = NewConfig(asked)
    BY DEF Configure
  <2>2. PICK texts : config'.servers = Servers(texts)
    BY <2>1 DEF NewConfig
  <2>3. \A i \in DOMAIN Servers(texts) : Servers(texts)[i].name \in Transports
    BY DEF Servers, RlpxServer, Libp2pServer, Transports
  <2> QED BY <2>1, <2>2, <2>3
<1>4. TypeOK'
  <2>1. failed = {}
    BY <1>2 DEF LifeInv, TypeOK
  <2> QED BY <1>1, <1>3, <2>1 DEF LifeInv, TypeOK
<1>5. Unopened' /\ HeadKnown' /\ Stopping' /\ Resting'
  BY <1>1 DEF LifeInv, Unopened, HeadKnown, Stopping, Resting
<1>6. Starts' /\ FirstRun'
  BY <1>1, <1>2, <1>3 DEF LifeInv, Unopened, Starts, FirstRun
<1>7. ProgramInv'
  BY <1>1, <1>2 DEF Configure, ProgramInv
<1> QED
  BY <1>4, <1>5, <1>6, <1>7 DEF LifeInv

\* A client that is open stays open, and keeps the head that it knows.
LEMMA HeadStays ==
    ASSUME LifeInv, [Next]_vars, clientOpened, chain = "loaded"
    PROVE  clientOpened' /\ chain' = "loaded"
<1> USE DEF callsV, clientV, runV, poolV, serverV, checkV, historyV
<1>1. caller # "chain"
  BY DEF LifeInv, Unopened
<1>2. CASE Open \/ Start \/ \E s \in Stops : Stop(s)
  BY <1>2 DEF Open, Start, Stop
<1>3. CASE ChainOpened \/ OpenFails
  BY <1>1, <1>3 DEF ChainOpened, OpenFails
<1>4. CASE \E x \in Transports : ProtocolsOpened(x) \/ ServerStarted(x) \/ ServerFails(x)
  BY <1>4 DEF ProtocolsOpened, ServerStarted, ServerFails
<1>5. CASE \E s \in Stops : SyncStopped(s) \/ StopEnds(s) \/ StopFails(s)
  BY <1>5 DEF SyncStopped, StopEnds, StopFails
<1>6. CASE StatusCheck \/ Bootstrapped \/ Peers \/ UNCHANGED vars
  BY <1>6 DEF StatusCheck, Bootstrapped, Peers, vars
<1> QED
  BY <1>2, <1>3, <1>4, <1>5, <1>6 DEF Next, Settle

\* While open() is awaited, and before it is called, nothing else goes on that
\* would change what run() finds.
LEMMA OpeningStays ==
    ASSUME LifeInv, Settle \/ Peers, ~clientOpened
    PROVE  /\ caller = "nothing" /\ ~serviceOpened =>
                 caller' = "nothing" /\ ~clientOpened' /\ ~serviceOpened'
           /\ caller = "chain" =>
                 \/ caller' = "chain" /\ ~clientOpened'
                 \/ caller' = "nothing" /\ clientOpened' /\ chain' = "loaded"
                 \/ caller' = "nothing" /\ ~clientOpened'
<1> USE DEF callsV, clientV, runV, poolV, serverV, checkV, historyV
<1>1. /\ \A s \in Stops : stop[s] = "none"
      /\ \A x \in Transports : starting[x] = "nothing"
  BY DEF LifeInv, Unopened
<1>2. CASE ChainOpened \/ OpenFails
  BY <1>2 DEF ChainOpened, OpenFails
<1>3. CASE \/ \E x \in Transports : ProtocolsOpened(x) \/ ServerStarted(x) \/ ServerFails(x)
           \/ \E s \in Stops : SyncStopped(s) \/ StopEnds(s) \/ StopFails(s)
  BY <1>1, <1>3 DEF ProtocolsOpened, ServerStarted, ServerFails, SyncStopped, StopEnds,
     StopFails
<1>4. CASE StatusCheck \/ Bootstrapped \/ Peers
  BY <1>4 DEF StatusCheck, Bootstrapped, Peers
<1> QED
  BY <1>2, <1>3, <1>4 DEF Settle

\* run() goes on only after the call that it awaits.
LEMMA ProgramStep ==
    ASSUME LifeInv, ProgramInv, [NextRpc]_rpcVars
    PROVE  ProgramInv'
<1>1. CASE Configure
  BY <1>1, ConfigureStep
<1>2. CASE CallOpen
  <2>1. caller' = "chain" /\ main' = "opening"
    BY <1>2 DEF CallOpen, Open, ProgramInv
  <2> QED BY <2>1 DEF ProgramInv
<1>3. CASE CallStart
  <2>1. clientOpened /\ chain = "loaded" /\ main' \in {"ready", "failed", "starting"}
    BY <1>3 DEF CallStart, Listens, ProgramInv
  <2>2. clientOpened' /\ chain' = "loaded"
    BY <1>3, <2>1, HeadStays DEF CallStart, Next
  <2> QED BY <2>1, <2>2 DEF ProgramInv
<1>4. ASSUME Next, main' = Awaited,
             main # "library" => \/ Settle \/ Peers
                                 \/ main = "ready"
      PROVE  ProgramInv'
  <2>1. CASE main \in {"library", "failed"}
    BY <1>4, <2>1 DEF Awaited, ProgramInv
  <2>2. CASE main \in {"options", "configured"}
    <3>1. main' = main
      BY <1>4, <2>2 DEF Awaited
    <3>2. caller' = "nothing" /\ ~clientOpened' /\ ~serviceOpened'
      BY <1>4, <2>2, OpeningStays DEF ProgramInv
    <3>3. servers' = servers
      BY <1>4, <2>2 DEF Settle, ChainOpened, OpenFails, ProtocolsOpened, ServerStarted,
         ServerFails, SyncStopped, StopEnds, StopFails, StatusCheck, Bootstrapped, Peers
    <3> QED BY <2>2, <3>1, <3>2, <3>3 DEF ProgramInv
  <2>3. CASE main = "opening"
    <3>1. caller = "chain" /\ ~clientOpened
      BY <2>3 DEF ProgramInv, LifeInv, Unopened
    <3>2. \/ caller' = "chain" /\ main' = "opening"
          \/ clientOpened' /\ chain' = "loaded" /\ main' = "opened"
          \/ main' = "failed"
      BY <1>4, <2>3, <3>1, OpeningStays DEF Awaited
    <3> QED BY <3>2 DEF ProgramInv
  <2>4. CASE main \in {"opened", "starting", "ready"}
    <3>1. clientOpened' /\ chain' = "loaded"
      BY <1>4, <2>4, HeadStays DEF ProgramInv
    <3>2. main' \in {"opened", "starting", "ready", "failed"}
      BY <1>4, <2>4 DEF Awaited, Listens
    <3> QED BY <3>1, <3>2 DEF ProgramInv
  <2> QED BY <2>1, <2>2, <2>3, <2>4 DEF ProgramInv
<1>5. CASE \E s \in Stops : Interrupt(s)
  BY <1>4, <1>5 DEF Interrupt, Runs, Next
<1>6. CASE main = "library" /\ Runs(Next)
  BY <1>4, <1>6 DEF Runs
<1>7. CASE main # "library" /\ Runs(Settle \/ Peers)
  BY <1>4, <1>7 DEF Runs, Next
<1>8. CASE UNCHANGED vars /\ UNCHANGED main
  BY <1>8 DEF ProgramInv, vars, callsV, clientV
<1>9. CASE Killed \/ Ended
  BY <1>8, <1>9 DEF Killed, Ended, cliVars, cliV
<1>10. CASE UNCHANGED rpcVars \/ ~NextCli
  BY <1>8, <1>10 DEF NextRpc, rpcVars, cliVars, cliV, Refuse, Call, Throw, Read, Forget
<1> QED
  BY <1>1, <1>2, <1>3, <1>5, <1>6, <1>7, <1>9, <1>10 DEF NextCli

\* Once run() is over it stays so, with the command and the Config that it had.
LEMMA ServingStays ==
    ASSUME [NextRpc]_rpcVars
    PROVE  /\ main = "ready" => main' = "ready" /\ asked' = asked /\ config' = config
           /\ main # "ready" /\ Serving' => "eth" \in config'.protocols
<1>1. CASE NextCli
  <2>1. CASE Configure
    BY <2>1 DEF Configure, Serving
  <2>2. CASE CallOpen
    BY <2>2 DEF CallOpen, Serving
  <2>3. CASE CallStart
    BY <2>3 DEF CallStart, Serving, Listens
  <2>4. CASE Killed \/ Ended
    BY <2>4 DEF Killed, Ended, Serving, cliVars, cliV
  <2>5. ASSUME main' = Awaited, UNCHANGED <<asked, config>>
        PROVE  /\ main = "ready" => main' = "ready" /\ asked' = asked /\ config' = config
               /\ main # "ready" /\ Serving' => "eth" \in config'.protocols
    BY <2>5 DEF Awaited, Listens, Serving
  <2>6. CASE \/ \E s \in Stops : Interrupt(s)
             \/ main = "library" /\ Runs(Next)
             \/ main # "library" /\ Runs(Settle \/ Peers)
    BY <2>5, <2>6 DEF Interrupt, Runs
  <2> QED BY <1>1, <2>1, <2>2, <2>3, <2>4, <2>6 DEF NextCli
<1>2. CASE UNCHANGED <<asked, config, main>>
  BY <1>2 DEF Serving
<1> QED
  BY <1>1, <1>2 DEF NextRpc, rpcVars, cliVars, cliV, Refuse, Call, Throw, Read, Forget

\* Requests come only while the server takes them.
LEMMA CallsStep ==
    ASSUME CallsInv, [NextRpc]_rpcVars PROVE CallsInv'
<1>1. Serving => Serving'
  BY ServingStays DEF Serving
<1>2. Serving' => "eth" \in config'.protocols
  BY ServingStays DEF Serving, CallsInv
<1>3. ASSUME NEW u \in Users, NEW at \in {"none", "reading", "over", "thrown"}, Is(u, at),
             at # "none" => Serving
      PROVE  CallsInv'
  BY <1>1, <1>2, <1>3 DEF CallsInv, Is
<1>4. CASE UNCHANGED call
  BY <1>1, <1>2, <1>4 DEF CallsInv
<1>5. ASSUME NEW u \in Users, NEW m \in DOMAIN Methods, NEW params,
             Refuse(u, m, params) \/ Call(u, m, params) \/ Throw(u, m, params)
      PROVE  CallsInv'
  BY <1>3, <1>5 DEF Refuse, Call, Throw, Taken, Serving
<1>6. ASSUME NEW u \in Users, Read(u) \/ Forget(u) PROVE CallsInv'
  BY <1>3, <1>6 DEF Read, Forget, CallsInv
<1> QED
  BY <1>4, <1>5, <1>6 DEF NextRpc, rpcVars

\* NodeInv is inductive.
LEMMA NodeInvariant == SpecRpc => []NodeInv
<1>1. InitRpc => NodeInv
  <2> SUFFICES ASSUME InitRpc PROVE NodeInv
    OBVIOUS
  <2>1. LifeInv
    BY LifeInit DEF InitRpc, InitCli
  <2>2. ProgramInv
    BY DEF InitRpc, InitCli, Init, ProgramInv
  <2>3. CallsInv
    BY DEF InitRpc, InitCli, CallsInv, Serving
  <2> QED BY <2>1, <2>2, <2>3 DEF NodeInv
<1>2. NodeInv /\ [NextRpc]_rpcVars => NodeInv'
  BY NodeStep, ConfigureStep, LifeStep, ProgramStep, CallsStep DEF NodeInv
<1> QED
  BY <1>1, <1>2, PTL DEF SpecRpc

\* A transport that accepts peers knows the head for the handshake's status,
\* after every order of failed and repeated calls of open() and start().
THEOREM HeadIsKnown == SpecRpc => []TransportKnowsHead
<1>1. LifeInv => TransportKnowsHead
  BY DEF LifeInv, HeadKnown, TransportKnowsHead
<1> QED
  BY <1>1, NodeInvariant, PTL DEF NodeInv

\* A started client is complete until a stop() is through with its service.
THEOREM FirstRunIsComplete == SpecRpc => []FirstRunComplete
<1>1. LifeInv => FirstRunComplete
  <2> SUFFICES ASSUME LifeInv, clientStarted, ~stopped
               PROVE /\ \A x \in servers : started[x] /\ (transport[x] = "up" \/ x \in failed)
                     /\ poolOpened /\ checking /\ serviceRunning /\ answering /\ syncRunning
    BY DEF FirstRunComplete
  <2>1. servers \subseteq Transports
    BY DEF LifeInv, TypeOK
  <2>2. \A x \in servers : starting[x] = "nothing"
    BY <2>1 DEF LifeInv, Starts
  <2>3. clientOpened /\ serviceRunning /\ syncRunning
    BY DEF LifeInv, Unopened, FirstRun, Stopping
  <2> QED
    BY <2>1, <2>2, <2>3 DEF LifeInv, FirstRun
<1> QED
  BY <1>1, NodeInvariant, PTL DEF NodeInv

\* Nothing is left running in a stopped client, however its calls of stop()
\* overlapped, unless the start of a server failed.
THEOREM StoppedStaysQuiet == SpecRpc => []StoppedIsQuiet
<1>1. LifeInv => StoppedIsQuiet
  BY DEF LifeInv, TypeOK, Resting, Stopping, StoppedIsQuiet
<1> QED
  BY <1>1, NodeInvariant, PTL DEF NodeInv

\* A request to the RPC server meets a client that is open, with the head of its
\* chain and the ETH protocol: for every set of commands, however many users there
\* are, whatever failed before, and also while the client stops.
THEOREM RequestsMeetTheNode == SpecRpc => []RequestsMeetNode
<1>1. NodeInv => RequestsMeetNode
  BY DEF NodeInv, ProgramInv, CallsInv, Serving, RequestsMeetNode
<1> QED
  BY <1>1, NodeInvariant, PTL

-----------------------------------------------------------------------------
(* start() never waits for nothing.                                        *)

\* A start() that has not settled awaits a server that still starts.
StartPending == caller = "servers" => \E x \in servers : starting[x] # "nothing"

\* What run() awaits of start() is a start() that has not settled.
RunPending == main = "starting" => caller = "servers"

\* The last server that starts, or the first that fails, settles start().
LEMMA PendingStep == LifeInv /\ StartPending /\ [Next]_vars => StartPending'
<1> SUFFICES ASSUME LifeInv, StartPending, [Next]_vars PROVE StartPending'
  OBVIOUS
<1> USE DEF callsV, clientV, runV, poolV, serverV, checkV, historyV, StartPending
<1>1. servers \subseteq Transports /\ starting \in [Transports -> {"nothing", "protocols", "listening"}]
  BY DEF LifeInv, TypeOK
<1>2. \A x \in Transports : starting[x] # "nothing" => x \in servers
  BY DEF LifeInv, Starts
<1>3. CASE Open \/ ChainOpened \/ OpenFails
  BY <1>3 DEF Open, ChainOpened, OpenFails
<1>4. CASE Start
  BY <1>1, <1>4 DEF Start
<1>5. ASSUME NEW x \in Transports, ProtocolsOpened(x) PROVE StartPending'
  <2>1. x \in servers /\ servers' = servers /\ starting'[x] = "listening"
    BY <1>1, <1>2, <1>5 DEF ProtocolsOpened
  <2> QED
    BY <2>1
<1>6. ASSUME NEW x \in Transports, ServerStarted(x) PROVE StartPending'
  BY <1>6 DEF ServerStarted
<1>7. ASSUME NEW x \in Transports, ServerFails(x) PROVE StartPending'
  BY <1>7 DEF ServerFails
<1>8. ASSUME NEW s \in Stops, Stop(s) \/ SyncStopped(s) \/ StopEnds(s) \/ StopFails(s)
      PROVE  StartPending'
  BY <1>8 DEF Stop, SyncStopped, StopEnds, StopFails
<1>9. CASE StatusCheck \/ Bootstrapped \/ Peers \/ UNCHANGED vars
  BY <1>9 DEF StatusCheck, Bootstrapped, Peers, vars
<1> QED
  BY <1>3, <1>4, <1>5, <1>6, <1>7, <1>8, <1>9 DEF Next, Settle

\* No step of the node turns a start() into another call.
LEMMA StartSettles == caller = "servers" /\ [Next]_vars => caller' \in {"servers", "nothing"}
<1> SUFFICES ASSUME caller = "servers", [Next]_vars PROVE caller' \in {"servers", "nothing"}
  OBVIOUS
<1> USE DEF callsV, clientV, runV, poolV, serverV, checkV, historyV
<1> QED
  BY DEF Next, Settle, vars, Open, Start, Stop, ChainOpened, OpenFails, ProtocolsOpened,
     ServerStarted, ServerFails, SyncStopped, StopEnds, StopFails, StatusCheck,
     Bootstrapped, Peers

\* run() awaits start() from its call until it settles.
LEMMA RunStep == RunPending /\ [NextRpc]_rpcVars => RunPending'
<1> SUFFICES ASSUME RunPending, [NextRpc]_rpcVars, main' = "starting"
             PROVE  caller' = "servers"
  BY DEF RunPending
<1> USE DEF callsV, clientV, RunPending
<1>1. CASE Configure
  BY <1>1 DEF Configure
<1>2. CASE CallOpen
  BY <1>2 DEF CallOpen
<1>3. CASE CallStart
  BY <1>3 DEF CallStart, Start, Listens, RunService
<1>4. ASSUME Next, main' = Awaited PROVE caller' = "servers"
  <2>1. main = "starting" /\ caller' # "nothing"
    BY <1>4 DEF Awaited, Listens
  <2> QED
    BY <1>4, <2>1, StartSettles
<1>5. CASE \/ \E s \in Stops : Interrupt(s)
           \/ main = "library" /\ Runs(Next)
           \/ main # "library" /\ Runs(Settle \/ Peers)
  BY <1>4, <1>5 DEF Interrupt, Runs, Next
<1>6. CASE UNCHANGED <<vars, main>> \/ Killed \/ Ended
  BY <1>6 DEF Killed, Ended, cliVars, cliV, vars
<1> QED
  BY <1>1, <1>2, <1>3, <1>5, <1>6
     DEF NextRpc, NextCli, rpcVars, cliVars, cliV, Refuse, Call, Throw, Read, Forget

\* Whichever server fails or starts last, and whatever is stopped meanwhile:
\* run() that awaits start(), and start() that has not settled, have a server
\* that still starts, whose promise settles them.
THEOREM StartingIsPending == SpecRpc => [](StartPending /\ RunPending)
<1>1. InitRpc => StartPending /\ RunPending
  BY DEF InitRpc, InitCli, Init, StartPending, RunPending
<1>2. NodeInv /\ StartPending /\ RunPending /\ [NextRpc]_rpcVars => StartPending' /\ RunPending'
  <2>1. Configure /\ ProgramInv => StartPending'
    BY DEF Configure, ProgramInv, StartPending, callsV
  <2> QED
    BY <2>1, NodeStep, PendingStep, RunStep DEF NodeInv
<1> QED
  BY <1>1, <1>2, NodeInvariant, PTL DEF SpecRpc

-----------------------------------------------------------------------------
(* Config *)

\* Nodes of different networks or modes of synchronization never share the
\* directory of their chain, whatever the names of the networks are.
THEOREM DirectoryOfItsOwn ==
    ASSUME NEW mode1 \in {"full", "light"}, NEW mode2 \in {"full", "light"},
           NEW network1, NEW network2,
           SyncDataDirectory(mode1, network1) = SyncDataDirectory(mode2, network2)
    PROVE  mode1 = mode2 /\ network1 = network2
<1> DEFINE Directory(mode) ==
        IF mode = "light" THEN "lightchaindata" ELSE "chaindata"
<1>1. ASSUME NEW mode \in {"full", "light"}, NEW network
      PROVE  LET d == SyncDataDirectory(mode, network)
             IN  IF network = "mainnet" THEN Len(d) = 2 /\ d[2] = Directory(mode)
                 ELSE Len(d) = 3 /\ d[1] = network /\ d[3] = Directory(mode)
  <2> DEFINE Names == {"ethereumjs", network, Directory(mode)}
  <2> HIDE DEF Directory
  <2>1. <<"ethereumjs", Directory(mode)>> \in Seq(Names) /\ <<network>> \in Seq(Names)
    OBVIOUS
  <2>2. CASE network = "mainnet"
    <3>1. SyncDataDirectory(mode, network) = <<>> \o <<"ethereumjs", Directory(mode)>>
      BY <2>2 DEF SyncDataDirectory, Directory
    <3>2. <<>> \o <<"ethereumjs", Directory(mode)>> = <<"ethereumjs", Directory(mode)>>
      BY <2>1
    <3> QED BY <2>2, <3>1, <3>2
  <2>3. CASE network # "mainnet"
    <3>1. SyncDataDirectory(mode, network) = <<network>> \o <<"ethereumjs", Directory(mode)>>
      BY <2>3 DEF SyncDataDirectory, Directory
    <3> DEFINE d == <<network>> \o <<"ethereumjs", Directory(mode)>>
    <3>2. Len(d) = 3 /\ d[1] = network /\ d[3] = Directory(mode)
      BY <2>1
    <3> QED BY <2>3, <3>1, <3>2
  <2> QED BY <2>2, <2>3
<1>2. (network1 = "mainnet" <=> network2 = "mainnet") /\ Directory(mode1) = Directory(mode2)
  BY <1>1
<1>3. network1 = network2
  BY <1>1, <1>2
<1> QED BY <1>2, <1>3

-----------------------------------------------------------------------------
(* Pieces of texts *)

\* Every set of natural numbers that is not empty has a least one.
LEMMA LeastNumber ==
    ASSUME NEW T, T \subseteq Nat, T # {}
    PROVE  \E m \in T : \A k \in T : m <= k
<1>1. PICK m \in T : \A y \in T : ~ (<<y, m>> \in OpToRel(<, Nat))
  BY WFMin, NatLessThanWellFounded
<1>2. ASSUME NEW k \in T PROVE m <= k
  <2> SUFFICES ASSUME k < m PROVE FALSE
    OBVIOUS
  <2> DEFINE p == <<k, m>>
  <2>1. p \in Nat \X Nat /\ p[1] < p[2]
    OBVIOUS
  <2>2. p \in OpToRel(<, Nat)
    BY <2>1 DEF OpToRel
  <2> QED
    BY <1>1, <2>2
<1> QED
  BY <1>2

\* Tokens of texts.  The separators and the names are listed beside the other
\* strings.
Tokens == STRING \cup {":", ",", "=", "@", "rlpx", "libp2p", "port", "bootnodes", "multiaddrs", ""}

\* What one more token makes of the pieces so far.
OneMore(pieces, token, sep) ==
    IF token = sep THEN Append(pieces, <<>>)
    ELSE [pieces EXCEPT ![Len(pieces)] = Append(@, token)]

\* The equation that the function inside of Split(text, sep) solves, for the
\* first n tokens.
PiecesAt(text, sep, f, k) == IF k = 0 THEN <<<<>>>> ELSE OneMore(f[k - 1], text[k], sep)
Pieces(text, sep, n, f) == f = [k \in 0 .. n |-> PiecesAt(text, sep, f, k)]

\* That equation has a solution for every number of tokens: for the least number
\* without one, the solution for the number before would give another.
LEMMA PiecesExist == ASSUME NEW text, NEW sep, NEW n \in Nat PROVE \E f : Pieces(text, sep, n, f)
<1> DEFINE T == {m \in Nat : ~ \E f : Pieces(text, sep, m, f)}
<1>1. SUFFICES ASSUME T # {} PROVE FALSE
  OBVIOUS
<1>2. PICK m \in T : \A k \in T : m <= k
  BY <1>1, LeastNumber
<1>3. m \in Nat /\ ~ \E f : Pieces(text, sep, m, f)
  BY <1>2
<1>4. PICK f : \A k \in 0 .. (m - 1) : f[k] = PiecesAt(text, sep, f, k)
  <2>1. CASE m = 0
    BY <2>1
  <2>2. CASE m # 0
    <3>1. m - 1 \in Nat /\ ~ (m <= m - 1)
      BY <1>3, <2>2
    <3>2. PICK f : Pieces(text, sep, m - 1, f)
      BY <1>2, <3>1
    <3>3. \A k \in 0 .. (m - 1) : f[k] = PiecesAt(text, sep, f, k)
      BY <3>2 DEF Pieces
    <3> QED
      BY <3>3
  <2> QED
    BY <2>1, <2>2
<1> DEFINE g == [k \in 0 .. m |-> PiecesAt(text, sep, f, k)]
<1>5. ASSUME NEW k \in 0 .. m PROVE PiecesAt(text, sep, g, k) = PiecesAt(text, sep, f, k)
  <2>1. CASE k = 0
    BY <2>1 DEF PiecesAt
  <2>2. CASE k # 0
    <3>1. k - 1 \in 0 .. (m - 1) /\ k - 1 \in 0 .. m
      BY <1>3, <2>2
    <3>2. g[k - 1] = f[k - 1]
      BY <1>4, <3>1
    <3> HIDE DEF g
    <3> QED
      BY <3>2 DEF PiecesAt
  <2> QED
    BY <2>1, <2>2
<1>6. g = [k \in 0 .. m |-> PiecesAt(text, sep, g, k)]
  <2> HIDE DEF g
  <2>1. [k \in 0 .. m |-> PiecesAt(text, sep, g, k)] = [k \in 0 .. m |-> PiecesAt(text, sep, f, k)]
    BY <1>5
  <2> QED
    BY <2>1 DEF g
<1> QED
  BY <1>3, <1>6 DEF Pieces

\* Texts that begin alike have the same pieces there.
LEMMA PiecesAgree ==
    ASSUME NEW sep, NEW n \in Nat, NEW m \in Nat, NEW s, NEW t, NEW f, NEW g,
           Pieces(s, sep, n, f), Pieces(t, sep, m, g), n <= m, \A k \in 1 .. n : s[k] = t[k]
    PROVE  f[n] = g[n]
<1> DEFINE T == {j \in Nat : j <= n /\ f[j] # g[j]}
<1>1. SUFFICES ASSUME T # {} PROVE FALSE
  OBVIOUS
<1>2. PICK j \in T : \A k \in T : j <= k
  BY <1>1, LeastNumber
<1>3. j \in Nat /\ j <= n /\ f[j] # g[j]
  BY <1>2
<1>4. f[j] = PiecesAt(s, sep, f, j) /\ g[j] = PiecesAt(t, sep, g, j)
  <2>1. \A k \in 0 .. n : f[k] = PiecesAt(s, sep, f, k)
    BY DEF Pieces
  <2>2. \A k \in 0 .. m : g[k] = PiecesAt(t, sep, g, k)
    BY DEF Pieces
  <2> QED
    BY <1>3, <2>1, <2>2
<1>5. j # 0
  BY <1>3, <1>4 DEF PiecesAt
<1>6. f[j - 1] = g[j - 1] /\ s[j] = t[j]
  BY <1>2, <1>3, <1>5
<1> QED
  BY <1>3, <1>4, <1>5, <1>6 DEF PiecesAt

\* One token more.
LEMMA SplitAppend ==
    ASSUME NEW s \in Seq(Tokens), NEW token \in Tokens, NEW sep
    PROVE  Split(Append(s, token), sep) = OneMore(Split(s, sep), token, sep)
<1> DEFINE fun(t) == CHOOSE f : Pieces(t, sep, Len(t), f)
           t == Append(s, token)
<1>1. ASSUME NEW u \in Seq(Tokens)
      PROVE  Split(u, sep) = fun(u)[Len(u)] /\ Pieces(u, sep, Len(u), fun(u))
  <2>1. Pieces(u, sep, Len(u), fun(u))
    <3>1. Len(u) \in Nat
      OBVIOUS
    <3> QED
      BY <3>1, PiecesExist
  <2>2. Split(u, sep) = fun(u)[Len(u)]
    BY DEF Split, Pieces, PiecesAt, OneMore
  <2> QED
    BY <2>1, <2>2
<1>2. /\ t \in Seq(Tokens) /\ Len(t) = Len(s) + 1 /\ t[Len(t)] = token
      /\ \A d \in 1 .. Len(s) : s[d] = t[d]
  OBVIOUS
<1> HIDE DEF fun, t
<1>3. Len(s) \in Nat
  OBVIOUS
<1>4. fun(t)[Len(s)] = fun(s)[Len(s)]
  <2>1. Pieces(s, sep, Len(s), fun(s)) /\ Pieces(t, sep, Len(t), fun(t))
    BY <1>1, <1>2
  <2>2. Len(t) \in Nat /\ Len(s) <= Len(t)
    BY <1>2, <1>3
  <2> DEFINE v == fun(s)
             w == fun(t)
             n == Len(s)
             m == Len(t)
  <2> HIDE DEF v, w, n, m
  <2>3. n \in Nat /\ m \in Nat /\ n <= m
    BY <1>3, <2>2 DEF n, m
  <2>4. Pieces(s, sep, n, v) /\ Pieces(t, sep, m, w)
    BY <2>1 DEF v, w, n, m
  <2>5. \A d \in 1 .. n : s[d] = t[d]
    BY <1>2 DEF n
  <2>6. v[n] = w[n]
    BY <2>3, <2>4, <2>5, PiecesAgree
  <2> QED
    BY <2>6 DEF v, w, n
<1>5. \A d \in 0 .. Len(t) : fun(t)[d] = PiecesAt(t, sep, fun(t), d)
  BY <1>1, <1>2 DEF Pieces
<1>6. fun(t)[Len(t)] = OneMore(fun(t)[Len(s)], token, sep)
  BY <1>2, <1>3, <1>5 DEF PiecesAt
<1>7. Split(t, sep) = OneMore(Split(s, sep), token, sep)
  BY <1>1, <1>2, <1>4, <1>6
<1> QED
  BY <1>7 DEF t

\* A text without tokens is one piece without tokens.
LEMMA SplitEmpty == ASSUME NEW sep PROVE Split(<<>>, sep) = <<<<>>>>
<1>1. \E f : Pieces(<<>>, sep, 0, f)
  BY PiecesExist
<1>2. Len(<<>>) = 0
  OBVIOUS
<1> DEFINE w == CHOOSE f : Pieces(<<>>, sep, 0, f)
<1>3. Split(<<>>, sep) = w[0]
  BY <1>2 DEF Split, Pieces, PiecesAt, OneMore
<1>4. Pieces(<<>>, sep, 0, w)
  BY <1>1
<1> HIDE DEF w
<1>5. \A k \in 0 .. 0 : w[k] = PiecesAt(<<>>, sep, w, k)
  BY <1>4 DEF Pieces
<1>6. w[0] = <<<<>>>>
  BY <1>5 DEF PiecesAt
<1> QED
  BY <1>3, <1>6

\* A sequence that is not empty ends with an element of it.
LEMMA LastElement ==
    ASSUME NEW s \in Seq(Tokens), s # <<>>
    PROVE  \E r \in Seq(Tokens), x \in Tokens : s = Append(r, x) /\ Len(r) = Len(s) - 1
<1> DEFINE n == Len(s)
           r == [k \in 1 .. (n - 1) |-> s[k]]
           x == s[n]
<1>1. n \in Nat /\ n > 0
  OBVIOUS
<1>2. r \in Seq(Tokens) /\ Len(r) = n - 1 /\ x \in Tokens
  BY <1>1
<1>3. s = Append(r, x)
  <2>1. Append(r, x) \in Seq(Tokens) /\ Len(Append(r, x)) = n
    BY <1>1, <1>2
  <2>2. ASSUME NEW k \in 1 .. n PROVE s[k] = Append(r, x)[k]
    BY <1>1, <1>2
  <2> HIDE DEF r, x
  <2> QED
    BY <1>1, <2>1, <2>2
<1> QED
  BY <1>2, <1>3

\* To continue a sequence is to append to it.
LEMMA ConcatAppend ==
    ASSUME NEW s \in Seq(Tokens), NEW r \in Seq(Tokens), NEW x \in Tokens
    PROVE  s \o Append(r, x) = Append(s \o r, x) /\ s \o r \in Seq(Tokens)
OBVIOUS

\* Nothing put before a sequence leaves it as it is.
LEMMA ConcatEmpty ==
    ASSUME NEW s \in Seq(Tokens)
    PROVE  s \o <<>> = s /\ <<>> \o s = s
OBVIOUS

\* To replace the last piece leaves the others as they are.
LEMMA ReplaceLast ==
    ASSUME NEW c \in Seq(Seq(Tokens)), Len(c) > 0, NEW y \in Seq(Tokens)
    PROVE  LET d == [c EXCEPT ![Len(c)] = y] IN
           /\ d \in Seq(Seq(Tokens)) /\ Len(d) = Len(c) /\ d[Len(c)] = y
           /\ \A k \in 1 .. Len(c) : k # Len(c) => d[k] = c[k]
<1> DEFINE n == Len(c)
<1>1. n \in Nat /\ n > 0 /\ DOMAIN c = 1 .. n
  OBVIOUS
<1>2. [c EXCEPT ![n] = y] \in Seq(Seq(Tokens)) /\ Len([c EXCEPT ![n] = y]) = n
  BY <1>1
<1>3. n \in DOMAIN c /\ \A k \in 1 .. n : k \in DOMAIN c
  BY <1>1
<1> HIDE DEF n
<1>4. [c EXCEPT ![n] = y][n] = y /\ \A k \in 1 .. n : k # n => [c EXCEPT ![n] = y][k] = c[k]
  BY <1>3
<1> QED
  BY <1>2, <1>4 DEF n

\* The pieces remain sequences of tokens, and there is always one.
LEMMA OneMoreType ==
    ASSUME NEW p \in Seq(Seq(Tokens)) \ {<<>>}, NEW token \in Tokens, NEW sep
    PROVE  OneMore(p, token, sep) \in Seq(Seq(Tokens)) \ {<<>>}
<1>1. CASE token = sep
  <2>1. <<>> \in Seq(Tokens)
    OBVIOUS
  <2> QED
    BY <1>1, <2>1 DEF OneMore
<1>2. CASE token # sep
  <2> DEFINE n == Len(p)
             x == Append(p[n], token)
  <2>1. n \in Nat /\ n > 0 /\ p[n] \in Seq(Tokens)
    OBVIOUS
  <2>2. x \in Seq(Tokens)
    BY <2>1
  <2> HIDE DEF x
  <2>3. [p EXCEPT ![n] = x] \in Seq(Seq(Tokens)) /\ Len([p EXCEPT ![n] = x]) = n
    BY <2>1, <2>2
  <2>4. OneMore(p, token, sep) = [p EXCEPT ![n] = x]
    BY <1>2 DEF OneMore, x
  <2> QED
    BY <2>1, <2>3, <2>4
<1> QED
  BY <1>1, <1>2

\* There is at least one piece.
LEMMA SplitType ==
    ASSUME NEW s \in Seq(Tokens), NEW sep
    PROVE  Split(s, sep) \in Seq(Seq(Tokens)) \ {<<>>}
<1> DEFINE Good(t) == Split(t, sep) \in Seq(Seq(Tokens)) \ {<<>>}
           T == {n \in Nat : \E t \in Seq(Tokens) : Len(t) = n /\ ~Good(t)}
<1>1. SUFFICES ASSUME T # {} PROVE FALSE
  OBVIOUS
<1>2. PICK m \in T : \A k \in T : m <= k
  BY <1>1, LeastNumber
<1>3. PICK t \in Seq(Tokens) : Len(t) = m /\ ~Good(t)
  BY <1>2
<1>4. t # <<>>
  <2>1. <<>> \in Seq(Tokens) /\ <<<<>>>> \in Seq(Seq(Tokens)) \ {<<>>}
    OBVIOUS
  <2> QED
    BY <1>3, <2>1, SplitEmpty
<1>5. PICK r \in Seq(Tokens), x \in Tokens : t = Append(r, x) /\ Len(r) = m - 1
  BY <1>3, <1>4, LastElement
<1>6. Good(r)
  BY <1>2, <1>5
<1>7. Good(t)
  BY <1>5, <1>6, SplitAppend, OneMoreType
<1> QED
  BY <1>3, <1>7

\* A text without separators belongs to the last piece.
LEMMA SplitJoined ==
    ASSUME NEW s \in Seq(Tokens), NEW p \in Seq(Tokens), NEW sep,
           \A k \in 1 .. Len(p) : p[k] # sep
    PROVE  LET b == Split(s, sep) IN
           Split(s \o p, sep) = [b EXCEPT ![Len(b)] = b[Len(b)] \o p]
<1> DEFINE b == Split(s, sep)
           n == Len(b)
           Free(t) == \A k \in 1 .. Len(t) : t[k] # sep
           Good(t) == Split(s \o t, sep) = [b EXCEPT ![n] = b[n] \o t]
           T == {m \in Nat : \E t \in Seq(Tokens) : Len(t) = m /\ Free(t) /\ ~Good(t)}
<1>1. b \in Seq(Seq(Tokens)) /\ n \in Nat /\ n > 0 /\ b[n] \in Seq(Tokens)
  <2>1. b \in Seq(Seq(Tokens)) \ {<<>>}
    BY SplitType
  <2> HIDE DEF b
  <2> QED
    BY <2>1
<1> HIDE DEF b, n
<1>2. SUFFICES ASSUME T # {} PROVE FALSE
  BY DEF b, n
<1>3. PICK m \in T : \A k \in T : m <= k
  BY <1>2, LeastNumber
<1>4. PICK t \in Seq(Tokens) : Len(t) = m /\ Free(t) /\ ~Good(t)
  BY <1>3
<1>5. t # <<>>
  <2>1. s \o <<>> = s /\ b[n] \o <<>> = b[n]
    BY <1>1, ConcatEmpty
  <2>2. [b EXCEPT ![n] = b[n]] = b
    BY <1>1
  <2>3. Good(<<>>)
    BY <2>1, <2>2 DEF b
  <2> QED
    BY <1>4, <2>3
<1>6. PICK r \in Seq(Tokens), x \in Tokens : t = Append(r, x) /\ Len(r) = m - 1
  BY <1>4, <1>5, LastElement
<1>7. Free(r) /\ x # sep
  BY <1>4, <1>6
<1>8. Good(r)
  BY <1>3, <1>4, <1>6, <1>7
<1>9. s \o t = Append(s \o r, x) /\ s \o r \in Seq(Tokens) /\ b[n] \o t = Append(b[n] \o r, x)
  <2>1. s \o Append(r, x) = Append(s \o r, x) /\ s \o r \in Seq(Tokens)
    BY ConcatAppend
  <2> DEFINE last == b[n]
  <2>2. last \in Seq(Tokens)
    BY <1>1
  <2> HIDE DEF last
  <2>3. last \o Append(r, x) = Append(last \o r, x)
    BY <2>2, ConcatAppend
  <2> QED
    BY <1>6, <2>1, <2>3 DEF last
<1>10. Split(s \o t, sep) = OneMore(Split(s \o r, sep), x, sep)
  BY <1>9, SplitAppend
<1> DEFINE c == [b EXCEPT ![n] = b[n] \o r]
<1>11. Len(c) = n /\ c[n] = b[n] \o r
  <2> DEFINE y == b[n] \o r
  <2>1. n = Len(b) /\ n \in DOMAIN b /\ y \in Seq(Tokens)
    BY <1>1 DEF n
  <2> HIDE DEF y
  <2>2. Len([b EXCEPT ![n] = y]) = n /\ [b EXCEPT ![n] = y][n] = y
    BY <1>1, <2>1
  <2> QED
    BY <2>2 DEF y
<1>12. OneMore(c, x, sep) = [c EXCEPT ![n] = Append(c[n], x)]
  <2> HIDE DEF c
  <2> QED
    BY <1>7, <1>11 DEF OneMore
<1>13. [c EXCEPT ![n] = b[n] \o t] = [b EXCEPT ![n] = b[n] \o t]
  BY <1>1
<1>14. Split(s \o t, sep) = [b EXCEPT ![n] = b[n] \o t]
  <2> HIDE DEF c
  <2>1. Split(s \o r, sep) = c
    BY <1>8 DEF c
  <2> QED
    BY <1>9, <1>10, <1>11, <1>12, <1>13, <2>1
<1> QED
  BY <1>4, <1>14

\* A text without separators is one piece.
LEMMA SplitNothing ==
    ASSUME NEW p \in Seq(Tokens), NEW sep, \A k \in 1 .. Len(p) : p[k] # sep
    PROVE  Split(p, sep) = <<p>>
<1> DEFINE b == Split(<<>>, sep)
<1>1. <<>> \in Seq(Tokens) /\ <<>> \o p = p
  BY ConcatEmpty
<1>2. b = <<<<>>>>
  BY SplitEmpty
<1>3. Split(<<>> \o p, sep) = [b EXCEPT ![Len(b)] = b[Len(b)] \o p]
  BY <1>1, SplitJoined
<1>4. Len(b) = 1 /\ b[1] = <<>>
  BY <1>2
<1>5. Split(p, sep) = [b EXCEPT ![1] = p]
  BY <1>1, <1>3, <1>4
<1> HIDE DEF b
<1>6. [b EXCEPT ![1] = p] = <<p>>
  BY <1>2
<1> QED
  BY <1>5, <1>6

\* After a separator, a text without separators is a piece of its own.
LEMMA SplitOneMore ==
    ASSUME NEW s \in Seq(Tokens), NEW p \in Seq(Tokens), NEW sep \in Tokens,
           \A k \in 1 .. Len(p) : p[k] # sep
    PROVE  Split(Append(s, sep) \o p, sep) = Append(Split(s, sep), p)
<1> DEFINE a == Split(s, sep)
           b == Split(Append(s, sep), sep)
<1>1. a \in Seq(Seq(Tokens)) /\ Append(s, sep) \in Seq(Tokens) /\ <<>> \in Seq(Tokens)
  BY SplitType
<1>2. b = Append(a, <<>>)
  BY SplitAppend DEF OneMore
<1>3. Split(Append(s, sep) \o p, sep) = [b EXCEPT ![Len(b)] = b[Len(b)] \o p]
  BY <1>1, SplitJoined
<1> HIDE DEF a, b
<1>4. Len(b) = Len(a) + 1 /\ b[Len(b)] = <<>> /\ Len(a) \in Nat
  BY <1>1, <1>2
<1>5. <<>> \o p = p
  BY ConcatEmpty
<1>6. [b EXCEPT ![Len(a) + 1] = p] = Append(a, p)
  <2> DEFINE n == Len(a)
             l == [b EXCEPT ![n + 1] = p]
             u == Append(a, p)
  <2>1. n \in Nat /\ b \in Seq(Seq(Tokens)) /\ Len(b) = n + 1
    BY <1>1, <1>2
  <2>2. l \in Seq(Seq(Tokens)) /\ Len(l) = n + 1
    BY <2>1
  <2>3. u \in Seq(Seq(Tokens)) /\ Len(u) = n + 1
    BY <1>1
  <2>4. ASSUME NEW k \in 1 .. (n + 1) PROVE l[k] = u[k]
    <3>1. CASE k = n + 1
      BY <1>1, <2>1, <3>1
    <3>2. CASE k # n + 1
      <4>1. k \in 1 .. n
        BY <2>1, <3>2
      <4>2. l[k] = b[k]
        BY <2>1, <3>2
      <4>3. b[k] = a[k] /\ u[k] = a[k]
        BY <1>1, <1>2, <4>1
      <4> QED
        BY <4>2, <4>3
    <3> QED
      BY <3>1, <3>2
  <2> HIDE DEF l, u
  <2>5. l = u
    BY <2>1, <2>2, <2>3, <2>4
  <2> QED
    BY <2>5 DEF l, u
<1> QED
  BY <1>3, <1>4, <1>5, <1>6 DEF a

\* What comes after the first separator does not change the first piece.
LEMMA SplitFirst ==
    ASSUME NEW s \in Seq(Tokens), NEW p \in Seq(Tokens), NEW sep, Len(Split(s, sep)) > 1
    PROVE  Split(s \o p, sep)[1] = Split(s, sep)[1]
<1> DEFINE b == Split(s, sep)
           Good(t) == LET c == Split(s \o t, sep) IN c[1] = b[1] /\ Len(c) > 1
           T == {m \in Nat : \E t \in Seq(Tokens) : Len(t) = m /\ ~Good(t)}
<1> SUFFICES ASSUME T # {} PROVE FALSE
  OBVIOUS
<1>3. PICK m \in T : \A k \in T : m <= k
  BY LeastNumber
<1>4. PICK t \in Seq(Tokens) : Len(t) = m /\ ~Good(t)
  BY <1>3
<1>5. t # <<>>
  <2>1. s \o <<>> = s
    BY ConcatEmpty
  <2> QED
    BY <1>4, <2>1
<1>6. PICK r \in Seq(Tokens), x \in Tokens : t = Append(r, x) /\ Len(r) = m - 1
  BY <1>4, <1>5, LastElement
<1>7. Good(r)
  BY <1>3, <1>4, <1>6
<1> DEFINE c == Split(s \o r, sep)
<1>8. Split(s \o t, sep) = OneMore(c, x, sep) /\ s \o r \in Seq(Tokens)
  <2>1. s \o Append(r, x) = Append(s \o r, x) /\ s \o r \in Seq(Tokens)
    BY ConcatAppend
  <2>2. Split(Append(s \o r, x), sep) = OneMore(c, x, sep)
    BY <2>1, SplitAppend
  <2> QED
    BY <1>6, <2>1, <2>2
<1>9. c \in Seq(Seq(Tokens)) /\ c[1] = b[1] /\ Len(c) > 1
  BY <1>7, <1>8, SplitType
<1> HIDE DEF b, c
<1>10. OneMore(c, x, sep)[1] = c[1] /\ Len(OneMore(c, x, sep)) > 1
  <2>1. CASE x = sep
    <3>1. OneMore(c, x, sep) = Append(c, <<>>)
      BY <2>1 DEF OneMore
    <3>2. Append(c, <<>>)[1] = c[1] /\ Len(Append(c, <<>>)) = Len(c) + 1
      BY <1>9
    <3> QED
      BY <1>9, <3>1, <3>2
  <2>2. CASE x # sep
    <3> DEFINE y == Append(c[Len(c)], x)
    <3>1. OneMore(c, x, sep) = [c EXCEPT ![Len(c)] = y]
      BY <2>2 DEF OneMore
    <3>2. y \in Seq(Tokens)
      BY <1>9
    <3> HIDE DEF y
    <3>3. [c EXCEPT ![Len(c)] = y][1] = c[1] /\ Len([c EXCEPT ![Len(c)] = y]) = Len(c)
      <4>1. \A k \in 1 .. Len(c) : k # Len(c) => [c EXCEPT ![Len(c)] = y][k] = c[k]
        BY <1>9, <3>2, ReplaceLast
      <4>2. Len([c EXCEPT ![Len(c)] = y]) = Len(c)
        BY <1>9, <3>2, ReplaceLast
      <4> DEFINE n == Len(c)
      <4>3. n \in Nat /\ n > 1
        BY <1>9
      <4> HIDE DEF n
      <4>4. 1 \in 1 .. n /\ 1 # n
        BY <4>3
      <4> QED
        BY <4>1, <4>2, <4>4 DEF n
    <3> QED
      BY <1>9, <3>1, <3>3
  <2> QED
    BY <2>1, <2>2
<1> QED
  BY <1>4, <1>8, <1>9, <1>10 DEF b

-----------------------------------------------------------------------------
(* Transports *)

OptionText(t, k) == (IF k = 1 THEN <<":">> ELSE <<",">>)
                        \o Label(t.options[k][1]) \o t.options[k][2]
TextAt(t, f, k) == IF k = 0 THEN <<t.name>> ELSE f[k - 1] \o OptionText(t, k)
Texts(t, n, f) == f = [k \in 0 .. n |-> TextAt(t, f, k)]

\* The equation that the text of a transport solves has a solution.
LEMMA TextsExist == ASSUME NEW t, NEW n \in Nat PROVE \E f : Texts(t, n, f)
<1> DEFINE T == {m \in Nat : ~ \E f : Texts(t, m, f)}
<1>1. SUFFICES ASSUME T # {} PROVE FALSE
  OBVIOUS
<1>2. PICK m \in T : \A k \in T : m <= k
  BY <1>1, LeastNumber
<1>3. m \in Nat /\ ~ \E f : Texts(t, m, f)
  BY <1>2
<1>4. PICK f : \A k \in 0 .. (m - 1) : f[k] = TextAt(t, f, k)
  <2>1. CASE m = 0
    BY <2>1
  <2>2. CASE m # 0
    <3>1. m - 1 \in Nat /\ ~ (m <= m - 1)
      BY <1>3, <2>2
    <3>2. PICK f : Texts(t, m - 1, f)
      BY <1>2, <3>1
    <3>3. \A k \in 0 .. (m - 1) : f[k] = TextAt(t, f, k)
      BY <3>2 DEF Texts
    <3> QED
      BY <3>3
  <2> QED
    BY <2>1, <2>2
<1> DEFINE g == [k \in 0 .. m |-> TextAt(t, f, k)]
<1>5. ASSUME NEW k \in 0 .. m PROVE TextAt(t, g, k) = TextAt(t, f, k)
  <2>1. CASE k = 0
    BY <2>1 DEF TextAt
  <2>2. CASE k # 0
    <3>1. k - 1 \in 0 .. (m - 1) /\ k - 1 \in 0 .. m
      BY <1>3, <2>2
    <3>2. g[k - 1] = f[k - 1]
      BY <1>4, <3>1
    <3> HIDE DEF g
    <3> QED
      BY <3>2 DEF TextAt
  <2> QED
    BY <2>1, <2>2
<1>6. g = [k \in 0 .. m |-> TextAt(t, g, k)]
  <2> HIDE DEF g
  <2>1. [k \in 0 .. m |-> TextAt(t, g, k)] = [k \in 0 .. m |-> TextAt(t, f, k)]
    BY <1>5
  <2> QED
    BY <2>1 DEF g
<1> QED
  BY <1>3, <1>6 DEF Texts

\* The first k options, as they are between the commas.
Part(t, k) == Label(t.options[k][1]) \o t.options[k][2]

\* Two tokens in front of others.
LEMMA ConcatPair ==
    ASSUME NEW x \in Tokens, NEW y \in Tokens, NEW v \in Seq(Tokens)
    PROVE  (<<x, y>> \o v)[1] = x /\ (<<x, y>> \o v)[2] = y
OBVIOUS

\* Nothing in front of tokens.
LEMMA EmptyConcat == ASSUME NEW v \in Seq(Tokens) PROVE <<>> \o v = v
OBVIOUS

\* The options of a transport are pairs of a key and a text.
LEMMA OptionType ==
    ASSUME NEW t, WellWritten(t)
    PROVE  /\ Len(t.options) \in Nat /\ DOMAIN t.options = 1 .. Len(t.options)
           /\ \A k \in 1 .. Len(t.options) :
                 t.options[k][1] \in Keys /\ t.options[k][2] \in Seq(STRING)
<1> DEFINE Options == Keys \X Seq(STRING)
           list == t.options
<1>1. list \in Seq(Options)
  BY DEF WellWritten
<1>2. \A o \in Options : o[1] \in Keys /\ o[2] \in Seq(STRING)
  OBVIOUS
<1> HIDE DEF Options, list
<1>3. Len(list) \in Nat /\ DOMAIN list = 1 .. Len(list) /\ list \in [1 .. Len(list) -> Options]
  BY <1>1
<1>4. \A k \in 1 .. Len(list) : list[k] \in Options
  BY <1>3
<1> QED
  BY <1>2, <1>3, <1>4 DEF list

\* The parts of a transport are texts of tokens, whose values do not have the
\* separators of options.
LEMMA PartType ==
    ASSUME NEW t, WellWritten(t), NEW k \in 1 .. Len(t.options)
    PROVE  /\ t.options[k][1] \in Keys
           /\ t.options[k][1] \in Tokens \ {":", ",", "=", "@"}
           /\ t.options[k][2] \in Seq(Tokens) /\ Part(t, k) \in Seq(Tokens)
           /\ Label(t.options[k][1]) \in Seq(Tokens)
           /\ \A n \in 1 .. Len(t.options[k][2]) : t.options[k][2][n] \notin {",", "="}
           /\ \A n \in 1 .. Len(Part(t, k)) : Part(t, k)[n] # ","
<1> DEFINE list == t.options
           key == list[k][1]
           value == list[k][2]
           label == Label(key)
<1>1. k \in DOMAIN list /\ key \in Keys /\ value \in Seq(STRING)
  BY OptionType
<1>2. \A n \in DOMAIN list : \A m \in DOMAIN list[n][2] : list[n][2][m] \notin {",", "="}
  BY DEF WellWritten
<1> HIDE DEF list
<1>4. \A n \in DOMAIN value : value[n] \notin {",", "="}
  BY <1>1, <1>2
<1> HIDE DEF key, value, label
<1>5. key \in Tokens /\ key \notin {":", ",", "=", "@"} /\ "=" \in Tokens
  BY <1>1 DEF Tokens, Keys
<1>6. value \in Seq(Tokens) /\ DOMAIN value = 1 .. Len(value)
  <2> DEFINE Strings == STRING
  <2>1. \A x \in Strings : x \in Tokens
    BY DEF Tokens
  <2>2. value \in Seq(Strings)
    BY <1>1
  <2> HIDE DEF Strings
  <2> QED
    BY <2>1, <2>2
<1> DEFINE p == label \o value
<1>7. ASSUME key = ""
      PROVE  label \in Seq(Tokens) /\ p \in Seq(Tokens) /\ \A n \in 1 .. Len(p) : p[n] # ","
  <2>1. label = <<>>
    BY <1>7 DEF label, Label
  <2>2. p = value
    BY <1>6, <2>1, EmptyConcat
  <2>3. label \in Seq(Tokens)
    BY <2>1
  <2> HIDE DEF p
  <2>4. p \in Seq(Tokens) /\ \A n \in 1 .. Len(p) : p[n] # ","
    BY <1>4, <1>6, <2>2
  <2> QED
    BY <2>3, <2>4
<1>8. ASSUME key # ""
      PROVE  label \in Seq(Tokens) /\ p \in Seq(Tokens) /\ \A n \in 1 .. Len(p) : p[n] # ","
  <2> DEFINE eq == "="
  <2>1. eq \in Tokens /\ key \in Tokens
    BY <1>5
  <2>2. label = <<key, eq>>
    BY <1>8 DEF label, Label
  <2> HIDE DEF eq
  <2>3. label \in Seq(Tokens) /\ p \in Seq(Tokens) /\ Len(p) = Len(value) + 2
    BY <1>6, <2>1, <2>2
  <2>4. ASSUME NEW n \in 1 .. Len(p) PROVE p[n] # ","
    <3>1. CASE n \in {1, 2}
      <4>1. (<<key, eq>> \o value)[1] = key /\ (<<key, eq>> \o value)[2] = eq
        BY <1>6, <2>1, ConcatPair
      <4>2. key # "," /\ eq # ","
        BY <1>5 DEF eq
      <4> QED
        BY <2>2, <3>1, <4>1, <4>2
    <3>2. CASE n \notin {1, 2}
      <4>1. n - 2 \in 1 .. Len(value) /\ Len(value) \in Nat
        BY <1>6, <2>3, <3>2
      <4>2. p[n] = value[n - 2]
        BY <1>6, <2>1, <2>2, <3>2, <4>1
      <4> QED
        BY <1>4, <1>6, <4>1, <4>2
    <3> QED
      BY <3>1, <3>2
  <2> QED
    BY <2>3, <2>4
<1>9. p = Part(t, k)
  BY DEF Part, key, value, label, list
<1> HIDE DEF p
<1> QED
  BY <1>1, <1>4, <1>5, <1>6, <1>7, <1>8, <1>9 DEF key, value, label, list

\* Sequences may be put together in any order.
LEMMA ConcatOrder ==
    ASSUME NEW a \in Seq(Tokens), NEW b \in Seq(Tokens), NEW c \in Seq(Tokens)
    PROVE  (a \o b) \o c = a \o (b \o c) /\ a \o b \in Seq(Tokens)
OBVIOUS

\* A token put behind others.
LEMMA AppendToken ==
    ASSUME NEW a \in Seq(Tokens), NEW x \in Tokens
    PROVE  a \o <<x>> = Append(a, x) /\ <<x>> \in Seq(Tokens) /\ Append(a, x) \in Seq(Tokens)
OBVIOUS

\* After the name and a colon come the parts, with commas between them.
LEMMA WrittenParts ==
    ASSUME NEW t, WellWritten(t)
    PROVE  LET n == Len(t.options) IN
           IF n = 0 THEN Written(t) = <<t.name>>
           ELSE \E body \in Seq(Tokens) :
                   /\ Written(t) = Append(<<t.name>>, ":") \o body
                   /\ Split(body, ",") = [j \in 1 .. n |-> Part(t, j)]
<1> DEFINE n == Len(t.options)
           fun == CHOOSE f : Texts(t, n, f)
           colon == ":"
           comma == ","
           name == t.name
<1>1. n \in Nat
  BY OptionType
<1>2. Written(t) = fun[n]
  BY DEF Written, Texts, TextAt, OptionText
<1>3. Texts(t, n, fun)
  BY <1>1, TextsExist
<1>4. /\ colon \in Tokens /\ comma \in Tokens /\ name \in Tokens
  BY DEF Tokens, WellWritten
<1> HIDE DEF fun, n, colon, comma, name
<1>5. \A k \in 0 .. n : fun[k] = TextAt(t, fun, k)
  BY <1>3 DEF Texts
<1>6. fun[0] = <<name>>
  BY <1>1, <1>5 DEF TextAt, name
<1>7. CASE n = 0
  BY <1>2, <1>6, <1>7 DEF n, name
<1> DEFINE Good(k) == \E body \in Seq(Tokens) :
                        /\ fun[k] = Append(<<name>>, colon) \o body
                        /\ Split(body, comma) = [j \in 1 .. k |-> Part(t, j)]
           T == {k \in Nat : k \in 1 .. n /\ ~Good(k)}
<1>8. ASSUME NEW k \in 1 .. n, NEW sep \in Tokens, NEW a \in Seq(Tokens),
             fun[k - 1] = a, sep = IF k = 1 THEN colon ELSE comma
      PROVE  fun[k] = Append(a, sep) \o Part(t, k)
  <2>1. fun[k] = a \o OptionText(t, k)
    <3>1. k \in 0 .. n /\ k # 0
      BY <1>1
    <3> QED
      BY <1>5, <1>8, <3>1 DEF TextAt
  <2> DEFINE label == Label(t.options[k][1])
             value == t.options[k][2]
  <2>2. OptionText(t, k) = (<<sep>> \o label) \o value
    BY <1>8 DEF OptionText, colon, comma
  <2>3. Part(t, k) = label \o value
    BY DEF Part
  <2>4. label \in Seq(Tokens) /\ value \in Seq(Tokens)
    <3>1. k \in 1 .. Len(t.options)
      BY DEF n
    <3> QED
      BY <3>1, PartType
  <2> HIDE DEF label, value
  <2>5. <<sep>> \in Seq(Tokens)
    OBVIOUS
  <2>6. OptionText(t, k) = <<sep>> \o Part(t, k)
    BY <2>2, <2>3, <2>4, <2>5, ConcatOrder
  <2>7. Part(t, k) \in Seq(Tokens)
    BY <2>3, <2>4, <2>5
  <2>8. fun[k] = (a \o <<sep>>) \o Part(t, k)
    BY <2>1, <2>5, <2>6, <2>7, ConcatOrder
  <2> QED
    BY <2>8, AppendToken
<1>9. ASSUME T # {} PROVE FALSE
  <2>1. PICK m \in T : \A k \in T : m <= k
    BY <1>9, LeastNumber
  <2>2. m \in Nat /\ m \in 1 .. n /\ ~Good(m)
    BY <2>1
  <2>3. Part(t, m) \in Seq(Tokens) /\ \A j \in 1 .. Len(Part(t, m)) : Part(t, m)[j] # comma
    BY <2>2, PartType DEF n, comma
  <2>4. CASE m = 1
    <3>1. fun[m - 1] = <<name>> /\ <<name>> \in Seq(Tokens)
      BY <1>4, <1>6, <2>4
    <3>2. fun[m] = Append(<<name>>, colon) \o Part(t, m)
      BY <1>4, <1>8, <2>2, <2>4, <3>1
    <3>3. Split(Part(t, m), comma) = <<Part(t, m)>>
      BY <2>3, SplitNothing
    <3>4. <<Part(t, m)>> = [j \in 1 .. m |-> Part(t, j)]
      BY <2>4
    <3> QED
      BY <2>2, <2>3, <3>2, <3>3, <3>4
  <2>5. CASE m # 1
    <3>1. m - 1 \in 1 .. n /\ m - 1 \in Nat /\ ~(m <= m - 1)
      BY <1>1, <2>2, <2>5
    <3>2. Good(m - 1)
      BY <2>1, <3>1
    <3>3. PICK body \in Seq(Tokens) :
              /\ fun[m - 1] = Append(<<name>>, colon) \o body
              /\ Split(body, comma) = [j \in 1 .. (m - 1) |-> Part(t, j)]
      BY <3>2
    <3> DEFINE head == Append(<<name>>, colon)
               next == Append(body, comma) \o Part(t, m)
    <3>4. head \in Seq(Tokens)
      BY <1>4
    <3> HIDE DEF head
    <3>5. fun[m - 1] = head \o body /\ head \o body \in Seq(Tokens)
      BY <3>3, <3>4 DEF head
    <3>6. fun[m] = Append(head \o body, comma) \o Part(t, m)
      BY <1>4, <1>8, <2>2, <2>5, <3>5
    <3>7. Append(head \o body, comma) = head \o Append(body, comma)
      BY <1>4, <3>4, ConcatAppend
    <3>8. fun[m] = head \o next /\ next \in Seq(Tokens)
      <4>1. Append(body, comma) \in Seq(Tokens)
        BY <1>4
      <4> DEFINE mid == Append(body, comma)
                 q == Part(t, m)
      <4>2. mid \in Seq(Tokens) /\ q \in Seq(Tokens) /\ fun[m] = (head \o mid) \o q
        BY <2>3, <3>6, <3>7, <4>1
      <4> HIDE DEF mid, q
      <4>3. (head \o mid) \o q = head \o (mid \o q) /\ mid \o q \in Seq(Tokens)
        BY <3>4, <4>2, ConcatOrder
      <4> QED
        BY <4>2, <4>3 DEF mid, q
    <3>9. Split(next, comma) = Append(Split(body, comma), Part(t, m))
      BY <1>4, <2>3, SplitOneMore
    <3>10. Append(Split(body, comma), Part(t, m)) = [j \in 1 .. m |-> Part(t, j)]
      <4> DEFINE l == [j \in 1 .. (m - 1) |-> Part(t, j)]
                 u == [j \in 1 .. m |-> Part(t, j)]
                 q == Part(t, m)
      <4>1. \A j \in 1 .. m : Part(t, j) \in Seq(Tokens)
        <5>1. \A j \in 1 .. n : Part(t, j) \in Seq(Tokens)
          BY PartType DEF n
        <5> QED
          BY <1>1, <2>2, <5>1
      <4>2. l \in Seq(Seq(Tokens)) /\ Len(l) = m - 1
        BY <3>1, <4>1
      <4>3. u \in Seq(Seq(Tokens)) /\ Len(u) = m
        BY <2>2, <4>1
      <4>4. /\ u[m] = q /\ \A j \in 1 .. (m - 1) : u[j] = l[j]
        BY <2>2, <3>1
      <4>5. q \in Seq(Tokens)
        BY <2>3
      <4> HIDE DEF l, u, q
      <4>6. Append(l, q) = u
        BY <2>2, <3>1, <4>2, <4>3, <4>4, <4>5
      <4> QED
        BY <3>3, <4>6 DEF l, u, q
    <3> HIDE DEF next
    <3> QED
      BY <2>2, <3>8, <3>9, <3>10 DEF head
  <2> QED
    BY <2>4, <2>5
<1>10. CASE n # 0
  <2>1. n \in 1 .. n
    BY <1>1, <1>10
  <2>2. Good(n)
    BY <1>1, <1>9, <2>1
  <2> QED
    BY <1>2, <1>10, <2>2 DEF n, name, colon, comma
<1> QED
  BY <1>7, <1>10 DEF n

\* What is left of two tokens and others without the two.
LEMMA SkipPair ==
    ASSUME NEW x \in Tokens, NEW y \in Tokens, NEW v \in Seq(Tokens)
    PROVE  SubSeq(Append(<<x>>, y) \o v, 3, Len(Append(<<x>>, y) \o v)) = v
<1> DEFINE l == Append(<<x>>, y) \o v
           r == SubSeq(l, 3, Len(l))
<1>1. l \in Seq(Tokens) /\ Len(l) = Len(v) + 2 /\ Len(v) \in Nat
  OBVIOUS
<1>2. \A k \in 1 .. Len(v) : l[k + 2] = v[k]
  OBVIOUS
<1> HIDE DEF l
<1>3. r \in Seq(Tokens) /\ Len(r) = Len(v) /\ \A k \in 1 .. Len(v) : r[k] = l[k + 2]
  BY <1>1
<1> HIDE DEF r
<1>4. r = v
  BY <1>1, <1>2, <1>3
<1> QED
  BY <1>4 DEF r, l

\* A text of one token, and one that does not have the separator.
LEMMA OneToken ==
    ASSUME NEW x \in Tokens, NEW sep, x # sep
    PROVE  <<x>> \in Seq(Tokens) /\ Len(<<x>>) = 1 /\ Split(<<x>>, sep) = <<<<x>>>>
<1> DEFINE s == <<x>>
<1>1. s \in Seq(Tokens) /\ Len(s) = 1 /\ s[1] = x
  OBVIOUS
<1> HIDE DEF s
<1>2. \A j \in 1 .. Len(s) : s[j] # sep
  BY <1>1
<1>3. Split(s, sep) = <<s>>
  BY <1>1, <1>2, SplitNothing
<1> QED
  BY <1>1, <1>3 DEF s

\* A piece more than one.
LEMMA AppendPair == ASSUME NEW a, NEW v PROVE Append(<<a>>, v) = <<a, v>>
<1> DEFINE l == Append(<<a>>, v)
           r == <<a, v>>
<1>1. l \in Seq({a, v}) /\ r \in Seq({a, v})
  OBVIOUS
<1>2. Len(l) = 2 /\ Len(r) = 2
  OBVIOUS
<1>3. \A k \in 1 .. 2 : l[k] = r[k]
  OBVIOUS
<1> HIDE DEF l, r
<1>4. l = [k \in 1 .. 2 |-> l[k]] /\ r = [k \in 1 .. 2 |-> r[k]]
  BY <1>1, <1>2
<1>5. l = r
  BY <1>3, <1>4
<1> QED
  BY <1>5 DEF l, r

\* Two pieces of a text.
LEMMA TwoPieces ==
    ASSUME NEW a \in Seq(Tokens), NEW v \in Seq(Tokens)
    PROVE  /\ Append(<<a>>, v) = <<a, v>>
           /\ <<a, v>>[1] = a /\ <<a, v>>[2] = v /\ Len(<<a, v>>) = 2
<1>1. Append(<<a>>, v) = <<a, v>>
  BY AppendPair
<1>2. <<a, v>>[1] = a
  OBVIOUS
<1>3. <<a, v>>[2] = v
  OBVIOUS
<1>4. Len(<<a, v>>) = 2
  OBVIOUS
<1> QED
  BY <1>1, <1>2, <1>3, <1>4

\* A place is not before itself.
LEMMA AtMostItself == ASSUME NEW n \in Nat, NEW k \in 1 .. n PROVE k <= k
OBVIOUS

\* A text of one piece, and how its length compares with one and two.
LEMMA AloneInText == ASSUME NEW v PROVE <<v>>[1] = v /\ Len(<<v>>) = 1 /\ ~(1 > 1) /\ 2 > 1
OBVIOUS

\* The transport that is parsed has the options that were written.
LEMMA TransportWritten ==
    ASSUME NEW t, WellWritten(t)
    PROVE  LET w == Transport(Written(t))
               n == Len(t.options)
               named == {k \in 1 .. n : t.options[k][1] # ""}
           IN  /\ w.name = <<t.name>>
               /\ DOMAIN w.options = {<<t.options[k][1]>> : k \in named}
               /\ \A k \in named : w.options[<<t.options[k][1]>>] = t.options[k][2]
<1> DEFINE n == Len(t.options)
           text == Written(t)
           name == t.name
           colon == ":"
           comma == ","
           eq == "="
           pairs == Split(Pairs(text), ",")
           parts == [k \in 1 .. Len(pairs) |-> Split(pairs[k], "=")]
           lasts == {k \in DOMAIN parts :
                        \A j \in DOMAIN parts : parts[j][1] = parts[k][1] => j <= k}
           given == {k \in lasts : Len(parts[k]) > 1}
           options == [key \in {parts[k][1] : k \in given} |->
                          parts[CHOOSE k \in given : parts[k][1] = key][2]]
<1>1. Transport(text) = [name |-> Split(text, ":")[1], options |-> options]
  BY DEF Transport
<1>2. /\ colon \in Tokens /\ comma \in Tokens /\ eq \in Tokens
      /\ name \in Tokens /\ name # colon
  BY DEF Tokens, WellWritten
<1> HIDE DEF options, given, lasts, parts, pairs
<1>3. <<name>> \in Seq(Tokens) /\ Split(<<name>>, colon) = <<<<name>>>>
  <2> HIDE DEF name, colon
  <2> QED
    BY <1>2, OneToken
<1>4. n \in Nat
  BY OptionType
<1>5. CASE n = 0
  <2>1. text = <<name>>
    BY <1>5, WrittenParts
  <2>2. Split(text, colon)[1] = <<name>> /\ Len(<<name>>) = 1
    BY <1>3, <2>1
  <2>3. Pairs(text) = <<>>
    <3>1. Pairs(text) = SubSeq(<<name>>, 3, 1)
      BY <2>1, <2>2 DEF Pairs
    <3>2. SubSeq(<<name>>, 3, 1) = <<>>
      OBVIOUS
    <3> QED
      BY <3>1, <3>2
  <2>4. pairs = <<<<>>>>
    BY <2>3, SplitEmpty DEF pairs
  <2>5. DOMAIN parts = {1} /\ parts[1] = <<<<>>>>
    BY <2>4, SplitEmpty DEF parts
  <2>6. given = {}
    <3>1. Len(parts[1]) = 1
      BY <2>5
    <3>2. \A k \in lasts : k = 1
      BY <2>5 DEF lasts
    <3>3. \A k \in lasts : Len(parts[k]) = 1
      BY <3>1, <3>2
    <3>4. ~ (1 > 1)
      OBVIOUS
    <3> QED
      BY <3>3, <3>4, Zenon DEF given
  <2>7. DOMAIN options = {}
    BY <2>6 DEF options
  <2> QED
    BY <1>1, <1>5, <2>2, <2>7
<1>6. CASE n # 0
  <2>1. PICK body \in Seq(Tokens) :
            /\ text = Append(<<name>>, colon) \o body
            /\ Split(body, comma) = [j \in 1 .. n |-> Part(t, j)]
    BY <1>6, WrittenParts
  <2> DEFINE key(k) == t.options[k][1]
             value(k) == t.options[k][2]
  <2> HIDE DEF text, name, colon, comma, eq, n
  <2>2. Split(text, colon)[1] = <<name>>
    <3> DEFINE head == Append(<<name>>, colon)
    <3>1. head \in Seq(Tokens)
      BY <1>2, <1>3
    <3>2. Split(head, colon) = Append(<<<<name>>>>, <<>>)
      BY <1>2, <1>3, SplitAppend DEF OneMore
    <3>3. Len(Split(head, colon)) > 1 /\ Split(head, colon)[1] = <<name>>
      BY <3>2
    <3> HIDE DEF head
    <3>4. Split(head \o body, colon)[1] = <<name>>
      BY <3>1, <3>3, SplitFirst
    <3> QED
      BY <2>1, <3>4 DEF head
  <2>3. Pairs(text) = body
    <3>1. Pairs(text) = SubSeq(text, 3, Len(text))
      <4> DEFINE head == Split(text, ":")[1]
      <4>1. Len(head) = 1
        <5>1. head = <<name>>
          BY <2>2 DEF colon
        <5> HIDE DEF head
        <5> QED
          BY <5>1
      <4>2. Pairs(text) = SubSeq(text, Len(head) + 2, Len(text))
        BY DEF Pairs
      <4> HIDE DEF head
      <4> QED
        BY <4>1, <4>2
    <3> QED
      BY <1>2, <2>1, <3>1, SkipPair
  <2>4. pairs = [j \in 1 .. n |-> Part(t, j)] /\ Len(pairs) = n
    <3>1. pairs = [j \in 1 .. n |-> Part(t, j)]
      BY <2>1, <2>3 DEF pairs, comma
    <3>2. \A j \in 1 .. n : Part(t, j) \in Seq(Tokens)
      BY PartType DEF n
    <3>3. pairs \in Seq(Seq(Tokens)) /\ DOMAIN pairs = 1 .. n
      BY <1>4, <3>1, <3>2
    <3> QED
      BY <1>4, <3>1, <3>3
  <2>5. ASSUME NEW k \in 1 .. n
        PROVE  /\ key(k) \in Keys /\ <<key(k)>> \in Seq(Tokens) /\ value(k) \in Seq(Tokens)
               /\ key(k) # "" => Split(Part(t, k), eq) = <<<<key(k)>>, value(k)>>
               /\ key(k) = "" => Split(Part(t, k), eq) = <<value(k)>>
    <3> DEFINE x == key(k)
               v == value(k)
    <3>1. /\ x \in Keys /\ x \in Tokens /\ x # eq /\ v \in Seq(Tokens)
          /\ \A j \in 1 .. Len(v) : v[j] # eq
      BY PartType DEF n, eq
    <3>2. Part(t, k) = Label(x) \o v
      BY DEF Part
    <3> HIDE DEF x, v
    <3>3. <<x>> \in Seq(Tokens) /\ <<x, eq>> = Append(<<x>>, eq)
      BY <3>1
    <3>4. CASE x # ""
      <4>1. Part(t, k) = <<x, eq>> \o v
        BY <3>2, <3>4 DEF Label, eq
      <4>2. Split(<<x>>, eq) = <<<<x>>>>
        BY <3>1, OneToken
      <4>3. Split(Append(<<x>>, eq) \o v, eq) = Append(Split(<<x>>, eq), v)
        BY <1>2, <3>1, <3>3, SplitOneMore
      <4>4. Append(<<<<x>>>>, v) = <<<<x>>, v>>
        BY <3>1, <3>3, TwoPieces
      <4> QED
        BY <3>1, <3>3, <3>4, <4>1, <4>2, <4>3, <4>4 DEF x, v
    <3>5. CASE x = ""
      <4>1. Part(t, k) = v
        BY <3>1, <3>2, <3>5, EmptyConcat DEF Label
      <4>2. Split(v, eq) = <<v>>
        BY <3>1, SplitNothing
      <4> QED
        BY <3>1, <3>3, <3>5, <4>1, <4>2 DEF x, v
    <3> QED
      BY <3>4, <3>5
  <2>6. DOMAIN parts = 1 .. n /\ \A k \in 1 .. n : parts[k] = Split(Part(t, k), eq)
    BY <2>4 DEF parts, eq
  <2>7. \A k \in 1 .. n : key(k) # "" =>
            parts[k][1] = <<key(k)>> /\ parts[k][2] = value(k) /\ Len(parts[k]) = 2
    <3>1. \A k \in 1 .. n : <<key(k)>> \in Seq(Tokens) /\ value(k) \in Seq(Tokens)
      BY <2>5
    <3> HIDE DEF key, value
    <3> SUFFICES ASSUME NEW k \in 1 .. n, key(k) # ""
                 PROVE  parts[k][1] = <<key(k)>> /\ parts[k][2] = value(k) /\ Len(parts[k]) = 2
      OBVIOUS
    <3>3. parts[k] = <<<<key(k)>>, value(k)>>
      BY <2>5, <2>6
    <3> DEFINE a == <<key(k)>>
    <3>4. a \in Seq(Tokens) /\ value(k) \in Seq(Tokens)
      BY <3>1
    <3> HIDE DEF a
    <3>5. <<a, value(k)>>[1] = a /\ <<a, value(k)>>[2] = value(k) /\ Len(<<a, value(k)>>) = 2
      BY <3>4, TwoPieces
    <3> QED
      BY <3>3, <3>5 DEF a
  <2>8. \A k \in 1 .. n : key(k) = "" => parts[k][1] = value(k) /\ Len(parts[k]) = 1
    <3> HIDE DEF key, value
    <3> SUFFICES ASSUME NEW k \in 1 .. n, key(k) = ""
                 PROVE  parts[k][1] = value(k) /\ Len(parts[k]) = 1
      OBVIOUS
    <3>1. parts[k] = <<value(k)>>
      BY <2>5, <2>6
    <3> QED
      BY <3>1, AloneInText, Zenon
  <2>9. \A j, k \in 1 .. n : key(k) # "" /\ parts[j][1] = parts[k][1] => j = k
    <3>1. /\ \A j, k \in 1 .. n : key(j) = key(k) => j = k \/ key(j) = ""
          /\ \A k \in 1 .. n : key(k) = "" => \A x \in Keys : value(k) # <<x>>
      BY OptionType DEF WellWritten, n
    <3> HIDE DEF key, value
    <3> SUFFICES ASSUME NEW j \in 1 .. n, NEW k \in 1 .. n,
                        key(k) # "", parts[j][1] = parts[k][1]
                 PROVE  j = k
      OBVIOUS
    <3>2. parts[k][1] = <<key(k)>> /\ key(k) \in Keys
      BY <2>5, <2>7
    <3>3. CASE key(j) = ""
      BY <2>8, <3>1, <3>2, <3>3
    <3>4. CASE key(j) # ""
      <4>1. <<key(j)>> = <<key(k)>>
        BY <2>7, <3>2, <3>4
      <4>2. key(j) = key(k)
        BY <4>1
      <4> QED
        BY <3>1, <3>4, <4>2
    <3> QED
      BY <3>3, <3>4
  <2> HIDE DEF key, value
  <2> DEFINE named == {k \in 1 .. n : key(k) # ""}
  <2>10. named \subseteq lasts /\ lasts \subseteq 1 .. n
    <3>1. ASSUME NEW k \in named PROVE \A j \in 1 .. n : parts[j][1] = parts[k][1] => j <= k
      <4>1. k \in 1 .. n /\ key(k) # ""
        OBVIOUS
      <4>2. k <= k
        BY <1>4, <4>1, AtMostItself, Zenon
      <4> QED
        BY <2>9, <4>1, <4>2, Zenon
    <3> QED
      BY <2>6, <3>1 DEF lasts
  <2>11. given = named
    <3>1. ASSUME NEW k \in named PROVE Len(parts[k]) > 1
      <4>1. k \in 1 .. n /\ key(k) # ""
        OBVIOUS
      <4>2. Len(parts[k]) = 2
        BY <2>7, <4>1, Zenon
      <4> QED
        BY <4>2, AloneInText, Zenon
    <3>2. ASSUME NEW k \in lasts, Len(parts[k]) > 1 PROVE k \in named
      <4>1. k \in 1 .. n /\ Len(parts[k]) # 1
        BY <2>10, <3>2, AloneInText, Zenon
      <4> QED
        BY <2>8, <4>1
    <3> HIDE DEF named
    <3> QED
      BY <2>10, <3>1, <3>2, Zenon DEF given
  <2>12. DOMAIN options = {<<key(k)>> : k \in named}
    <3>1. DOMAIN options = {parts[k][1] : k \in given}
      BY DEF options
    <3> QED
      BY <2>7, <2>11, <3>1
  <2>13. ASSUME NEW k \in named PROVE options[<<key(k)>>] = value(k)
    <3>1. (CHOOSE j \in given : parts[j][1] = <<key(k)>>) = k
      BY <2>7, <2>9, <2>11
    <3>2. <<key(k)>> \in {parts[j][1] : j \in given}
      BY <2>7, <2>11
    <3> QED
      BY <2>7, <3>1, <3>2 DEF options
  <2> DEFINE w == Transport(text)
  <2>14. w.name = <<name>> /\ w.options = options
    BY <1>1, <2>2 DEF colon, text
  <2> HIDE DEF w
  <2>15. DOMAIN w.options = {<<key(k)>> : k \in named}
    BY <2>12, <2>14
  <2>16. \A k \in named : w.options[<<key(k)>>] = value(k)
    BY <2>13, <2>14
  <2> QED
    BY <2>14, <2>15, <2>16 DEF w, key, value, text, name, n
<1> QED
  BY <1>5, <1>6

\* What an option of a written transport says is what its server asks for.
LEMMA OptionWritten ==
    ASSUME NEW t, WellWritten(t), NEW k \in 1 .. Len(t.options), NEW name, NEW default,
           name = t.options[k][1], name # ""
    PROVE  Option(Transport(Written(t)), name, default) = t.options[k][2]
<1> DEFINE w == Transport(Written(t))
           n == Len(t.options)
           key(j) == t.options[j][1]
           value(j) == t.options[j][2]
           named == {j \in 1 .. n : key(j) # ""}
<1>1. DOMAIN w.options = {<<key(j)>> : j \in named}
  BY TransportWritten
<1>2. k \in named /\ name = key(k)
  OBVIOUS
<1>3. w.options[<<key(k)>>] = value(k)
  BY <1>2, TransportWritten
<1> HIDE DEF w, named, key, value
<1>4. <<key(k)>> \in DOMAIN w.options
  BY <1>1, <1>2
<1>5. Option(w, name, default) = value(k)
  BY <1>2, <1>3, <1>4 DEF Option
<1> QED
  BY <1>5 DEF w, value

\* Numbers that the length of a bootnode is compared with.
LEMMA Numerals == 3 - 2 = 1 /\ 7 - 2 = 5 /\ 7 # 3 /\ \A k \in 1 .. 1 : k = 1
OBVIOUS

\* A sequence of one element.
LEMMA OnePiece == ASSUME NEW x PROVE [k \in 1 .. 1 |-> x] = <<x>>
OBVIOUS

\* The bootnode that is written is the bootnode that is parsed.
LEMMA BootnodeWritten ==
    ASSUME NEW value \in Seq(Tokens), \A k \in 1 .. Len(value) : value[k] # ",",
           IsAddress(value) \/ IsUrl(value)
    PROVE  Bootnodes(value) = <<[ip   |-> value[Len(value) - 2],
                                 port |-> value[Len(value)],
                                 id   |-> IF Len(value) = 3 THEN None ELSE value[3]]>>
<1> DEFINE node(s) ==
              IF IsAddress(s) THEN [id |-> None, ip |-> s[1], port |-> s[3]]
              ELSE IF IsUrl(s) THEN [id |-> s[3], ip |-> s[5], port |-> s[7]]
              ELSE [id |-> None, ip |-> None, port |-> "0"]
           texts == Split(value, ",")
           parsed == [k \in 1 .. Len(texts) |-> node(texts[k])]
           made == [ip   |-> value[Len(value) - 2],
                    port |-> value[Len(value)],
                    id   |-> IF Len(value) = 3 THEN None ELSE value[3]]
<1>1. Bootnodes(value) = parsed
  BY DEF Bootnodes
<1>2. texts = <<value>>
  BY SplitNothing
<1> DEFINE n == Len(value)
<1>3. node(value) = made
  <2>1. CASE IsAddress(value)
    <3>1. node(value) = [id |-> None, ip |-> value[1], port |-> value[3]]
      BY <2>1
    <3>2. n = 3
      BY <2>1 DEF IsAddress
    <3> HIDE DEF n, node
    <3>3. n - 2 = 1
      BY <3>2, Numerals, Zenon
    <3>4. made = [id |-> None, ip |-> value[1], port |-> value[3]]
      BY <3>2, <3>3, Zenon DEF n
    <3> QED
      BY <3>1, <3>4
  <2>2. CASE IsUrl(value)
    <3>1. n = 7
      BY <2>2 DEF IsUrl
    <3> HIDE DEF n
    <3>2. n # 3 /\ n - 2 = 5
      BY <3>1, Numerals, Zenon
    <3>3. ~IsAddress(value)
      BY <3>2, Zenon DEF IsAddress, n
    <3>4. node(value) = [id |-> value[3], ip |-> value[5], port |-> value[7]]
      BY <2>2, <3>3, Zenon
    <3> HIDE DEF node
    <3>5. made = [id |-> value[3], ip |-> value[5], port |-> value[7]]
      BY <3>1, <3>2, Zenon DEF n
    <3> QED
      BY <3>4, <3>5
  <2> QED
    BY <2>1, <2>2
<1> HIDE DEF node, made, texts
<1>4. Len(texts) = 1 /\ texts[1] = value
  BY <1>2
<1>5. parsed = <<made>>
  <2>1. \A k \in 1 .. 1 : node(texts[k]) = made
    BY <1>3, <1>4, Numerals, Zenon
  <2>2. parsed = [k \in 1 .. 1 |-> made]
    BY <1>4, <2>1, Zenon
  <2> QED
    BY <2>2, OnePiece
<1> QED
  BY <1>1, <1>5 DEF made

\* The server that Config makes of a transport.
Made(t) == IF t.name = <<"rlpx">> THEN RlpxServer(t) ELSE Libp2pServer(t)

\* It is the server that was written.
AsWritten(made, t) ==
    /\ made.name = t.name
    /\ \A n \in DOMAIN t.options :
          LET key == t.options[n][1]
              value == t.options[n][2]
          IN  /\ key \in {"port", "multiaddrs"} => made[key] = value
              /\ key = "bootnodes" /\ ~IsMultiaddr(value) =>
                    made.bootnodes = <<[ip |-> value[Len(value) - 2],
                                        port |-> value[Len(value)],
                                        id |-> IF Len(value) = 3 THEN None
                                               ELSE value[3]]>>

\* Config makes the server that was written.
LEMMA ServerWritten ==
    ASSUME NEW t, WellWritten(t) PROVE AsWritten(Made(Transport(Written(t))), t)
<1> DEFINE w == Transport(Written(t))
           made == Made(w)
           list == t.options
           key(k) == list[k][1]
           value(k) == list[k][2]
           bootnode(v) == <<[ip |-> v[Len(v) - 2], port |-> v[Len(v)],
                             id |-> IF Len(v) = 3 THEN None ELSE v[3]]>>
<1>1. t.name \in {"rlpx", "libp2p"}
  BY DEF WellWritten
<1>2. DOMAIN list = 1 .. Len(list)
  BY OptionType
<1>3. w.name = <<t.name>>
  BY TransportWritten
<1>4. ASSUME NEW k \in 1 .. Len(list)
      PROVE  /\ key(k) = "port" => t.name = "rlpx"
             /\ key(k) = "multiaddrs" => t.name = "libp2p"
             /\ value(k) # <<>>
             /\ key(k) = "bootnodes" =>
                   IsAddress(value(k)) \/ IsUrl(value(k)) \/ IsMultiaddr(value(k))
  BY <1>2, <1>4 DEF WellWritten
<1>5. ASSUME NEW k \in 1 .. Len(list)
      PROVE  /\ key(k) \in Keys /\ value(k) \in Seq(Tokens)
             /\ \A n \in 1 .. Len(value(k)) : value(k)[n] # ","
  BY PartType
<1>6. ASSUME NEW k \in 1 .. Len(list), key(k) = "bootnodes", ~IsMultiaddr(value(k)),
             NEW default
      PROVE  BootnodesOr(w, default) = bootnode(value(k))
  <2> DEFINE v == value(k)
  <2>1. Option(w, "bootnodes", <<>>) = v
    BY <1>6, OptionWritten
  <2>2. Bootnodes(v) = bootnode(v)
    BY <1>4, <1>5, <1>6, BootnodeWritten
  <2>3. v # <<>>
    BY <1>4
  <2> HIDE DEF w, bootnode, v
  <2>4. BootnodesOr(w, default) = bootnode(v)
    BY <2>1, <2>2, <2>3 DEF BootnodesOr
  <2> QED
    BY <2>4 DEF v
<1>7. CASE t.name = "rlpx"
  <2>1. made = RlpxServer(w)
    <3> HIDE DEF w
    <3> QED
      BY <1>3, <1>7 DEF Made
  <2>2. made.name = "rlpx"
    BY <2>1 DEF RlpxServer
  <2>3. ASSUME NEW k \in 1 .. Len(list)
        PROVE  /\ key(k) \in {"port", "multiaddrs"} => made[key(k)] = value(k)
               /\ key(k) = "bootnodes" /\ ~IsMultiaddr(value(k)) =>
                     made.bootnodes = bootnode(value(k))
    <3>1. ASSUME key(k) = "bootnodes", ~IsMultiaddr(value(k))
          PROVE  made.bootnodes = bootnode(value(k))
      <4>1. BootnodesOr(w, BootstrapNodes) = bootnode(value(k))
        BY <1>6, <3>1
      <4> HIDE DEF w, bootnode, key, value
      <4>2. made.bootnodes = BootnodesOr(w, BootstrapNodes)
        BY <2>1 DEF RlpxServer
      <4> QED
        BY <3>1, <4>1, <4>2
    <3>2. ASSUME key(k) \in {"port", "multiaddrs"} PROVE made[key(k)] = value(k)
      <4>1. key(k) = "port"
        BY <1>4, <1>5, <1>7, <3>2
      <4>2. Option(w, "port", <<"30303">>) = value(k)
        BY <4>1, OptionWritten
      <4> HIDE DEF w, bootnode, key, value
      <4>3. made.port = value(k)
        BY <2>1, <4>2 DEF RlpxServer
      <4> QED
        BY <4>1, <4>3
    <3> QED
      BY <3>1, <3>2
  <2> HIDE DEF w, made
  <2>4. AsWritten(made, t)
    BY <1>2, <1>7, <2>2, <2>3 DEF AsWritten
  <2> QED
    BY <2>4 DEF w, made
<1>8. CASE t.name = "libp2p"
  <2>1. made = Libp2pServer(w)
    <3> HIDE DEF w
    <3> QED
      BY <1>3, <1>8 DEF Made
  <2>2. made.name = "libp2p"
    BY <2>1 DEF Libp2pServer
  <2>3. ASSUME NEW k \in 1 .. Len(list)
        PROVE  /\ key(k) \in {"port", "multiaddrs"} => made[key(k)] = value(k)
               /\ key(k) = "bootnodes" /\ ~IsMultiaddr(value(k)) =>
                     made.bootnodes = bootnode(value(k))
    <3>1. ASSUME key(k) = "bootnodes", ~IsMultiaddr(value(k))
          PROVE  made.bootnodes = bootnode(value(k))
      <4>1. BootnodesOr(w, <<>>) = bootnode(value(k))
        BY <1>6, <3>1
      <4> HIDE DEF w, bootnode, key, value
      <4>2. made.bootnodes = BootnodesOr(w, <<>>)
        BY <2>1 DEF Libp2pServer
      <4> QED
        BY <3>1, <4>1, <4>2
    <3>2. ASSUME key(k) \in {"port", "multiaddrs"} PROVE made[key(k)] = value(k)
      <4> DEFINE default == <<"/ip4/127.0.0.1/tcp/50580/ws">>
      <4>1. key(k) = "multiaddrs"
        BY <1>4, <1>5, <1>8, <3>2
      <4>2. value(k) # <<>>
        BY <1>4
      <4>3. Option(w, "multiaddrs", default) = value(k)
        BY <4>1, OptionWritten
      <4> HIDE DEF w, bootnode, key, value
      <4>4. made.multiaddrs = value(k)
        BY <2>1, <4>2, <4>3 DEF Libp2pServer
      <4> QED
        BY <4>1, <4>4
    <3> QED
      BY <3>1, <3>2
  <2> HIDE DEF w, made
  <2>4. AsWritten(made, t)
    BY <1>2, <1>8, <2>2, <2>3 DEF AsWritten
  <2> QED
    BY <2>4 DEF w, made
<1> QED
  BY <1>1, <1>7, <1>8

\* What the user asks for is a command, and once there is a Config, it is the one
\* of that command.
ConfigInv ==
    /\ asked \in Commands
    /\ main \notin {"library", "options"} => config = NewConfig(asked)

\* Only Configure makes a Config.
LEMMA ConfigStep == ConfigInv /\ [NextRpc]_rpcVars => ConfigInv'
<1> SUFFICES ASSUME ConfigInv, [NextRpc]_rpcVars PROVE ConfigInv'
  OBVIOUS
<1>1. CASE Configure
  BY <1>1 DEF Configure, ConfigInv
<1>2. CASE CallOpen \/ CallStart
  BY <1>2 DEF CallOpen, CallStart, ConfigInv
<1>3. CASE /\ UNCHANGED <<asked, config>>
           /\ main' = main \/ main \notin {"library", "options"}
  BY <1>3 DEF ConfigInv
<1>4. ASSUME NEW ACTION step, Runs(step)
      PROVE  UNCHANGED <<asked, config>> /\ (main' = main \/ main \notin {"library", "options"})
  BY <1>4 DEF Runs, Awaited
<1>5. CASE NextCli
  <2>1. CASE Killed \/ Ended
    BY <1>3, <2>1 DEF Killed, Ended, cliVars, cliV
  <2>2. CASE \E s \in Stops : Interrupt(s)
    BY <1>3, <1>4, <2>2 DEF Interrupt
  <2>3. CASE Runs(Next) \/ Runs(Settle \/ Peers)
    BY <1>3, <1>4, <2>3
  <2> QED
    BY <1>1, <1>2, <1>5, <2>1, <2>2, <2>3 DEF NextCli
<1>6. CASE ~ NextCli
  <2>1. UNCHANGED <<asked, config, main>>
    BY <1>6 DEF NextRpc, rpcVars, cliVars, cliV, Refuse, Call, Throw, Read, Forget
  <2> QED
    BY <1>3, <2>1
<1> QED
  BY <1>5, <1>6

\* What the user wrote is what the node has, each server with the port, the
\* multiaddr and the bootnode given for it, unless that is a multiaddr too, and a
\* directory of its own: for every set of commands whose transports are written
\* as the options of a transport can be, lists among them, of any number of
\* transports, options and tokens.
THEOREM ServersMadeAsAsked == ASSUME CommandsWritten PROVE SpecRpc => []ServersAsAsked
<1>1. InitRpc => ConfigInv
  BY DEF InitRpc, InitCli, ConfigInv
<1>2. SpecRpc => []ConfigInv
  BY <1>1, ConfigStep, PTL DEF SpecRpc
<1>3. ASSUME ConfigInv, main \notin {"library", "options"}, NEW k \in DOMAIN asked.transports
      PROVE  AsWritten(config.servers[k], asked.transports[k])
  <2> DEFINE texts == [j \in 1 .. Len(asked.transports) |-> Written(asked.transports[j])]
             t == asked.transports[k]
             m == Len(asked.transports)
  <2>1. /\ config = NewConfig(asked) /\ WellWritten(t) /\ k \in 1 .. m
        /\ DOMAIN asked.transports = 1 .. m
    BY <1>3 DEF CommandsWritten, ConfigInv
  <2>2. config.servers = Servers(texts)
    BY <2>1 DEF NewConfig
  <2>3. m \in Nat
    BY <1>3 DEF CommandsWritten, ConfigInv
  <2>4. Len(texts) = m
    BY <2>3
  <2>5. Servers(texts)[k] = Made(Transport(texts[k]))
    <3> HIDE DEF texts, m
    <3> QED
      BY <2>1, <2>4 DEF Servers, Made
  <2>6. texts[k] = Written(t)
    BY <2>1
  <2> HIDE DEF texts, t
  <2> QED
    BY <2>1, <2>2, <2>5, <2>6, ServerWritten DEF t
<1>4. ASSUME ConfigInv, main \notin {"library", "options"}, NEW c \in Commands,
             SyncDataDirectory(c.syncmode, c.network) = config.directory
      PROVE  c.syncmode = asked.syncmode /\ c.network = asked.network
  <2>1. config.directory = SyncDataDirectory(asked.syncmode, asked.network)
    BY <1>4 DEF ConfigInv, NewConfig
  <2>2. c.syncmode \in {"full", "light"} /\ asked.syncmode \in {"full", "light"}
    BY <1>4 DEF ConfigInv, CommandsWritten
  <2> QED
    BY <1>4, <2>1, <2>2, DirectoryOfItsOwn
<1>5. ConfigInv => ServersAsAsked
  BY <1>3, <1>4 DEF ServersAsAsked, AsWritten
<1> QED
  BY <1>2, <1>5, PTL
=============================================================================
