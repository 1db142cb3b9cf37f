----------------------------- MODULE Synchronizer -----------------------------
(***************************************************************************)
(* The synchronization loop of lib/sync/sync.ts with the syncWithPeer()    *)
(* and stop() of lib/sync/fullsync.ts.  lib/sync/lightsync.ts is the same  *)
(* with headers, and knows the height of the peer without asking for it:   *)
(* its steps are those of Begin and of LatestOld or LatestNew together.    *)
(*                                                                         *)
(* A fetcher is what OrderedDownload says of it: blocks are stored in      *)
(* order until all are or the download is given up, and a store in flight  *)
(* at that moment may still complete.  Blocks are numbers, and the peer    *)
(* and we agree on them.                                                   *)
(***************************************************************************)
EXTENDS Naturals, FiniteSets

CONSTANTS
    Loops,      \* bound of the model: loops of start() alive at a time
    Stops,      \* bound of the model: calls of stop() waiting at a time
    Fetchers,   \* bound of the model: fetchers in use at a time
    None,       \* no fetcher
    MaxHeight,  \* bound of the model: height of the peers' chains
    MinPeers,   \* config.minPeers
    MaxPeers    \* config.maxPeers

ASSUME SynchronizerAssumption ==
    /\ None \notin Fetchers
    /\ MaxHeight \in Nat /\ MinPeers \in Nat /\ MaxPeers \in Nat

VARIABLES
    running,   \* this.running
    force,     \* this.forceSync
    timer,     \* loops whose timer for forceSync is set
    loop,      \* loop -> "off", "latest", "fetching" or "sleeping"
    awaited,   \* loop -> the fetcher whose fetch() it awaits
    stops,     \* calls of stop() that wait for the interval
    current,   \* this.blockFetcher
    phase,     \* fetcher -> "free", "running", "aborted" or "complete"
    next,      \* fetcher -> number of the next block to store
    last,      \* fetcher -> number of the last block to store
    storing,   \* fetchers whose store() is in flight
    head,      \* number of the latest block of the database
    height,    \* chain.blocks.height, the head known to the Chain
    peers,     \* number of peers that can be synced with
    remote,    \* highest block among them, as of their handshake
    overlap    \* history: start() began a loop while another one was alive

netV     == <<peers, remote>>
chainV   == <<head, height>>
fetcherV == <<phase, next, last, storing>>
vars     == <<running, force, timer, loop, awaited, stops, current, fetcherV,
              chainV, netV, overlap>>

Alive == {l \in Loops : loop[l] # "off"}

Init ==
    /\ running = FALSE /\ force = FALSE /\ timer = {} /\ overlap = FALSE
    /\ loop = [l \in Loops |-> "off"] /\ awaited = [l \in Loops |-> None]
    /\ stops = {} /\ current = None
    /\ phase = [f \in Fetchers |-> "free"] /\ storing = {}
    /\ next = [f \in Fetchers |-> 1] /\ last = [f \in Fetchers |-> 0]
    /\ head = 0 /\ height = 0
    /\ peers \in 0 .. MaxPeers /\ remote \in 0 .. MaxHeight

-----------------------------------------------------------------------------
(* start() *)

\* Mutant of HasBest: forceSync is not looked at.
HasBestUnforced == peers >= MinPeers /\ peers > 0 /\ remote >= height

\* best() finds a peer whose chain is not lighter than ours.
HasBest == (peers >= MinPeers \/ force) /\ peers > 0 /\ remote >= height

\* An iteration of the loop begins: sync() asks the best peer for its latest
\* header, or has nobody to ask and the loop sleeps.
Begin == IF HasBest THEN "latest" ELSE "sleeping"

\* start() goes into its first iteration without a pause.  When the
\* synchronizer runs it changes nothing.
Start(l) ==
    /\ ~running /\ loop[l] = "off"
    /\ running' = TRUE /\ timer' = timer \cup {l}
    /\ loop' = [loop EXCEPT ![l] = Begin]
    /\ overlap' = (overlap \/ Alive # {})
    /\ UNCHANGED <<force, awaited, stops, current, fetcherV, chainV, netV>>

\* The timer of 30 intervals.
ForceSync(l) ==
    /\ l \in timer /\ timer' = timer \ {l}
    /\ force' = TRUE
    /\ UNCHANGED <<running, loop, awaited, stops, current, fetcherV, chainV, netV, overlap>>

\* The request for the latest header failed, or brought none.
LatestFailed(l) ==
    /\ loop[l] = "latest"
    /\ loop' = [loop EXCEPT ![l] = "sleeping"]
    /\ UNCHANGED <<running, force, timer, awaited, stops, current, fetcherV,
                   chainV, netV, overlap>>

\* A fetcher nobody awaits and that stores nothing any more.
Unused(f) ==
    phase[f] # "running" /\ f \notin storing /\ \A l \in Loops : awaited[l] # f

\* The latest header has the number h: there is nothing to fetch, ...
LatestOld(l, h) ==
    /\ loop[l] = "latest" /\ h <= height
    /\ loop' = [loop EXCEPT ![l] = "sleeping"]
    /\ UNCHANGED <<running, force, timer, awaited, stops, current, fetcherV,
                   chainV, netV, overlap>>

\* Mutant of LatestNew: the block after the first missing one comes first.
LatestNewSkips(l, h) ==
    /\ loop[l] = "latest" /\ h > height
    /\ \E f \in Fetchers :
           /\ Unused(f)
           /\ phase' = [phase EXCEPT ![f] = "running"]
           /\ next' = [next EXCEPT ![f] = height + 2]
           /\ last' = [last EXCEPT ![f] = h]
           /\ current' = f
           /\ awaited' = [awaited EXCEPT ![l] = f]
    /\ loop' = [loop EXCEPT ![l] = "fetching"]
    /\ UNCHANGED <<running, force, timer, stops, storing, chainV, netV, overlap>>

\* ... or a fetcher for the blocks after our height starts, whatever running is.
LatestNew(l, h) ==
    /\ loop[l] = "latest" /\ h > height
    /\ \E f \in Fetchers :
           /\ Unused(f)
           /\ phase' = [phase EXCEPT ![f] = "running"]
           /\ next' = [next EXCEPT ![f] = height + 1]
           /\ last' = [last EXCEPT ![f] = h]
           /\ current' = f
           /\ awaited' = [awaited EXCEPT ![l] = f]
    /\ loop' = [loop EXCEPT ![l] = "fetching"]
    /\ UNCHANGED <<running, force, timer, stops, storing, chainV, netV, overlap>>

\* fetch() resolved: this.blockFetcher is deleted, 'synchronized' is emitted.
Fetched(l) ==
    /\ loop[l] = "fetching" /\ phase[awaited[l]] # "running"
    /\ current' = None
    /\ awaited' = [awaited EXCEPT ![l] = None]
    /\ loop' = [loop EXCEPT ![l] = "sleeping"]
    /\ UNCHANGED <<running, force, timer, stops, fetcherV, chainV, netV, overlap>>

\* Mutant of Wake: the loop does not look at running.
WakeAlways(l) ==
    /\ loop[l] = "sleeping"
    /\ loop' = [loop EXCEPT ![l] = Begin]
    /\ UNCHANGED <<running, force, timer, awaited, stops, current, fetcherV,
                   chainV, netV, overlap>>

\* The interval is over: the next iteration, or the end of the loop.
Wake(l) ==
    /\ loop[l] = "sleeping"
    /\ loop' = [loop EXCEPT ![l] = IF running THEN Begin ELSE "off"]
    /\ timer' = IF running THEN timer ELSE timer \ {l}
    /\ UNCHANGED <<running, force, awaited, stops, current, fetcherV, chainV,
                   netV, overlap>>

-----------------------------------------------------------------------------
(* stop() *)

\* Mutant of Stop: the fetcher is forgotten, not destroyed.
StopForgets(s) ==
    /\ running /\ s \notin stops
    /\ stops' = stops \cup {s}
    /\ current' = None
    /\ UNCHANGED <<running, force, timer, loop, awaited, fetcherV, chainV, netV, overlap>>

\* stop() destroys the current fetcher and waits for the interval.
Stop(s) ==
    /\ running /\ s \notin stops
    /\ stops' = stops \cup {s}
    /\ current' = None
    /\ phase' = IF current # None /\ phase[current] = "running"
                THEN [phase EXCEPT ![current] = "aborted"] ELSE phase
    /\ UNCHANGED <<running, force, timer, loop, awaited, next, last, storing,
                   chainV, netV, overlap>>

\* The interval is over: stop() resolves.
Stopped(s) ==
    /\ s \in stops /\ stops' = stops \ {s}
    /\ running' = FALSE
    /\ UNCHANGED <<force, timer, loop, awaited, current, fetcherV, chainV, netV, overlap>>

-----------------------------------------------------------------------------
(* The fetchers, as OrderedDownload allows, and the chain they store into. *)

BeginStore(f) ==
    /\ phase[f] = "running" /\ f \notin storing /\ next[f] <= last[f]
    /\ storing' = storing \cup {f}
    /\ UNCHANGED <<running, force, timer, loop, awaited, stops, current, phase,
                   next, last, chainV, netV, overlap>>

\* The next n blocks of f are in the database.
Put(f, n) ==
    /\ next[f] + n <= last[f] + 1
    /\ next' = [next EXCEPT ![f] = @ + n]
    /\ head' = IF next[f] + n - 1 > head THEN next[f] + n - 1 ELSE head

\* putBlocks() ends with an update of what the Chain knows of the database.
\* The update reads after its own put, but maybe before that of another
\* fetcher whose update is over already: it then takes the height back.
StoreDone(f) ==
    /\ f \in storing /\ storing' = storing \ {f}
    /\ \E n \in 1 .. MaxHeight : Put(f, n)
    /\ height' \in next'[f] - 1 .. head'
    /\ UNCHANGED <<running, force, timer, loop, awaited, stops, current, phase,
                   last, netV, overlap>>

\* putBlocks() rejects half-way, or its update after all was stored: the Chain
\* keeps the height it knew, and the download is over.
StoreFailed(f) ==
    /\ f \in storing /\ storing' = storing \ {f}
    /\ \E n \in 0 .. MaxHeight : Put(f, n)
    /\ phase' = IF phase[f] = "running" THEN [phase EXCEPT ![f] = "aborted"] ELSE phase
    /\ UNCHANGED <<running, force, timer, loop, awaited, stops, current, last,
                   height, netV, overlap>>

Complete(f) ==
    /\ phase[f] = "running" /\ f \notin storing /\ next[f] > last[f]
    /\ phase' = [phase EXCEPT ![f] = "complete"]
    /\ UNCHANGED <<running, force, timer, loop, awaited, stops, current, next,
                   last, storing, chainV, netV, overlap>>

\* Peers come and go.
Network ==
    /\ peers' \in 0 .. MaxPeers /\ remote' \in 0 .. MaxHeight
    /\ UNCHANGED <<running, force, timer, loop, awaited, stops, current,
                   fetcherV, chainV, overlap>>

-----------------------------------------------------------------------------

Loop(l)     == \/ ForceSync(l) \/ LatestFailed(l)
               \/ LatestOld(l, remote) \/ LatestNew(l, remote)
               \/ Fetched(l) \/ Wake(l)
Fetching(f) == BeginStore(f) \/ StoreDone(f) \/ StoreFailed(f) \/ Complete(f)

Next == \/ \E l \in Loops : Start(l) \/ Loop(l)
        \/ \E s \in Stops : Stop(s) \/ Stopped(s)
        \/ \E f \in Fetchers : Fetching(f)
        \/ Network

Spec == Init /\ [][Next]_vars

\* Timers fire and promises settle.  The rest is an assumption on the network
\* and the database: peers that stay bring a fetcher its next blocks, and
\* requests for the latest header and stores do not fail for ever.  A fetcher
\* without a peer gets nothing, and goes on waiting.
Fairness ==
    /\ \A l \in Loops : /\ WF_vars(ForceSync(l)) /\ WF_vars(Fetched(l)) /\ WF_vars(Wake(l))
                        /\ WF_vars(LatestOld(l, remote) \/ LatestFailed(l))
                        /\ SF_vars(LatestNew(l, remote))
    /\ \A s \in Stops : WF_vars(Stopped(s))
    /\ \A f \in Fetchers : /\ WF_vars(peers > 0 /\ BeginStore(f)) /\ WF_vars(Complete(f))
                           /\ SF_vars(StoreDone(f))

FairSpec == Spec /\ Fairness

-----------------------------------------------------------------------------
(* Properties *)

TypeOK ==
    /\ running \in BOOLEAN /\ force \in BOOLEAN /\ overlap \in BOOLEAN
    /\ timer \in SUBSET Loops /\ stops \in SUBSET Stops
    /\ loop \in [Loops -> {"off", "latest", "fetching", "sleeping"}]
    /\ awaited \in [Loops -> Fetchers \cup {None}]
    /\ \A l \in Loops : loop[l] = "fetching" <=> awaited[l] # None
    /\ current \in Fetchers \cup {None}
    /\ phase \in [Fetchers -> {"free", "running", "aborted", "complete"}]
    /\ next \in [Fetchers -> 1 .. MaxHeight + 1] /\ last \in [Fetchers -> 0 .. MaxHeight]
    /\ storing \in SUBSET Fetchers
    /\ head \in 0 .. MaxHeight /\ height \in 0 .. MaxHeight
    /\ peers \in 0 .. MaxPeers /\ remote \in 0 .. MaxHeight

\* Whatever was stopped, restarted or stored in part, and however many
\* fetchers store at a time: none of them is ever ahead of the database by
\* more than the next block, so no block is stored without its parent, and the
\* Chain never knows a block that the database has not.
NoGap ==
    /\ height <= head
    /\ \A f \in Fetchers : phase[f] = "running" \/ f \in storing => next[f] <= head + 1

\* Unless loops overlapped, stop() can reach the fetcher that is running, and
\* only one is.
StopReachesFetcher ==
    ~overlap => \A f \in Fetchers : phase[f] = "running" => current = f

\* When the synchronizer stays stopped, every loop comes to its end but one that
\* awaits a fetcher still running, which stop() did not reach.  With a peer for
\* that fetcher to end, they all do.
LoopsEnd ==
    <>[](~running) =>
        /\ <>[](\A l \in Alive : loop[l] = "fetching" /\ phase[awaited[l]] = "running")
        /\ <>[](peers > 0) => <>[](Alive = {})

\* When it keeps running and some peer stays, our chain reaches the height
\* that the peer had, even with less than MinPeers peers.
CatchesUp ==
    <>[](running /\ peers > 0 /\ remote = MaxHeight) => <>(height = MaxHeight)

\* What the doc comment of stop() says: it "resolves once its stopped".
StoppedIsIdle == ~running => \A f \in Fetchers : phase[f] # "running"
=============================================================================
