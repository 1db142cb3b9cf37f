# A TLA+ model of ethereumjs-client

Specifications of the concurrent core of `lib/` and of the program around it:
how blocks and headers are downloaded, how requests meet their responses, who
becomes a peer, how the chain is kept in sync and what the node knows of it, how
LES requests are limited, what messages carry, what the options make of a node,
how it opens, starts and stops, and what the requests of its RPC server meet. TLC
checks every module on small instances; TLAPS proves the properties that matter
most for every value of the constants.

Paths below are relative to `src/` of the repository, or to `src/lib/` where they
name one of its directories.

## 1. The system

The client is one Node.js process. Handlers run to completion; concurrency
comes from promises, timers, streams and events. `.github/workflows/build.yml`
runs Node 10, 12 and 13, where streams are not destroyed automatically.

| Component | State | Operations | Talks to | What is hard | What makes it correct |
|---|---|---|---|---|---|
| `EthereumClient` (`client.ts`) | `opened`, `started` | `open`, `start`, `stop` | services, servers | `stop` while `stop` is under way, restart | client, service, server and pool agree |
| `Service`, `EthereumService`, `Full-`/`LightEthereumService` (`service/`) | `opened`, `running`, listeners of its pool | `open`, `start`, `stop`, `close`, `handle` | pool, servers, chain, synchronizer | `close` drops listeners that only the constructor attaches | a started client answers and syncs |
| `Server`, `RlpxServer`, `Libp2pServer` (`net/server/`) | `started`, `peers`, `banned` | `start`, `bootstrap`, `stop`, `ban`, handlers of devp2p and libp2p events | peers, pool (`connected`, `disconnected`) | events that overtake `await accept()` | only reachable peers are announced |
| `PeerPool` (`net/peerpool.ts`) | `pool`, `noPeerPeriods`, interval | `open`, `close`, `connected`, `disconnected`, `ban`, `add`, `remove`, `idle`, `_statusCheck` | servers, fetchers, service | removal by id, full pool, overlapping checks | limit kept; members are connected and heard |
| `Peer`, `RlpxPeer`, `Libp2pPeer` (`net/peer/`) | `idle`, `bound`, `server`, `connected` | `accept`, `bindProtocols`, `bindProtocol`, `connect` | protocols, server | one object per connection or, of libp2p, one for all, same id; several handshakes of which some fail | the idle flag belongs to one object; announced with all protocols or not at all |
| `Protocol`, `EthProtocol`, `LesProtocol`, `BoundProtocol`, senders (`net/protocol/`) | `resolvers`, `status` | `handshake`, `send`, `request`, `handle`, `encode`, `decode` | peer, transport | late, missing, unasked or broken responses | every call settles, with its own response if all are punctual |
| `FlowControl` (`net/protocol/flowcontrol.ts`) | `in`, `out` | `maxRequestCount`, `handleReply`, `handleRequest` | `HeaderFetcher`, `handleLes` | elapsed time, 0, BN and number | what the server serves is what it refilled; what it tells holds |
| `Fetcher`, `BlockFetcher`, `HeaderFetcher` (`sync/fetcher/`) | heaps `in` and `out`, `processed`, `running`, two streams | `fetch`, `next`, `success`, `failure`, `expire`, `dequeue`, `write` | pool, bound protocols, chain | everything at once: retries, late answers, bans, backpressure, destroy | every task stored once, in order |
| `Synchronizer`, `Full-`/`LightSynchronizer` (`sync/`) | `running`, `forceSync`, the fetcher | `start`, `sync`, `best`, `latest`, `syncWithPeer`, `stop` | pool, fetcher, chain | state read before an `await` and used after it, overlapping loops | no gap in the chain; catches up; stops |
| `Chain` (`blockchain/chain.ts`) | `opened`, cached head of the database | `open`, `close`, `update`, `putBlocks`, `putHeaders` | database | calls that overlap or fail between their awaits | never ahead of the database; a put that resolved is known; behind only after a failure |
| `Config`, `parseTransports`, `parseBootnodes` (`config.ts`, `util/parse.ts`) | `servers`, what the options say | constructor, `getSyncDataDirectory` | command line, servers, services | separators inside of values, three forms of bootnodes | each server has the options given for it |
| `run`, `runNode`, `runRpcServer` (`bin/cli.ts`) | where `run` is | `run`, the handler of SIGINT | `Config`, client, RPC server | interrupts that overlap, a step that is rejected | an interrupt ends the process |
| `RPCManager`, `Eth`, `Net`, `Web3`, `Admin`, `middleware` (`rpc/`) | none | the eleven methods | client, chain, pool | a throw outside the `try`, state read without waiting for it | a request meets an open node |

`PROJECT.json` lists every component with its modules and, under `hazards`, the
places of the code that are hard to test, with the properties that cover them.

### Not modelled

- `net/peer/libp2pnode.ts` and its counterpart for browsers: configuration of
  the libp2p library and promise wrappers around its calls. That a call fails
  is a choice of `Lifecycle` and `Handshake`.
- `Libp2pPeer.connect()`: only its test calls it.
- `browser/index.ts` gives the client and the service options that their
  constructors no longer take, and `browser/logging.ts` prints.
- `logging.ts`, and all output of the others.
- The conversion of geth's parameters (`parseGethParams` and what it calls):
  nothing in the program gets to it (section 3, 12).
- The two conflicts of options at which the constructor of `Config` throws: the
  command line gives neither.
- Of the messages, headers and bodies, which are objects of libraries, and
  announcements, at which `announced()` only logs. Of the RPC answers, their
  contents.

## 2. The modules

| Module | Models | Composition |
|---|---|---|
| `OrderedDownload` | what a fetcher promises: an ordered prefix, then completion or abort | abstract specification |
| `Fetcher` | `sync/fetcher/*.ts` with the streams it uses | implements `OrderedDownload` (`Download == INSTANCE ... WITH`) |
| `BoundProtocol` | requests over one connection | |
| `PeerNet` | pool, both servers, and accept as a wait, for several nodes | composes the three |
| `Handshake` | one peer in detail: a handshake per protocol, binding, announcement, errors, requests | composes protocol, peer, server, pool and service |
| `SyncRound` | the decisions of one round: `best()`, the heights, `tasks()` | |
| `Messages` | encoding and decoding of statuses, header requests and LES replies | composes sender and receiver |
| `Chain` | `open`, `update`, `putBlocks`, `putHeaders`, `close` between their awaits | composes callers and the database |
| `Synchronizer` | the loop, `stop()` and the chain | uses fetchers by what `OrderedDownload` says |
| `FlowControl` | client and server side of LES limits | composes both sides |
| `Lifecycle` | client, service, servers, pool, chain and synchronizer as on/off parts | composes them all |
| `Config` | from the texts of the options to servers, bootnodes, protocols and directory | |
| `Cli` | `bin/cli.ts`, from its options to the end of the process | composes `Lifecycle` and `Config` |
| `Rpc` | the RPC server and its methods | composes `Cli`, that is the node and its program, and users |
| `FetcherProofs`, `PeerNetProofs`, `ChainProofs`, `HandshakeProofs`, `SynchronizerProofs` | theorems of the module named | |
| `ProtocolProofs` | theorems of `BoundProtocol` and `FlowControl` | |
| `RoundProofs` | theorems of `SyncRound` and `Messages` | |
| `LifecycleProofs` | theorems of `Lifecycle`, `Config`, `Cli` and `Rpc` | |
| `MC*` | small instances for TLC | |

Variables carry the names of the fields they model, actions those of the
functions or events; a comment above each gives the moment of the code it
stands for. An action is a handler up to its return or to its next `await` on
something that takes time (a timer, the network, the database). A chain of
already settled promises is part of the action that settles the first one: no
other handler runs in between. `map` in `PROJECT.json` gives the lines of every
definition. Definitions whose comment begins with "Mutant of" are variants with
a bug; each property of a passing run is violated by one of them.

### Fetcher

`control` is the position in `fetch()`; `in`, `out`, `processed`, `running` are
the fields; `active` and `expired` are the jobs whose `request()` has not
settled, with the Peer object that has the request; `readBuf`, `eof`, `wq`, `writing`, `writer` are the buffers of the Readable and the
Writable, as `write()` uses them; `stored` is the history of `store()`. Jobs in
a heap have distinct indexes, so heaps are sets. `success()` with its three
outcomes is `SuccessDone`, `SuccessRefused`, `SuccessNone`; each ends with the
call of `next()` (`NextJob`), as does `failure()`; `expire()` does not. A node
that comes back over RLPx is another object with the same `Id`; of libp2p
(`Libp2p`) the server announces the same object for every stream (`Connect`),
with the idle flag that it has. What settles a request frees its object
(`Released`), and not another one of the id, whereas a ban goes by id
(`Banned`). `expire()` frees nobody: a libp2p object that it banned is busy
for good when the pool has it again. `lost` is the history of those, also from
earlier fetchers of the pool. The Readable may call
`_read()` whenever it has room, the pipe takes chunks while the Writable has
room, and `writev` stores what was buffered at one time.

### BoundProtocol

`resolvers` is the map of the code; `state` and `result` say how the promise of
each call stands and whose response it got. The remote node answers in any
order, ignores requests, sends undecodable responses and some nobody asked for;
the connection may break, after which `sendMessage()` only emits an error.

### PeerNet

`pool`, `peers`, `banned` are the maps of the code. `conn` is what devp2p has
open (at most `maxPeers` connections, one per id, as it is configured in
`initRlpx()`), `accepting` and `streams` are calls of `accept()` that wait for a
status, `dialing` calls of `bindProtocols()`. `heard` counts the listeners
that `connected()` attaches to an object, with which `error` events are safe.
`crashed` is the throw of an `error` event nobody listens to. Error events that
a bound protocol emits are in `Handshake`, those of a connection here.

### Handshake

One peer, whose `kind` says how it came to be: accepted by `RlpxServer`, made by
a call of `RlpxPeer.connect()`, or discovered by `Libp2pServer`, in which case
it may also open streams to us. `hs` has the state of the handshake on each
channel, that is a protocol and a direction. `stuck` is what remains when
`decodeStatus()` throws in the event handler after the timer was cleared.
`Bind` is `bind()` and `bindProtocol()` with everything that follows in the
same turn: `Settled` is the end of `Promise.all()`, the `connected` event, the
listeners of the pool. `Request` and `Answer` are the two halves of a handler
of the service around its reads of the chain. Libp2p's streams, and the
connection of devp2p, behave as the code uses them.

### SyncRound and Messages

The two are plain computation, and each step of a loop is an action. In
`SyncRound` a round chooses a peer (`i` and `best` are the variables of the loop
of `best()`), learns the height of that peer, and splits the blocks between into
tasks, with `first` and `count` moved on in place as `tasks()` does. The tasks
that it makes are the indexes of `Fetcher`. In `Messages` a byte string is a
sequence of digits. `Bytes`, `IntBytes` and `Value` are what the libraries make
of a BN, of a number and of a Buffer: 0 is one zero byte in a BN and no byte at
all as a number. 256 values of a byte and 32 bytes of a hash are scaled down to
`Base` and `HashLength`, with the assumption that no number is as long as a
hash (`NumbersAreShort`). `MCRound` runs the two in one instance; they share no state.

### Chain

`op` and `step` are the call and the await at which each caller is, `gotHeader`
and `gotBlock` what its `update()` has read so far, `dbHeader` and `dbBlock` the
database, and the other fields those of the code. A put that fails (`PutFailed`)
leaves what it stored in the database and does not update. `spoiled` is history: since the
cache last was exact, a call failed other than at opening, or a put met an
update that had read already. `Failed` is the rejection of any other await than
the put: of the database that opens or closes, and of the reads of `update()`,
which come after `opened` is set, or after a put that stored everything.
Nothing in `lib/` calls `close()`, so it is modelled for a Chain that is
otherwise at rest.

### Synchronizer

`loop` is the position in `start()` and `syncWithPeer()` of each loop alive,
`stops` the calls of `stop()` that wait for the interval, `current` the field
`blockFetcher`. `Begin` is where an iteration goes in the turn in which it begins:
`best()` finds a peer, which is asked for its latest header, or the loop
sleeps. `head` is the database, `height` what `Chain.update()` last
wrote: it may go back when an older update ends after a newer one. The
reference of a fetcher and its phases are separate, as `stop()` and the end of
`fetch()` delete the reference of whichever fetcher it is. `LightSynchronizer`
has the same steps with `Begin` and `LatestOld`/`LatestNew` taken together.
`LatestOld` and `LatestNew` take the present height of the peers for the one in
the peer's handshake: with `Network` enabled at any time both are arbitrary.

### FlowControl

One pair of nodes, and at most one request under way, as a fetcher asks a peer
again only when it is idle. The value of `params.ble` has a kind: absent, a
number, the BN of a reply (`lesprotocol.ts:62`), or not a number, after
`process()` took the `false` of a refused request for a reply without `bv`.
`Concat` is what `BN + number` gives in JavaScript. Time is discrete.
`MCProtocol` runs it beside `BoundProtocol`, with which it shares no state.

### Lifecycle

One service, and a server for each transport in `servers`. `caller` says what
the caller of `open()` and `start()` awaits, `starting` how far the `start()` of
each server is: `ProtocolsOpened` is the end of `Server.start()`, which sets
`started`, and `ServerStarted` the end of that of its subclass. `open()` is
rejected when the database does not open (`chain` stays "unread") or its head
cannot be read ("failed": `opened` is set); `start()` when a protocol cannot
open the chain, or libp2p does not listen, while the other servers go on.
Either is called again after that, by which time a service that is open, or a
server that is started, is passed over. `stop()` comes at any time and also
twice, as at two SIGINTs; the second one finds the service stopped, or stops it
again. Only the `stop()` of libp2p is awaited, and may be rejected. `start()` is
called when all other calls have settled, as the program and the tests do. The
code does not ask for that: the README of the repository (87-89) calls `open()`,
`start()` and `stop()` without awaiting them, which is not modelled.

`answering` is the listener on `message` that `Service.close()` removes and only
the constructor attaches: after a restart the service runs and answers nobody,
and its pool is not checked. `FirstRunComplete` is therefore about the first
run. `failed`, `stopped` and `unstoppable` are history.

### Config, Cli and Rpc

In `Config` a text is a sequence of tokens, of which separators are some; what
stands between them is a token whatever its length. `Written` in `Cli` is the
text that a user writes for a transport, and `NewConfig` what the program makes
of it: `ServersAsAsked` compares the two ends. `CommandsWritten` is about what
users can ask for: options that a transport has, each once, with values without
commas and equals signs; bootnodes as an address, as a URL, or as the multiaddr
that the README of the repository has; and lists, whose further elements are
written as options without a key, because the comma of a list is that of the
options. `Configure` sets the `servers` of `Lifecycle`.

`main` is where `run()` is. `Runs(step)` is a step of the node in the process:
it also goes on with `run()` when the call that it awaits is settled
(`Awaited`), and ends the process when the `stop()` of an interrupt resolves
(`Exit`). A program of its own, which calls the client as it likes, is
`main = "library"`; it has all steps of `Lifecycle`.

In `Rpc` a request is a method and the kinds of its parameters. `Refuse` is the
middleware, `Call` a method up to its first `await` or its answer, `Read` what
comes after the read of the chain, `Throw` an error outside the `try`.
`RequestsMeetNode` is what the methods take for granted of the node.

## 3. The runs

| Run | Question | Bounds |
|---|---|---|
| `fetcher` | are tasks conserved and stored in order, is the backlog bounded, is it an `OrderedDownload`, and does `fetch()` resolve? | an RLPx node of 2 objects and a libp2p node, 3 tasks, `maxQueue` 1, room for 1 chunk to read and 2 to write |
| `protocol` | do calls settle, with their own response? Is what an LES server serves bounded by its refills, and what it tells still there? | 3 calls, 2 codes, 1 unasked response; a buffer for less than two full requests, 7 units of time, 6 requests |
| `peer_net` | are members connected, heard once and bounded? | 2 devp2p ids and 1 libp2p id for 2 places, 2 objects per id, listeners counted up to 2 |
| `peer_net_ban` | does a banned node stay out? (no) | the same |
| `synchronizer` | can overlapping loops and stops leave a gap, or a fetcher out of reach? | 2 loops, 2 stops, 2 fetchers, height 2; symmetric |
| `synchronizer_live` | do loops end that have a peer, and does the chain catch up? | 1 stop, height 1, no symmetry |
| `synchronizer_stop` | does a resolved `stop()` mean idle? (no) | as `synchronizer` |
| `lifecycle` | do the parts agree, whatever fails, overlaps or is called again; has the program the servers it was asked for; do requests meet an open node; does an interrupt end the process? | 2 calls of `stop()` or interrupts, 2 bootstraps at a time, all sets of servers, 7 commands, 1 user |
| `lifecycle_bootnodes` | does the second client of the repository's README know the first one? (no) | the two commands of that example |
| `chain` | is the Chain behind but never ahead, and does a resolved put show? | 3 callers, 2 blocks; symmetric |
| `handshake` | is a peer announced whole, answered once and heard, and does binding end? | 2 protocols, 1 request for each, all three kinds |
| `round` | is the heaviest peer asked, do tasks cover the range, and do messages arrive? | 3 peers of 3 difficulties, ranges up to 6, requests up to 3; 2-digit numbers of base 3, hashes of 3 |

Why the bounds are enough. Retry of a task on the same and on another peer, a
late answer of an expired job beside its retry, reconnection under a running
job, a task beyond the window of `next()` and a batch of more than one chunk all
occur with two nodes and 3 tasks, as does a busy libp2p peer that comes back. Two calls of one code and one of another show
each way in which responses are confused. Two devp2p ids and a libp2p id for
two places is the smallest pool that fills up in different ways. Two loops,
stops and fetchers are the smallest overlap; a third of each repeats the steps
of the second. In `FlowControl` the buffer drains to every value, 0 included,
more than once before time ends. Three callers of `Chain` are an opener, a
writer and a reader, or two writers that overlap an update. Two protocols show
a peer of which some handshakes end and others do not. Ranges up to 6 and
requests up to 3 have every remainder, and numbers of one and of two digits
every encoding.

The seven commands are those of the README of the repository and others: both
transports, one, none; ports, addresses, bootnodes of all three forms and lists
of them; both modes and two networks; `--rpc` on a full and on a light node; `--params`. Overlapping
calls of `stop()` and of `_statusCheck()` are pairs, a third one is refused or
repeats the second.

The type invariants are proved, outside of `Fetcher` each as part of an
inductive one; no run repeats them.

Deadlock is not checked where the system ends or the bounds end it (all calls
settled, fetch resolved, no objects or time left); it is checked in
`Synchronizer`, `Lifecycle` and `Chain`, whose parts always can go on.

Each constant that bounds the model and not the program is declared with
"bound of the model".

### Fairness

- Weak fairness of timers, settled promises, stream events and intervals:
  `setTimeout`, `setInterval` and the event loop run every handler that is due.
- `Fetcher`: strong fairness of an acceptable answer for each task. A task
  refused or timed out for ever would never end, by design of the retry. A
  pool that keeps no peer but libp2p ones left busy by `expire()` gives a fetcher
  nothing to ask: `FetchResolves` is about pools that keep another one.
- `Synchronizer`: strong fairness of the latest header and of `StoreDone`: the
  network and the database do not fail for ever. A fetcher stores its next
  blocks only as long as there is a peer to get them from (`peers > 0` in the
  fairness of `BeginStore`); without one, `fetch()` waits. `LoopsEnd` therefore
  has two parts: whatever the peers do, only a loop that awaits a fetcher still
  running goes on, and with a peer that stays, none does.
- `Handshake`: promises run, handshake timers fire, and libp2p reports how a
  dial ended, one way or the other. No status is under fairness.
- `BoundProtocol`: only the timers and the handling of what has arrived.
  Remote nodes are under no fairness; `PeerNet` has no property that needs any.
- `Cli`: promises settle, resolved or rejected, and the interval fires, while
  there is a process. Nothing makes a caller call, a user interrupt, or a peer
  come; not even `run()` is made to go on, as no property needs it.

### What the code does against its comments

Three runs end in a violation; `findings` quotes the lines.

1. A ban does not keep a libp2p node out of the pool: only discovery asks
   `isBanned()`, not the handler of incoming streams.
2. `stop()` of a synchronizer can resolve while a fetcher runs: the fetcher that
   is made after the `await` of the latest header is not stopped. When the pool
   is closed next, that fetcher has no peer, and its loop waits for ever.
3. A bootnode that is a multiaddr, as the second client of the first example of
   the README of the repository has it, becomes `{id: null, ip: null, port: 0}`
   (`Bootnodes` of `Config`), so that `Libp2pNode` has no address to connect to.

More are in the models without a run of their own:

4. A response that comes after the timeout of its call resolves the next call
   of the same response code. `PunctualCallsMatched` names the condition.
5. The estimate of a LES client is too high after every reply: a BN plus a
   number is a concatenation (`Concat` of `FlowControl`).
6. After `stop()` a client can be started again, but answers nobody.
   `FirstRunComplete` names the condition.
7. `start()` of a client that was rejected leaves the servers that did start:
   `stop()` then returns at once. `StoppedIsQuiet` names the condition.
8. `net_version` throws for every client of the program: `_node.common` is in
   no `EthereumClient`. `admin_nodeInfo` throws without RLPx. Neither answers
   (`Throw` of `Rpc`, with a block number that is none).
9. `net_listening` answers `opened`, which no `stop()` resets.
10. The handler of SIGINT closes an HTTP server that it makes there and then, as
   `server.http()` does; the one that listens is ended by the process
   (`Interrupt` of `Cli`). The handler is attached when `run()` is through, so
   with `--rpc --syncmode light`, where the RPC modules find no ETH protocol,
   the node runs and nobody handles the signal (`Listens`).
11. `--datadir` (`bin/cli.ts:40`) is not used: the directory is below the home
   directory, at line 148.
12. `--params` always ends in a rejection: `parseParams()` is given a path
   (`Configure` of `Cli`).
13. Of a list of bootnodes on the command line only the first gets through, and
   a value that has an equals sign is cut (`Transport` of `Config`).
14. `EthereumService` takes 8000 ms for the interval and 1000 ms for the timeout
   where the comments of its options (`ethereumservice.ts:14`) say the opposite.
   The models have no durations.
15. A libp2p peer that timed out once in a fetcher is never asked again, though
   its next stream brings it back into the pool: `expire()` leaves `idle` false
   (`Connect` of `Fetcher`). `OneRequestPerPeer` and `FetchResolves` name it.
16. A call of `update()` that is rejected leaves the Chain behind its database,
   after `open()` with no head at all, and `open()` does not read it again
   (`Failed` of `Chain`). `StaleOnlyIfSpoiled` and `TransportKnowsHead` name
   the condition.
17. A buffer of an LES client that is used up exactly, or whose client was
   dropped, is full at once (`Refilled` of `FlowControl`). `RateBound` counts it.

## 4. The proofs

TLAPS checks these for every value of the constants that the named assumptions
allow (sets of any size, also infinite ones unless said). Every invariant and
action property of a run that passes has its theorem.

| Theorem | Says | Argument |
|---|---|---|
| `FetcherProofs!TypeCorrect` | types | inductive with the length bounds the type needs |
| `FetcherProofs!TasksConserved` | no task is lost or doubled | `TaskConservation` with `eof` and `finish` implying that all is processed |
| `FetcherProofs!StoredAlwaysInOrder` | `store()` gets tasks in order, once | stored, being written, buffered by the Writable and by the Readable are consecutive parts of the sequence 0, 1, ... up to `processed` |
| `FetcherProofs!FinishedIsComplete` | `finish` means everything is stored | follows from the two above |
| `FetcherProofs!BacklogIsBounded` | requests and results ahead of the pipe are bounded by the two windows of `next()` | inductive: a task is issued near `processed` and while few chunks wait, and `dequeue()` moves `processed` and the end of the read buffer by the same number |
| `FetcherProofs!OneRequestEach` | a Peer object has one request of the fetcher, and is busy without one only if an expired job left it so | `BusyInv`: also late jobs keep their object busy, and no peer is both idle and cooling; `FreedInv`: only `expire()` takes a request without freeing its peer |
| `FetcherProofs!FetcherDownloads` | a fetcher is an `OrderedDownload` | refinement, one step per handler: each is a step of the abstract download or a stutter; `PhaseInv` ties the Writable to `running` |
| `FetcherProofs!NeverStuck` | a running fetcher always has something to wait for | what was processed and is not in the read buffer, the Writable or the store is the end of the range, so an empty pipe leaves the next task near `processed`; `FreedInv` leaves every peer of the pool free or cooling, but for those that `expire()` left busy |
| `ProtocolProofs!ResolversMatchCalls` | a call waits exactly when the resolver of its code is its own | inductive with types; the guard of `request()` makes it so |
| `ProtocolProofs!PunctualCallsGetTheirs` | while the calls of a code are punctual, each gets its own response | `Matched`: what the remote node still has, and the one response on its way, belong to the pending call of the code |
| `ProtocolProofs!ServedWithinRate` | the server serves its refills and the full buffers it began with | at the last request, what was spent and what is left is at most the fills and the refill up to then; the products need lemmas of their own |
| `ProtocolProofs!RepliesAreSafe` | the buffer told is there | a kept reply is the server's entry, seen not before it was written |
| `PeerNetProofs!MembersStayConnected` | devp2p members have the open connection | inductive with types |
| `PeerNetProofs!PoolStaysBounded` | the pool keeps `maxPeers` | cardinality of the set of members, which stays finite |
| `PeerNetProofs!ConnectionsAreHeard` | without libp2p an error finds a listener | members other than the new peer are other open connections, of which devp2p has less than `maxPeers`, so the pool had room |
| `PeerNetProofs!MembersListenedToOnce` | a devp2p member has the listeners of the pool once | an object whose `accept()` is under way was not announced, so its listeners are attached at its only announcement |
| `HandshakeProofs!AnnouncedWhole` | a devp2p peer is announced with all of its protocols | `Announced`: the event is the end of `bindProtocols()`, which needs every handshake bound; `Pending`: none is pending on a closed connection |
| `HandshakeProofs!OneAnswerEach` | a request gets at most one answer | the listeners are attached once, at the only `connected` event |
| `HandshakeProofs!FlagIsTrue` | the flag agrees with the events | inductive with the two above |
| `HandshakeProofs!AnnouncedIsHeard` | an error event throws only before the announcement | from the same invariant, which keeps the listeners of an announced peer |
| `HandshakeProofs!BindingIsPending` | `accept()` and `connect()` never wait for nothing | the last protocol to settle ends the binding; what was dialed stays so |
| `ChainProofs!KnownIsStored` | the Chain knows nothing that is not stored | inductive with types: what an update read before its awaits is still stored after them |
| `ChainProofs!ResolvedPutIsKnown` | a put that resolves has left its block in the cache | the update that follows a put reads a database that is at least at its target |
| `ChainProofs!StaleOnlyAfterFailure` | a Chain at rest is exact, unless a put, an update or a close failed, or a put met an update that had read | `ReadsFresh`: reads stay true until a put spoils them; `Refreshing`: while the cache differs, somebody is about to update, whose failure spoils it |
| `RoundProofs!HeaviestIsAsked` | `best()` returns a heaviest peer | loop invariant: `best` is a heaviest of the peers before `i`, or all of them are behind us |
| `RoundProofs!TasksAreTheRange` | the tasks cover the missing blocks | loop invariant: what is split and what is left make up the range |
| `RoundProofs!StatusIsUnderstood` | a status arrives as it was sent | `Value` undoes `Bytes` for every number and base, by induction; what is under way is what was said, encoded |
| `RoundProofs!RequestIsUnderstood` | a request asks for the blocks that were meant, and a LES reply goes to the last request | also: what has the length of a hash is no number (`NumbersAreShort`) |
| `SynchronizerProofs!NeverAGap` | no block is stored without its parent, and the Chain is not ahead | inductive with types: the next block of a running fetcher is at most one above the head, which never falls |
| `SynchronizerProofs!StopAlwaysReaches` | without overlapping loops the running fetcher is the one that `stop()` destroys | `CurrentRuns`: the only loop alive awaits whatever runs, so no other deletes the reference or makes a fetcher |
| `SynchronizerProofs!LoopsGoOn` | a running fetcher is awaited by exactly one loop, and a running synchronizer has a loop that looks for peers or will be forced to | a fetcher is let go of only by the loop that awaits it, after its end; a loop loses its timer by firing it or by its own end |
| `LifecycleProofs!HeadIsKnown` | a transport that accepts peers has a head to tell | inductive: a server passes its protocols only with the chain opened |
| `LifecycleProofs!FirstRunIsComplete` | a started client is complete until a `stop()` is through | `Starts`: no server is on its way while the client is started or a `stop()` runs; `FirstRun`: what the first run has opened |
| `LifecycleProofs!StoppedStaysQuiet` | nothing runs in a stopped client | `Stopping`: what a `stop()` under way has done, whoever else stops; `Resting`: no server is up or starts in a client that is not started, unless another one failed |
| `LifecycleProofs!RequestsMeetTheNode` | an RPC request meets an open client with its head and the ETH protocol | `CallsInv`: requests come when `run()` has made the server, and `ProgramInv`: then the head was read and stays so |
| `LifecycleProofs!StartingIsPending` | a `start()` that has not settled has a server that still starts | the last server that starts, or the first that fails, settles it |
| `LifecycleProofs!DirectoryOfItsOwn` | nodes of different networks or modes never share a directory | the length tells the main network from others, each element the rest |
| `LifecycleProofs!ServersMadeAsAsked` | each server has the options that were written for it, and the first of its bootnodes if that has an address | parsing undoes writing: `SplitJoined`, `SplitOneMore` and `SplitFirst` say what `Split` makes of texts put together, `WrittenParts` that the parts between the commas are the options and the further elements of lists, by induction over them |

Each safety property rests on an invariant that is inductive (`Init` gives it,
each action keeps it), built of named conjuncts; the proof has one step per
action.

The theorems of `Lifecycle`, `Config`, `Cli` and `Rpc` are about `SpecRpc`, the
node within the program and its RPC server, of which a program that uses the
client as it likes is the case `main = "library"`. `NodeStep` shows that the
program takes steps of the node only, or makes the Config; `ProgramInv`, that
the node is untouched until `run()` calls `open()`.

The assumptions are the `ASSUME`s of the modules: bounds are natural numbers,
water marks are positive, ids of the two transports differ, a byte has at least
two values, and no block number is as long as a hash. `ServersMadeAsAsked` has
the hypothesis `CommandsWritten`, which TLC finds true of the commands of
`MCLifecycle`. Without it the property is false (section 3, 13). Multiaddr bootnodes and
lists fulfil it; what becomes of those is the finding of `lifecycle_bootnodes`.
`BindingIsPending` has the hypothesis that the service has a protocol, as
both `FullEthereumService` and `LightEthereumService` have.

What a recursive function computes is proved from the equation that it solves.
A solution exists for every length, and two solutions agree, because a set of
natural numbers that is not empty has a least element (`LeastNumber`, from the
well-foundedness of `<` in the library): the least number for which the claim
fails would follow from those below it. This takes the place of the induction
theorems of the library, whose parameter is an operator.

Only model-checked is liveness, as the prover treats neither fairness nor
ENABLED: `FetchResolves`, `CallsSettle`, `LoopsEnd`, `CatchesUp`,
`LonelyPoolBootstraps`, `StopsResolve`, `InterruptExits`, `BindingEnds`,
`DialConnects`. Of some the safety core is proved: that what
they wait for is there, so that fairness does the rest. It is `NeverStuck` for
`FetchResolves`, `BindingIsPending` for `BindingEnds` and `DialConnects`, and
`LoopsGoOn` for `LoopsEnd` and `CatchesUp`.

The three properties of section 3 that the code violates have no theorem.

## 5. Plan

Done: the modules above, their runs, and the proofs of section 4.

Next, in this order:

1. The bootstrap of a lonely pool (`LonelyPoolBootstraps`): that the count of empty
   checks is behind only by bootstraps under way, as a theorem.
2. `Synchronizer` on top of `OrderedDownload`: that what it assumes of a fetcher
   is what `FetcherDownloads` proves.
3. `Protocols` of `Config`: that the services of a node are those of its mode.
