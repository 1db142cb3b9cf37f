------------------------------- MODULE PeerNet -------------------------------
(***************************************************************************)
(* How nodes become members of the PeerPool: lib/net/peerpool.ts, composed *)
(* with the two servers that feed it, lib/net/server/rlpxserver.ts and     *)
(* lib/net/server/libp2pserver.ts, and with the handshake that both wait   *)
(* for (accept() and bindProtocols() of the peers, Protocol.handshake()).  *)
(*                                                                         *)
(* A server makes Peer objects for an id: a new one per RLPx connection,   *)
(* and one or more per libp2p node.  The object <<id, n>> is the n-th one  *)
(* of its id.  An action is one handler, up to its return or its await.    *)
(***************************************************************************)
EXTENDS Naturals, FiniteSets

CONSTANTS
    RlpxIds,       \* ids of the nodes met over devp2p
    Libp2pIds,     \* ids of the nodes met over libp2p
    MaxPeers,      \* config.maxPeers
    MaxObjects,    \* bound of the model: Peer objects per id
    MaxListeners   \* bound of the model: listeners on a libp2p object, and
                   \* streams about to add some

ASSUME PeerNetAssumption ==
    /\ RlpxIds \cap Libp2pIds = {}
    /\ MaxPeers \in Nat /\ MaxObjects \in Nat /\ MaxListeners \in Nat

VARIABLES
    pool,       \* PeerPool.pool: id -> number of the object it holds, or 0
    heard,      \* object -> pool listeners on its 'message' and 'error' events
    made,       \* id -> number of Peer objects made
    conn,       \* RLPx id -> object of its devp2p connection, or 0
    peers,      \* this.peers of both servers: id -> object, or 0
    accepting,  \* RLPx objects whose accept() waits for a status
    dialing,    \* libp2p objects whose bindProtocols() has not ended
    streams,    \* libp2p object -> accept() calls that have not ended
    banned,     \* ids whose ban is running
    crashed     \* an 'error' event met no listener: Node throws it

poolV  == <<pool, heard>>
rlpxV  == <<conn, accepting>>
libp2pV == <<dialing, streams>>
vars   == <<pool, heard, made, conn, peers, accepting, dialing, streams, banned,
            crashed>>

Ids           == RlpxIds \cup Libp2pIds
Objects       == Ids \X (1 .. MaxObjects)
RlpxObjects   == RlpxIds \X (1 .. MaxObjects)
Libp2pObjects == Libp2pIds \X (1 .. MaxObjects)

\* The pool is open: EthereumClient.open() opens it before start() starts the
\* servers.
Init ==
    /\ pool = [id \in Ids |-> 0] /\ heard = [o \in Objects |-> 0]
    /\ made = [id \in Ids |-> 0]
    /\ conn = [id \in RlpxIds |-> 0] /\ peers = [id \in Ids |-> 0]
    /\ accepting = {} /\ dialing = {} /\ streams = [o \in Libp2pObjects |-> 0]
    /\ banned = {} /\ crashed = FALSE

Pooled == {id \in Ids : pool[id] # 0}
Size   == Cardinality(Pooled)
Live   == {id \in RlpxIds : conn[id] # 0}

-----------------------------------------------------------------------------
(* PeerPool *)

\* Mutant of Connected: one peer too many.
ConnectedOffByOne(o) ==
    IF Size > MaxPeers
    THEN UNCHANGED poolV
    ELSE /\ heard' = [heard EXCEPT ![o] = @ + 1]
         /\ pool' = IF pool[o[1]] = 0 THEN [pool EXCEPT ![o[1]] = o[2]] ELSE pool

\* The 'connected' event of a server, handled by connected(): unless the pool
\* is full, listeners are attached to the object, and add() puts it in the
\* pool if its id is not there yet.
Connected(o) ==
    IF Size >= MaxPeers
    THEN UNCHANGED poolV
    ELSE /\ heard' = [heard EXCEPT ![o] = @ + 1]
         /\ pool' = IF pool[o[1]] = 0 THEN [pool EXCEPT ![o[1]] = o[2]] ELSE pool

\* remove(): by id, whichever object the pool holds.
Remove(id) == pool' = [pool EXCEPT ![id] = 0]

\* ban(): at the server, and out of the pool.
Ban(id) == banned' = banned \cup {id} /\ Remove(id)

\* A fetcher or the service bans a peer that it got from the pool, maybe long
\* ago.
BanByUser(o) ==
    /\ heard[o] > 0
    /\ Ban(o[1])
    /\ UNCHANGED <<heard, made, rlpxV, peers, libp2pV, crashed>>

\* The time of the ban is over.
Unban(id) ==
    /\ id \in banned /\ banned' = banned \ {id}
    /\ UNCHANGED <<poolV, made, rlpxV, peers, libp2pV, crashed>>

-----------------------------------------------------------------------------
(* RlpxServer *)

\* 'peer:added': devp2p has a new connection, of which it holds at most
\* MaxPeers and one per id.  accept() sends our status and awaits theirs.
RlpxAdded(id) ==
    /\ conn[id] = 0 /\ Cardinality(Live) < MaxPeers /\ made[id] < MaxObjects
    /\ made' = [made EXCEPT ![id] = @ + 1]
    /\ conn' = [conn EXCEPT ![id] = made[id] + 1]
    /\ accepting' = accepting \cup {<<id, made[id] + 1>>}
    /\ UNCHANGED <<poolV, peers, libp2pV, banned, crashed>>

\* Mutant of RlpxAccepted: the handshake may end after its connection.
RlpxAcceptedLate(o) ==
    /\ o \in accepting /\ accepting' = accepting \ {o}
    /\ peers' = [peers EXCEPT ![o[1]] = o[2]]
    /\ Connected(o)
    /\ UNCHANGED <<made, conn, libp2pV, banned, crashed>>

\* Mutant of RlpxAccepted: each protocol announces the peer.
RlpxAcceptedEach(o) ==
    /\ o \in accepting /\ conn[o[1]] = o[2]
    /\ accepting' \in {accepting, accepting \ {o}}
    /\ peers' = [peers EXCEPT ![o[1]] = o[2]]
    /\ Connected(o)
    /\ UNCHANGED <<made, conn, libp2pV, banned, crashed>>

\* The last status arrives, over an open connection.  Promises pass it on to
\* the end of the 'peer:added' handler without another event in between: the
\* server keeps the peer and emits 'connected'.
RlpxAccepted(o) ==
    /\ o \in accepting /\ conn[o[1]] = o[2]
    /\ accepting' = accepting \ {o}
    /\ peers' = [peers EXCEPT ![o[1]] = o[2]]
    /\ Connected(o)
    /\ UNCHANGED <<made, conn, libp2pV, banned, crashed>>

\* 'Handshake timed out': accept() rejects, and the server ignores the error.
\* The connection is left as it is.
RlpxTimeout(o) ==
    /\ o \in accepting /\ accepting' = accepting \ {o}
    /\ UNCHANGED <<poolV, made, conn, peers, libp2pV, banned, crashed>>

\* Mutant of RlpxRemoved: the pool is not told.
RlpxRemovedKeepsMember(id) ==
    /\ conn[id] # 0 /\ conn' = [conn EXCEPT ![id] = 0]
    /\ peers' = [peers EXCEPT ![id] = 0]
    /\ UNCHANGED <<poolV, made, accepting, libp2pV, banned, crashed>>

\* 'peer:removed': the connection is over, and with it the peer that the
\* server has for the id.
RlpxRemoved(id) ==
    /\ conn[id] # 0 /\ conn' = [conn EXCEPT ![id] = 0]
    /\ IF peers[id] # 0
       THEN peers' = [peers EXCEPT ![id] = 0] /\ Remove(id)
       ELSE UNCHANGED <<peers, pool>>
    /\ UNCHANGED <<heard, made, accepting, libp2pV, banned, crashed>>

\* 'peer:error': emitted again on the peer, where the pool bans a member.
RlpxError(id) ==
    /\ conn[id] # 0 /\ peers[id] # 0
    /\ IF heard[<<id, peers[id]>>] = 0
       THEN crashed' = TRUE /\ UNCHANGED <<pool, banned>>
       ELSE /\ IF pool[id] # 0 THEN Ban(id) ELSE UNCHANGED <<pool, banned>>
            /\ UNCHANGED crashed
    /\ UNCHANGED <<heard, made, rlpxV, peers, libp2pV>>

-----------------------------------------------------------------------------
(* Libp2pServer *)

\* createPeer(): the server keeps only the newest object of an id.
CreatePeer(id) ==
    /\ made[id] < MaxObjects
    /\ made' = [made EXCEPT ![id] = @ + 1]
    /\ peers' = [peers EXCEPT ![id] = made[id] + 1]

\* 'peer:discovery' of a node that is neither known nor banned: it is dialed.
Libp2pDiscovered(id) ==
    /\ peers[id] = 0 /\ id \notin banned
    /\ CreatePeer(id)
    /\ dialing' = dialing \cup {<<id, made[id] + 1>>}
    /\ UNCHANGED <<poolV, rlpxV, streams, banned, crashed>>

\* bindProtocols() ended, whichever protocols it could bind: 'connected'.
Libp2pDialed(o) ==
    /\ o \in dialing /\ dialing' = dialing \ {o}
    /\ Connected(o)
    /\ UNCHANGED <<made, rlpxV, peers, streams, banned, crashed>>

\* 'peer:connect': another object takes the place of the one the server has.
Libp2pConnect(id) ==
    /\ CreatePeer(id)
    /\ UNCHANGED <<poolV, rlpxV, libp2pV, banned, crashed>>

\* A node opens a stream for one of our protocols: accept() if it is known.
Libp2pStream(id) ==
    /\ peers[id] # 0
    /\ LET o == <<id, peers[id]>>
       IN  /\ heard[o] + streams[o] < MaxListeners
           /\ streams' = [streams EXCEPT ![o] = @ + 1]
    /\ UNCHANGED <<poolV, made, rlpxV, peers, dialing, banned,
                   crashed>>

\* accept() ended: 'connected', for every stream.
Libp2pAccepted(o) ==
    /\ streams[o] > 0 /\ streams' = [streams EXCEPT ![o] = @ - 1]
    /\ Connected(o)
    /\ UNCHANGED <<made, rlpxV, peers, dialing, banned, crashed>>

\* The handshake of the stream timed out.
Libp2pTimeout(o) ==
    /\ streams[o] > 0 /\ streams' = [streams EXCEPT ![o] = @ - 1]
    /\ UNCHANGED <<poolV, made, rlpxV, peers, dialing, banned,
                   crashed>>

-----------------------------------------------------------------------------

Members == \/ \E o \in Objects : BanByUser(o)
           \/ \E id \in Ids : Unban(id)
Rlpx    == \/ \E id \in RlpxIds : RlpxAdded(id) \/ RlpxRemoved(id) \/ RlpxError(id)
           \/ \E o \in RlpxObjects : RlpxAccepted(o) \/ RlpxTimeout(o)
Libp2p  == \/ \E id \in Libp2pIds : \/ Libp2pDiscovered(id) \/ Libp2pConnect(id)
                                    \/ Libp2pStream(id)
           \/ \E o \in Libp2pObjects : \/ Libp2pDialed(o) \/ Libp2pAccepted(o)
                                       \/ Libp2pTimeout(o)

Next == ~crashed /\ (Members \/ Rlpx \/ Libp2p)

Spec == Init /\ [][Next]_vars

-----------------------------------------------------------------------------
(* Properties *)

TypeOK ==
    /\ pool \in [Ids -> 0 .. MaxObjects] /\ peers \in [Ids -> 0 .. MaxObjects]
    /\ made \in [Ids -> 0 .. MaxObjects] /\ conn \in [RlpxIds -> 0 .. MaxObjects]
    /\ crashed \in BOOLEAN
    /\ heard \in [Objects -> Nat] /\ streams \in [Libp2pObjects -> Nat]
    /\ accepting \in SUBSET RlpxObjects /\ dialing \in SUBSET Libp2pObjects
    /\ banned \in SUBSET Ids

\* A member of the pool that came over devp2p is the peer of the connection
\* that is open for its id: no connection that closed during its handshake,
\* and no earlier object of the id, leaves a member nobody can reach.
MembersAreConnected ==
    \A id \in RlpxIds : pool[id] # 0 => pool[id] = peers[id] /\ pool[id] = conn[id]

\* The two transports share maxPeers, whatever is banned or replaced.
PoolBounded == Size <= MaxPeers

\* Without libp2p no error of a connection meets a peer without listeners:
\* devp2p and the pool have the same limit, and the pool holds open
\* connections only, so it is never full when devp2p has accepted another peer.
UnheardOnlyBesideLibp2p ==
    crashed => \E o \in Libp2pObjects : heard[o] > 0

\* The pool listens to each of its members that came over devp2p, and once:
\* the server announces an object when its handshakes are over, all together,
\* so no message of a member is lost to the service or handled twice.
MembersHeardOnce ==
    \A id \in RlpxIds : pool[id] # 0 => heard[<<id, pool[id]>>] = 1

\* What the doc comment of ban() says: "Ban peer from being added to the pool
\* for a period of time".
BannedStayOut == \A id \in Libp2pIds : id \in banned => pool[id] = 0
=============================================================================
