------------------------------ MODULE Handshake ------------------------------
(***************************************************************************)
(* One Peer, from the first byte on its channels to the answers it gets:   *)
(* the handshake of each protocol (lib/net/protocol/protocol.ts and the    *)
(* senders), bindProtocol() and bindProtocols() of the peers in            *)
(* lib/net/peer/, the servers that wait for them and announce the peer, the *)
(* listeners of the PeerPool, and the dispatch of requests by the service. *)
(*                                                                         *)
(* kind tells how the peer came to be:                                     *)
(*   "accept"   RlpxServer has a new devp2p connection: accept()           *)
(*   "connect"  RlpxPeer.connect(), for a program that uses it directly    *)
(*   "dial"     Libp2pServer discovered it; it may also open streams to us *)
(* Over devp2p a protocol has one channel, over libp2p the stream that we  *)
(* dial ("out") and one that the node opens ("in").                        *)
(*                                                                         *)
(* The pool has room for the peer and the service runs; PeerNet has the    *)
(* limit of the pool and several objects for an id, Lifecycle the rest.    *)
(***************************************************************************)
EXTENDS Naturals, Sequences, SequencesExt

CONSTANTS
    Protocols,   \* protocols of the service
    MaxAsked     \* bound of the model: requests of the node per protocol

ASSUME HandshakeAssumption == MaxAsked \in Nat

Channels == Protocols \X {"out", "in"}

VARIABLES
    kind,     \* "accept", "connect" or "dial", for good
    hs,       \* channel -> "none", "dialing", "waiting" (its timer runs),
              \* "resolved" (promises pending), "bound", "failed" or "stuck"
    link,     \* the connection is open
    run,      \* bindProtocols(): "idle", "binding" or "ended"
    field,    \* peer[name]: protocol -> channel, by its way, or "none"
    flag,     \* peer.connected
    server,   \* peer.server is set
    told,     \* events emitted about the peer
    heard,    \* pool listeners on its 'message' and 'error' events
    member,   \* the pool holds it
    asked,    \* protocol -> requests that the node sent
    serving,  \* protocol -> handleEth() or handleLes() calls that await the chain
    answers,  \* protocol -> answers that were sent
    thrown    \* an 'error' event met no listener: emit() throws it

statusV == <<hs, field>>
peerV   == <<run, flag, server>>
poolV   == <<told, heard, member>>
serveV  == <<asked, serving, answers>>
vars    == <<kind, statusV, link, peerV, poolV, serveV, thrown>>

Init ==
    /\ kind \in {"accept", "connect", "dial"}
    /\ hs = [c \in Channels |-> "none"] /\ field = [p \in Protocols |-> "none"]
    /\ link = FALSE /\ run = "idle" /\ flag = FALSE /\ server = FALSE
    /\ told = <<>> /\ heard = 0 /\ member = FALSE /\ thrown = FALSE
    /\ asked = [p \in Protocols |-> 0] /\ serving = [p \in Protocols |-> 0]
    /\ answers = [p \in Protocols |-> 0]

-----------------------------------------------------------------------------
(* The outcome of bindProtocols() and accept() *)

\* Mutant of AllBound: the first status is enough, as with Promise.race().
AnyBound == \E c \in Channels : hs'[c] = "bound"

\* RlpxPeer.bindProtocols(): Promise.all() of the protocols both sides have.
AllBound == \A c \in Channels : hs'[c] \in {"bound", "none"}

\* Mutant of DialOver: a protocol that could not be bound is not caught.
DialOverUncaught == \A p \in Protocols : hs'[<<p, "out">>] = "bound"

\* Libp2pPeer.bindProtocols(): every protocol was tried, and a failure caught.
DialOver == \A p \in Protocols : hs'[<<p, "out">>] \in {"bound", "failed"}

\* Mutant of Connected: the pool keeps the peer without listening to it.
ConnectedDeaf ==
    /\ told' = Append(told, "connected") /\ server' = (kind # "connect")
    /\ member' = (kind # "connect") /\ UNCHANGED heard

\* 'connected' is emitted: by connect() itself, or by the server once the peer
\* has it, and then connected() of the pool attaches listeners and adds it.
Connected ==
    /\ told' = Append(told, "connected") /\ server' = (kind # "connect")
    /\ IF kind = "connect" THEN UNCHANGED <<heard, member>>
       ELSE heard' = heard + 1 /\ member' = TRUE

\* Mutant of Connects: 'connected' at every protocol that is bound.
ConnectsEach(c) == hs'[c] = "bound"

\* bindProtocol() of channel c has settled, and the peer is announced: for
\* every stream that the node opened, once for what we dialed or accepted.
Connects(c) ==
    IF c[2] = "in" THEN hs'[c] = "bound"
    ELSE run = "binding" /\ (IF kind = "dial" THEN DialOver ELSE AllBound)

\* The first failure rejects accept() or connect(): 'error'.
Rejects(c) == kind # "dial" /\ run = "binding" /\ hs'[c] = "failed"

Settled(c) ==
    \/ /\ Connects(c) /\ Connected
       /\ run'  = IF c[2] = "out" THEN "ended" ELSE run
       /\ flag' = (flag \/ c[2] = "out")
    \/ /\ Rejects(c)
       /\ told' = Append(told, "error") /\ run' = "ended"
       /\ UNCHANGED <<flag, server, heard, member>>
    \/ /\ ~Connects(c) /\ ~Rejects(c)
       /\ UNCHANGED <<peerV, poolV>>

-----------------------------------------------------------------------------
(* The handshake of a channel *)

\* Sender, BoundProtocol and handshake() are made in one go.  What they meet:
\* no status yet, a status that sender.status has already, one that
\* decodeStatus() throws on, or a status of ours that cannot be sent.
Seen == {"none", "good", "bad"} \cup (IF kind = "dial" THEN {} ELSE {"unsent"})
Begun(seen) == CASE seen = "none" -> "waiting" [] seen = "good" -> "resolved"
                 [] OTHER -> "failed"

\* 'peer:added': devp2p names the protocols that both sides have.
RlpxBind ==
    /\ kind # "dial" /\ run = "idle" /\ link' = TRUE
    /\ \E shared \in (SUBSET Protocols) \ {{}} : \E seen \in [shared -> Seen] :
          hs' = [c \in Channels |-> IF c[1] \in shared /\ c[2] = "out"
                                    THEN Begun(seen[c[1]]) ELSE "none"]
    /\ IF \E c \in Channels : hs'[c] = "failed"
       THEN run' = "ended" /\ told' = Append(told, "error")
       ELSE run' = "binding" /\ UNCHANGED told
    /\ UNCHANGED <<kind, field, flag, server, heard, member, serveV, thrown>>

\* 'peer:discovery': every protocol is dialed.
Dial ==
    /\ kind = "dial" /\ run = "idle" /\ run' = "binding" /\ link' = TRUE
    /\ hs' = [c \in Channels |-> IF c[2] = "out" THEN "dialing" ELSE "none"]
    /\ UNCHANGED <<kind, field, flag, server, poolV, serveV, thrown>>

\* asyncDialProtocol() resolves, and the handshake of the stream begins.
Dialed(p) ==
    /\ hs[<<p, "out">>] = "dialing"
    /\ \E seen \in Seen : hs' = [hs EXCEPT ![<<p, "out">>] = Begun(seen)]
    /\ Settled(<<p, "out">>)
    /\ UNCHANGED <<kind, link, field, serveV, thrown>>

\* asyncDialProtocol() rejects: the node does not have the protocol.
DialFailed(p) ==
    /\ hs[<<p, "out">>] = "dialing"
    /\ hs' = [hs EXCEPT ![<<p, "out">>] = "failed"]
    /\ Settled(<<p, "out">>)
    /\ UNCHANGED <<kind, link, field, serveV, thrown>>

\* The node opens a stream for a protocol: accept().
Stream(p) ==
    /\ kind = "dial" /\ run # "idle" /\ hs[<<p, "in">>] = "none"
    /\ \E seen \in Seen : hs' = [hs EXCEPT ![<<p, "in">>] = Begun(seen)]
    /\ UNCHANGED <<kind, link, field, peerV, poolV, serveV, thrown>>

\* Mutant of Status: a status is taken from a connection that is over.
StatusLate(c) ==
    /\ hs[c] = "waiting"
    /\ \E s \in {"resolved", "stuck"} : hs' = [hs EXCEPT ![c] = s]
    /\ UNCHANGED <<kind, link, field, peerV, poolV, serveV, thrown>>

\* The 'status' event clears the timer.  When decodeStatus() throws there, it
\* throws to the emitter of the event, and the promise never settles.
Status(c) ==
    /\ hs[c] = "waiting" /\ link
    /\ \E s \in {"resolved", "stuck"} : hs' = [hs EXCEPT ![c] = s]
    /\ UNCHANGED <<kind, link, field, peerV, poolV, serveV, thrown>>

\* Mutant of Timeout: the timer is not set on a connection that is over.
TimeoutWhileUp(c) ==
    /\ hs[c] = "waiting" /\ link /\ hs' = [hs EXCEPT ![c] = "failed"]
    /\ Settled(c)
    /\ UNCHANGED <<kind, link, field, serveV, thrown>>

\* 'Handshake timed out'; a status that comes later is ignored.
Timeout(c) ==
    /\ hs[c] = "waiting" /\ hs' = [hs EXCEPT ![c] = "failed"]
    /\ Settled(c)
    /\ UNCHANGED <<kind, link, field, serveV, thrown>>

\* The promises run: bind() sets peer[name], bindProtocol() listens to the
\* bound protocol, and whoever waits for it goes on.
Bind(c) ==
    /\ hs[c] = "resolved" /\ hs' = [hs EXCEPT ![c] = "bound"]
    /\ field' = [field EXCEPT ![c[1]] = c[2]]
    /\ Settled(c)
    /\ UNCHANGED <<kind, link, serveV, thrown>>

-----------------------------------------------------------------------------
(* What comes over a channel, and the end of the connection *)

Open(c) == link /\ hs[c] \notin {"none", "dialing"}

\* A request.  It is lost on a bound protocol that nobody listens to yet;
\* otherwise each listener of the pool hands it to the service.
Request(c) ==
    /\ Open(c) /\ asked[c[1]] < MaxAsked
    /\ asked' = [asked EXCEPT ![c[1]] = @ + 1]
    /\ serving' = IF hs[c] = "bound" /\ member
                  THEN [serving EXCEPT ![c[1]] = @ + heard] ELSE serving
    /\ UNCHANGED <<kind, statusV, link, peerV, poolV, answers, thrown>>

\* The chain was read: the answer goes out.
Answer(p) ==
    /\ serving[p] > 0 /\ serving' = [serving EXCEPT ![p] = @ - 1]
    /\ answers' = [answers EXCEPT ![p] = @ + 1]
    /\ UNCHANGED <<kind, statusV, link, peerV, poolV, asked, thrown>>

\* An error of the stream, or a message that cannot be decoded: an 'error' of
\* the bound protocol, which the peer emits again, and for which the pool bans
\* a member.
Broken(c) ==
    /\ Open(c)
    /\ thrown' = (thrown \/ hs[c] # "bound" \/ (kind # "connect" /\ heard = 0))
    /\ member' = (member /\ ~(hs[c] = "bound" /\ server))
    /\ UNCHANGED <<kind, statusV, link, peerV, told, heard, serveV>>

\* 'peer:removed', after the promises that were pending.  connect() notes it
\* on the peer; the RlpxServer lets the pool remove it.
Removed ==
    /\ kind # "dial" /\ link /\ \A c \in Channels : hs[c] # "resolved"
    /\ link' = FALSE /\ member' = FALSE
    /\ flag' = (flag /\ kind # "connect")
    /\ told' = IF kind = "connect" THEN Append(told, "disconnected") ELSE told
    /\ UNCHANGED <<kind, statusV, run, server, heard, serveV, thrown>>

-----------------------------------------------------------------------------

Next ==
    \/ RlpxBind \/ Dial \/ Removed
    \/ \E p \in Protocols : Dialed(p) \/ DialFailed(p) \/ Stream(p) \/ Answer(p)
    \/ \E c \in Channels : \/ Status(c) \/ Timeout(c) \/ Bind(c)
                           \/ Request(c) \/ Broken(c)

Spec == Init /\ [][Next]_vars

\* Promises run, timers fire, and libp2p reports the outcome of a dial.
FairSpec ==
    /\ Spec
    /\ \A c \in Channels : WF_vars(Bind(c)) /\ WF_vars(Timeout(c))
    /\ \A p \in Protocols : WF_vars(Dialed(p) \/ DialFailed(p))

-----------------------------------------------------------------------------
(* Properties *)

Stuck     == \E c \in Channels : hs[c] = "stuck"
Has(event) == event \in ToSet(told)

\* A devp2p peer is announced when every protocol that both sides have is
\* bound, in whatever order the statuses, the timeouts and the end of the
\* connection came: best() and tasks() never meet one without its status.
ConnectedIsWhole ==
    kind # "dial" /\ Has("connected") => \A c \in Channels : hs[c] \in {"bound", "none"}

\* A devp2p peer never gets more answers than it asked for: handlers that
\* await the chain, bans and the end of the connection do not change that.
AnsweredOnce ==
    kind # "dial" => \A p \in Protocols : answers[p] + serving[p] <= asked[p]

\* Once a devp2p peer is announced, no error on its channels is thrown.
ThrowsOnlyWhileBinding ==
    [][kind # "dial" /\ thrown' /\ ~thrown => ~Has("connected")]_vars

\* peer.connected says what the last event said to the user of connect(): a
\* status or timeout that comes after the end of the connection does not
\* bring the peer back.
FlagFollowsEvents ==
    kind = "connect" => flag = (Has("connected") /\ ~Has("disconnected"))

\* accept() and connect() end, also when the connection does not last, unless
\* a status could not be decoded.
BindingEnds == run = "binding" ~> run = "ended" \/ Stuck

\* A libp2p node that was discovered is announced, whichever of its protocols
\* could not be dialed or timed out, unless a status could not be decoded.
DialConnects == kind = "dial" /\ run = "binding" ~> Has("connected") \/ Stuck
=============================================================================
