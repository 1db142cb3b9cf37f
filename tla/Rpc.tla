-------------------------------- MODULE Rpc --------------------------------
(***************************************************************************)
(* The RPC server of the program: lib/rpc/*.ts and lib/rpc/modules/*.ts,   *)
(* with the getters of lib/blockchain/chain.ts that they await.            *)
(*                                                                         *)
(* A request names a method and brings a sequence of parameters, of each   *)
(* of which its kind is known:                                             *)
(*   "hash"   0x and 64 digits          "hex"   0x and other digits        *)
(*   "bare"   two other characters and 64 digits                           *)
(*   "0xtext" 0x and what is no digit   "bool"  true or false              *)
(*   "other"  any other value                                              *)
(***************************************************************************)
EXTENDS Cli

CONSTANT Users      \* who sends requests, one at a time each

VARIABLE call       \* user -> how far the request is: "none", "reading", "over"
                    \* when it is answered, or "thrown" when it never will be

rpcVars == <<cliVars, call>>

Kinds == {"hash", "hex", "bare", "0xtext", "bool", "other"}

\* validators of rpc/validation.ts, by the kinds that they let pass
Hex       == {"hash", "hex", "0xtext"}
BlockHash == {"hash", "bare"}
Bool      == {"bool"}

\* getMethods(): how many parameters each method requires, and the validators
\* of each parameter.
Method(required, validators) == [required |-> required, validators |-> validators]

Methods ==
    [eth_blockNumber                    |-> Method(0, <<>>),
     eth_getBlockByNumber               |-> Method(2, <<{Hex}, {Bool}>>),
     eth_getBlockByHash                 |-> Method(2, <<{Hex, BlockHash}, {Bool}>>),
     eth_getBlockTransactionCountByHash |-> Method(1, <<{Hex, BlockHash}>>),
     eth_protocolVersion                |-> Method(0, <<>>),
     net_version                        |-> Method(0, <<>>),
     net_listening                      |-> Method(0, <<>>),
     net_peerCount                      |-> Method(0, <<>>),
     web3_clientVersion                 |-> Method(0, <<>>),
     web3_sha3                          |-> Method(1, <<{Hex}>>),
     admin_nodeInfo                     |-> Method(0, <<>>)]

\* The methods that await the chain.
Reads == {"eth_blockNumber", "eth_getBlockByNumber", "eth_getBlockByHash",
          "eth_getBlockTransactionCountByHash"}

\* middleware(): there are enough parameters, and each passes its validators.
Accepts(m, params) ==
    /\ Len(params) >= Methods[m].required
    /\ \A i \in DOMAIN Methods[m].validators :
          i \in DOMAIN params /\ \A v \in Methods[m].validators[i] : params[i] \in v

\* Methods that throw before they answer: _node.common is undefined for a
\* client, and so is the RlpxServer of a node that has none; BN may throw at
\* text that is no number, outside the try.
MustThrow(m) ==
    \/ m = "net_version"
    \/ m = "admin_nodeInfo" /\ "rlpx" \notin servers

MayThrow(m, params) ==
    \/ MustThrow(m)
    \/ m = "eth_getBlockByNumber" /\ params[1] = "0xtext"

InitRpc == InitCli /\ call = [u \in Users |-> "none"]

Is(u, at) == call' = [call EXCEPT ![u] = at]

\* Mutant of Taken: run() makes the server before it awaits the node.
TakenEarly(u) == /\ main \notin {"library", "options"} /\ asked.rpc /\ exited = "no"
                 /\ call[u] = "none"

\* The server takes requests from the time it listens to the end of the process,
\* also while the node stops.
Taken(u) == main = "ready" /\ asked.rpc /\ exited = "no" /\ call[u] = "none"

\* A request that does not pass is refused with an error.
Refuse(u, m, params) ==
    /\ Taken(u) /\ ~Accepts(m, params)
    /\ Is(u, "over") /\ UNCHANGED cliVars

\* The method runs, and answers in the same turn unless it awaits the chain.
Call(u, m, params) ==
    /\ Taken(u) /\ Accepts(m, params) /\ ~MustThrow(m)
    /\ Is(u, IF m \in Reads THEN "reading" ELSE "over") /\ UNCHANGED cliVars

\* The method throws, which rejects an async function; out of any other the
\* error may end the process.
Throw(u, m, params) ==
    /\ Taken(u) /\ Accepts(m, params) /\ MayThrow(m, params)
    /\ Is(u, "thrown")
    /\ exited' \in IF m = "net_version" THEN {"no", "killed"} ELSE {"no"}
    /\ UNCHANGED <<vars, asked, config, main>>

\* The database has been asked: the block that it has, or the error, is the
\* answer.
Read(u) ==
    /\ call[u] = "reading" /\ exited = "no"
    /\ Is(u, "over") /\ UNCHANGED cliVars

\* The user, answered or not, goes on to another request.
Forget(u) ==
    /\ call[u] \in {"over", "thrown"} /\ exited = "no"
    /\ Is(u, "none") /\ UNCHANGED cliVars

NextRpc ==
    \/ NextCli /\ UNCHANGED call
    \/ \E u \in Users :
          \/ \E m \in DOMAIN Methods, params \in UNION {[1 .. n -> Kinds] : n \in 0 .. 2} :
                Refuse(u, m, params) \/ Call(u, m, params) \/ Throw(u, m, params)
          \/ Read(u) \/ Forget(u)

SpecRpc == InitRpc /\ [][NextRpc]_rpcVars /\ FairnessCli

-----------------------------------------------------------------------------
(* Properties *)

\* What the methods rely on without looking: whenever there is a request, the
\* client is open, its chain has the head that admin_nodeInfo reads without
\* waiting for it, and its service the ETH protocol that the module eth asks for
\* its versions.  A server that is made too early, a start() that is taken for
\* done after an open() that failed, or a stop() could undo it.
RequestsMeetNode ==
    \A u \in Users :
        call[u] # "none" => clientOpened /\ chain = "loaded" /\ "eth" \in config.protocols
=============================================================================
