----------------------------- MODULE MCLifecycle -----------------------------
(***************************************************************************)
(* A small instance, for TLC, of a node and the program around it, with    *)
(* the commands of the README of the repository and some others.           *)
(***************************************************************************)
EXTENDS Rpc

CONSTANTS s1, s2, u1

MCStops == {s1, s2}
MCUsers == {u1}
MCHosts == {"10.0.0.1"}
MCNumbers == {"1234", "30303", "30304"}
MCBootstrapNodes == <<[id |-> None, ip |-> "10.0.0.9", port |-> "30303"]>>

Command(transports, syncmode, network) ==
    [transports |-> transports, syncmode |-> syncmode, network |-> network,
     lightserv |-> FALSE, rpc |-> FALSE, params |-> FALSE]

Rlpx(options)   == [name |-> "rlpx", options |-> options]
Libp2p(options) == [name |-> "libp2p", options |-> options]

AnAddress  == <<"multiaddrs", <<"/ip4/127.0.0.1/tcp/50505/ws">>>>
AUrl       == <<"bootnodes", <<"enode", ":", "abc", "@", "10.0.0.1", ":", "1234">>>>
TheirUrl   == <<"/ip4/127.0.0.1/tcp/50505/ws/ipfs/Qm">>

\* The first and the second client of the README's first example.
FirstClient ==
    [Command(<<Rlpx(<<>>), Libp2p(<<AnAddress>>)>>, "full", "rinkeby") EXCEPT !.lightserv = TRUE]
SecondClient ==
    Command(<<Libp2p(<<<<"multiaddrs", <<"/ip4/0.0.0.0/tcp/50506">>>>,
                       <<"bootnodes", TheirUrl>>>>)>>, "light", "rinkeby")

MCReadme == {FirstClient, SecondClient}

MCCommands ==
    {Command(<<Rlpx(<<<<"port", <<"30303">>>>>>), Libp2p(<<>>)>>, "full", "mainnet"),
     FirstClient, SecondClient,
     [Command(<<Rlpx(<<<<"bootnodes", <<"10.0.0.1", ":", "1234">>>>,
                       <<"", <<"10.0.0.1", ":", "30304">>>>,
                       <<"port", <<"30304">>>>>>)>>, "full", "mainnet")
         EXCEPT !.rpc = TRUE],
     [Command(<<Libp2p(<<AUrl, <<"", TheirUrl>>, AnAddress>>)>>, "full", "mainnet")
         EXCEPT !.rpc = TRUE],
     [Command(<<Rlpx(<<>>)>>, "light", "mainnet") EXCEPT !.rpc = TRUE],
     [Command(<<>>, "full", "rinkeby") EXCEPT !.params = TRUE]}

\* They are commands that the theorem about ServersAsAsked is about.
ASSUME CommandsAreWritten == CommandsWritten
=============================================================================
