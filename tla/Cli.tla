-------------------------------- MODULE Cli --------------------------------
(***************************************************************************)
(* The program around a node: run() of bin/cli.ts, from its options to the *)
(* end of the process.  It opens and starts the client of Lifecycle once,  *)
(* opens the RPC server, and stops the client when it is interrupted.      *)
(*                                                                         *)
(* A program that uses the library calls the client as it likes: main is   *)
(* then "library", and the process does not end.                           *)
(***************************************************************************)
EXTENDS Lifecycle, Config, Sequences

CONSTANT Commands   \* records: what the user asks for, and writes as options

VARIABLES
    asked,          \* the command
    config,         \* the Config of the client, once there is one: its
                    \* servers, protocols and directory
    main,           \* where run() is; "ready" when it is over, "failed" when it
                    \* was rejected
    exited          \* "no", "clean" after a stop(), "killed" by the signal

cliV    == <<asked, config, main, exited>>
cliVars == <<vars, cliV>>

NoConfig == [servers |-> <<>>, protocols |-> {}, directory |-> <<>>]

InitCli ==
    /\ Init /\ asked \in Commands /\ config = NoConfig /\ exited = "no"
    /\ \/ main = "library" /\ asked = CHOOSE c \in Commands : TRUE
       \/ main = "options" /\ servers = {}

-----------------------------------------------------------------------------
(* Up to the running node *)

\* The text of a transport and its options, each a pair of key and value.  One
\* without a key is a further element of a list: those of --transports have the
\* comma between them that is between options.
Label(key) == IF key = "" THEN <<>> ELSE <<key, "=">>

Written(t) ==
    LET option(i) == (IF i = 1 THEN <<":">> ELSE <<",">>)
                     \o Label(t.options[i][1]) \o t.options[i][2]
        text[i \in 0 .. Len(t.options)] ==
            IF i = 0 THEN <<t.name>> ELSE text[i - 1] \o option(i)
    IN  text[Len(t.options)]

NewConfig(c) ==
    [servers   |-> Servers([i \in 1 .. Len(c.transports) |-> Written(c.transports[i])]),
     protocols |-> Protocols(c.syncmode, c.lightserv),
     directory |-> SyncDataDirectory(c.syncmode, c.network)]

\* run() makes the Config.  With --params it is rejected then: parseParams() is
\* given the path, which is not the object it looks for.
Configure ==
    /\ main = "options" /\ exited = "no"
    /\ config' = NewConfig(asked)
    /\ servers' = {config'.servers[i].name : i \in DOMAIN config'.servers}
    /\ main' = IF asked.params THEN "failed" ELSE "configured"
    /\ UNCHANGED <<asked, exited, callsV, clientV, serviceOpened, runV, answering, poolV,
                   chain, serverV, checkV, historyV>>

\* The RPC server is made of the ETH protocol of the service, and without it
\* run() is rejected; otherwise it listens, and interrupts are handled.
Listens == IF asked.rpc /\ "eth" \notin config.protocols THEN "failed" ELSE "ready"

\* What run() does when the call that it awaits is settled.
Awaited ==
    IF main \notin {"opening", "starting"} \/ caller' # "nothing" THEN main
    ELSE IF main = "opening" /\ clientOpened' THEN "opened"
    ELSE IF main = "starting" /\ clientStarted' THEN Listens
    ELSE "failed"

\* Mutant of Exit: the process is left to end by itself.
ExitWhenIdle == main = "ready" /\ ~clientStarted' /\ bootstraps = 0

\* The first stop() that resolves ends the process.
Exit == main = "ready" /\ ~clientStarted'

\* A step of the client, while there is a process.
Runs(step) ==
    /\ exited = "no" /\ step
    /\ main' = Awaited /\ exited' = IF Exit THEN "clean" ELSE "no"
    /\ UNCHANGED <<asked, config>>

\* run() calls open(), and start() in the turn in which open() resolves.
CallOpen == main = "configured" /\ exited = "no" /\ Open
            /\ main' = "opening" /\ UNCHANGED <<asked, config, exited>>

CallStart == main = "opened" /\ exited = "no" /\ Start
             /\ main' = (IF clientStarted' THEN Listens ELSE "starting")
             /\ UNCHANGED <<asked, config, exited>>

-----------------------------------------------------------------------------
(* Interrupts *)

\* Until run() is over, and for good when it was rejected, nobody handles the
\* signal: the process is killed.
Killed ==
    /\ main \notin {"library", "ready"} /\ exited = "no"
    /\ exited' = "killed" /\ UNCHANGED <<vars, asked, config, main>>

\* The handler closes a server that it makes for it, not the one that listens,
\* and calls stop().
Interrupt(s) == main = "ready" /\ Runs(Stop(s))

-----------------------------------------------------------------------------

Ended == exited # "no" /\ UNCHANGED cliVars

NextCli ==
    \/ Configure \/ CallOpen \/ CallStart \/ Killed
    \/ \E s \in Stops : Interrupt(s)
    \/ main = "library" /\ Runs(Next)
    \/ main # "library" /\ Runs(Settle \/ Peers)
    \/ Ended

\* Timers fire and promises settle.
FairnessCli ==
    /\ WF_cliVars(Runs(ChainOpened \/ OpenFails))
    /\ \A x \in Transports :
          WF_cliVars(Runs(ProtocolsOpened(x) \/ ServerStarted(x) \/ ServerFails(x)))
    /\ \A s \in Stops : WF_cliVars(Runs(SyncStopped(s)))
                        /\ WF_cliVars(Runs(StopEnds(s) \/ StopFails(s)))
    /\ WF_cliVars(Runs(StatusCheck)) /\ WF_cliVars(Runs(Bootstrapped))

SpecCli == InitCli /\ [][NextCli]_cliVars /\ FairnessCli

-----------------------------------------------------------------------------
(* Properties *)

\* While there is a process, an open pool that stays empty bootstraps, again and
\* again.
LonelyPoolBootstraps ==
    <>[](exited = "no" /\ checking /\ lonely /\ "rlpx" \in servers) => []<>(bootstraps > 0)

\* Every call of stop() is resolved or rejected, unless the process ends first.
StopsResolve ==
    \A s \in Stops : stop[s] # "none" ~> stop[s] = "none" \/ exited # "no"

\* The process ends after an interrupt that it handles, also when another one
\* comes meanwhile and bootstraps are under way: unless libp2p does not stop,
\* when the process goes on without its service.
InterruptExits ==
    (main = "ready" /\ \E s \in Stops : stop[s] # "none")
        ~> (exited # "no" \/ unstoppable)

\* What a user can write for a transport: options that it has, each once, whose
\* values have none of the separators of options, and after the first of them
\* further elements of a list; a bootnode as an address, as a URL, or as the
\* multiaddr that a libp2p node shows.
Keys == {"port", "multiaddrs", "bootnodes", ""}

IsMultiaddr(value) == Len(value) = 1

WellWritten(t) ==
    /\ t.name \in {"rlpx", "libp2p"}
    /\ t.options \in Seq(Keys \X Seq(STRING))
    /\ \A m, n \in DOMAIN t.options :
          t.options[m][1] = t.options[n][1] => m = n \/ t.options[m][1] = ""
    /\ \A n \in DOMAIN t.options :
          LET key == t.options[n][1]
              value == t.options[n][2]
          IN  /\ key = "port" => t.name = "rlpx"
              /\ key = "multiaddrs" => t.name = "libp2p"
              /\ key = "bootnodes" => IsAddress(value) \/ IsUrl(value) \/ IsMultiaddr(value)
              /\ key = "" => n > 1 /\ \A k \in Keys : value # <<k>>
              /\ value # <<>> /\ \A k \in DOMAIN value : value[k] \notin {",", "="}

\* The commands that are asked for have a mode of synchronization, and transports
\* like that.
CommandsWritten ==
    \A c \in Commands :
        /\ c.syncmode \in {"full", "light"}
        /\ Len(c.transports) \in Nat /\ DOMAIN c.transports = 1 .. Len(c.transports)
        /\ \A i \in DOMAIN c.transports : WellWritten(c.transports[i])

\* What the user wrote is what the node has: each server with the port and the
\* multiaddr given for it, and with the bootnode, if that is an address or a URL;
\* and a directory that no chain of another network or mode of synchronization
\* uses.  Whatever follows in a list is not taken for another option.
ServersAsAsked ==
    main \notin {"library", "options"} =>
        /\ \A i \in DOMAIN asked.transports :
              LET t == asked.transports[i]
                  made == config.servers[i]
              IN  /\ made.name = t.name
                  /\ \A n \in DOMAIN t.options :
                        LET key == t.options[n][1]
                            value == t.options[n][2]
                        IN  /\ key \in {"port", "multiaddrs"} => made[key] = value
                            /\ key = "bootnodes" /\ ~IsMultiaddr(value) =>
                                  made.bootnodes = <<[ip |-> value[Len(value) - 2],
                                                      port |-> value[Len(value)],
                                                      id |-> IF Len(value) = 3 THEN None
                                                             ELSE value[3]]>>
        /\ \A c \in Commands :
              SyncDataDirectory(c.syncmode, c.network) = config.directory
                  => c.syncmode = asked.syncmode /\ c.network = asked.network

\* What the README of the repository says of a node that is given the URL of
\* another one as its bootnode: it connects to it.  For that its server needs
\* the address.
BootnodesAsAsked ==
    main \notin {"library", "options"} =>
        \A i \in DOMAIN asked.transports :
            (\E n \in DOMAIN asked.transports[i].options :
                asked.transports[i].options[n][1] = "bootnodes")
            => \A k \in DOMAIN config.servers[i].bootnodes :
                  config.servers[i].bootnodes[k].ip # None
=============================================================================
