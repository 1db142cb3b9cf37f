------------------------------- MODULE Config -------------------------------
(***************************************************************************)
(* What the options of a node make of it: lib/config.ts, the parsers of    *)
(* lib/util/parse.ts, the constructors of the servers and of the client.   *)
(*                                                                         *)
(* A text is a sequence of tokens: the separators ":", ",", "=", "@", and  *)
(* whatever stands between them.                                           *)
(***************************************************************************)
EXTENDS Naturals, Sequences

CONSTANTS
    Hosts,          \* tokens that are IP addresses
    Numbers,        \* tokens that are decimal numbers
    BootstrapNodes  \* what Common knows of the network

None == "none"      \* null or undefined

\* What is between the separators sep of a text, as String.split() has it.
Split(text, sep) ==
    LET pieces[k \in 0 .. Len(text)] ==
            IF k = 0 THEN <<<<>>>>
            ELSE IF text[k] = sep THEN Append(pieces[k - 1], <<>>)
            ELSE [pieces[k - 1] EXCEPT ![Len(pieces[k - 1])] = Append(@, text[k])]
    IN  pieces[Len(text)]

\* Mutant of Pairs: what follows up to the next colon.
PairsToColon(text) == IF Len(Split(text, ":")) = 1 THEN <<>> ELSE Split(text, ":")[2]

\* What follows the first colon of a transport.
Pairs(text) == SubSeq(text, Len(Split(text, ":")[1]) + 2, Len(text))

\* name:key=value,key=value,... where the value may have colons, and the last
\* of several values of a key counts.  A key without "=" is undefined, which is
\* as if it were not there.
Transport(text) ==
    LET pairs == Split(Pairs(text), ",")
        parts == [i \in 1 .. Len(pairs) |-> Split(pairs[i], "=")]
        lasts == {i \in DOMAIN parts : \A j \in DOMAIN parts : parts[j][1] = parts[i][1] => j <= i}
        given == {i \in lasts : Len(parts[i]) > 1}
    IN  [name    |-> Split(text, ":")[1],
         options |-> [key \in {parts[i][1] : i \in given} |->
                         parts[CHOOSE i \in given : parts[i][1] = key][2]]]

\* A bootnode that is ip:port, and one that is a URL with a user.
IsAddress(s) == Len(s) = 3 /\ s[1] \in Hosts /\ s[2] = ":" /\ s[3] \in Numbers
IsUrl(s) == Len(s) = 7 /\ s[2] = ":" /\ s[4] = "@" /\ s[6] = ":"

\* Server.bootnodes of a text.  What is neither of the two, and no URL, has
\* neither user nor host.
Bootnodes(text) ==
    LET node(s) ==
          IF IsAddress(s) THEN [id |-> None, ip |-> s[1], port |-> s[3]]
          ELSE IF IsUrl(s) THEN [id |-> s[3], ip |-> s[5], port |-> s[7]]
          ELSE [id |-> None, ip |-> None, port |-> "0"]
        texts == Split(text, ",")
    IN  [i \in 1 .. Len(texts) |-> node(texts[i])]

\* The option of a transport, or what counts where it is missing.
Option(t, key, default) ==
    IF <<key>> \in DOMAIN t.options THEN t.options[<<key>>] ELSE default

\* The bootnodes of a transport, or what counts where there is no text of them.
BootnodesOr(t, default) ==
    LET text == Option(t, "bootnodes", <<>>)
    IN  IF text = <<>> THEN default ELSE Bootnodes(text)

RlpxServer(t) ==
    [name      |-> "rlpx",
     port      |-> Option(t, "port", <<"30303">>),
     bootnodes |-> BootnodesOr(t, BootstrapNodes)]

Libp2pServer(t) ==
    LET default == <<"/ip4/127.0.0.1/tcp/50580/ws">>
        text == Option(t, "multiaddrs", default)
    IN  [name       |-> "libp2p",
         multiaddrs |-> IF text = <<>> THEN default ELSE text,
         bootnodes  |-> BootnodesOr(t, <<>>)]

\* The servers that Config makes of its transports: what is not rlpx is libp2p.
Servers(texts) ==
    [i \in 1 .. Len(texts) |->
        LET t == Transport(texts[i])
        IN  IF t.name = <<"rlpx">> THEN RlpxServer(t) ELSE Libp2pServer(t)]

\* The protocols of the service: a light node speaks LES, a full node ETH, and
\* LES too where it serves light nodes.
Protocols(syncmode, lightserv) ==
    IF syncmode # "full" THEN {"les"}
    ELSE IF lightserv THEN {"eth", "les"} ELSE {"eth"}

SyncDataDirectory(syncmode, network) ==
    (IF network = "mainnet" THEN <<>> ELSE <<network>>)
        \o <<"ethereumjs", IF syncmode = "light" THEN "lightchaindata" ELSE "chaindata">>
=============================================================================
