------------------------------- MODULE Messages -------------------------------
(***************************************************************************)
(* What arrives of what a node says: the encode and decode functions of    *)
(* lib/net/protocol/ethprotocol.ts and lib/net/protocol/lesprotocol.ts for *)
(* statuses, header requests and LES replies, and the pairs that           *)
(* lib/net/protocol/libp2psender.ts makes of a status.  RLP itself, which  *)
(* keeps lists of byte strings as they are, belongs to a library.          *)
(*                                                                         *)
(* Byte strings are sequences of digits.  256 digits and hashes of 32      *)
(* bytes are scaled down to Base digits and HashLength.                    *)
(***************************************************************************)
EXTENDS Naturals, Sequences

CONSTANTS
    Base,         \* number of values of a byte
    HashLength,   \* length of a hash
    MaxNumber,    \* bound of the model: block numbers, difficulties, costs
    MaxRequests,  \* bound of the model: LES requests
    Undefined     \* what JavaScript gives for a missing key

ASSUME MessagesAssumption ==
    /\ Base \in Nat \ {0, 1} /\ HashLength \in Nat
    /\ MaxNumber \in Nat /\ MaxRequests \in Nat

VARIABLES
    protocol, topic,  \* "eth" or "les"; "status", "request" or "reply"
    stage,            \* "idle", "sent" or "received"
    said,             \* what the node said, before it was encoded
    wire,             \* what was sent
    got,              \* what the other node made of it
    id                \* the counter of LES requests

messageVars == <<protocol, topic, stage, said, wire, got, id>>

InitMessages ==
    /\ protocol \in {"eth", "les"} /\ topic = "status" /\ stage = "idle"
    /\ said = <<>> /\ wire = <<>> /\ got = <<>> /\ id = 0

-----------------------------------------------------------------------------
(* Numbers *)

\* BN.toArrayLike(Buffer): big-endian without leading zeros, but one for 0.
Bytes(n) ==
    LET digits[k \in 0 .. n] ==
            IF k < Base THEN <<k>> ELSE Append(digits[k \div Base], k % Base)
    IN  digits[n]

\* What RLP makes of a JavaScript number: nothing at all for 0.
IntBytes(n) == IF n = 0 THEN <<>> ELSE Bytes(n)

\* new BN(), bufferToInt()
Value(bytes) ==
    LET value[k \in 0 .. Len(bytes)] ==
            IF k = 0 THEN 0 ELSE value[k - 1] * Base + bytes[k]
    IN  value[Len(bytes)]

Hashes  == {[k \in 1 .. HashLength |-> digit] : digit \in 0 .. 1}
Numbers == 0 .. MaxNumber

\* No block number is as long as a hash.
ASSUME NumbersAreShort == \A n \in Numbers : Len(Bytes(n)) < HashLength

-----------------------------------------------------------------------------
(* Statuses *)

EthStatuses == [networkId : Numbers, td : Numbers, bestHash : Hashes]

\* flow is Undefined in a node that serves no headers.
Flows == [bl : 0 .. 2, mrr : 0 .. 2, mrc : [{"GetBlockHeaders"} -> [base : 0 .. 2, req : 0 .. 2]]]
LesStatuses == [headTd : Numbers, headNum : Numbers, headHash : Hashes,
                flow : Flows \cup {Undefined}]

Code == [GetBlockHeaders |-> 2]

EncodeEth(s) == [networkId |-> IntBytes(s.networkId), td |-> Bytes(s.td),
                 bestHash |-> s.bestHash]
DecodeEth(w) == [networkId |-> Value(w.networkId), td |-> Value(w.td),
                 bestHash |-> w.bestHash]

\* The table of costs becomes a list of code, base and req; its order, and
\* that of the keys below, does not matter.
EncodeCosts(mrc) ==
    LET entry(name) == <<IntBytes(Code[name]), IntBytes(mrc[name].base), IntBytes(mrc[name].req)>>
    IN  {entry(name) : name \in DOMAIN mrc}

\* The values of a BN and of numbers; a client has no serveOptions.
EncodeLes(s) ==
    IF s.flow = Undefined
    THEN [headTd |-> Bytes(s.headTd), headNum |-> Bytes(s.headNum), headHash |-> s.headHash]
    ELSE [headTd |-> Bytes(s.headTd), headNum |-> Bytes(s.headNum), headHash |-> s.headHash,
          serveHeaders |-> IntBytes(1), BL |-> Bytes(s.flow.bl),
          MRR |-> Bytes(s.flow.mrr), MRC |-> EncodeCosts(s.flow.mrc)]

\* Mutant of DecodeCosts: base and req change places.
DecodeCostsSwapped(list) ==
    LET known == {name \in DOMAIN Code : \E e \in list : Value(e[1]) = Code[name]}
        entry(name) == CHOOSE e \in list : Value(e[1]) = Code[name]
    IN  [name \in known |-> [base |-> Value(entry(name)[3]), req |-> Value(entry(name)[2])]]

\* Costs by name, for the codes that are known.  They are kept by code as
\* well, which nothing reads.
DecodeCosts(list) ==
    LET known == {name \in DOMAIN Code : \E e \in list : Value(e[1]) = Code[name]}
        entry(name) == CHOOSE e \in list : Value(e[1]) = Code[name]
    IN  [name \in known |-> [base |-> Value(entry(name)[2]), req |-> Value(entry(name)[3])]]

\* A key that is there counts, also when its value is 0 or empty: a Buffer is
\* always true.
DecodeLes(w) ==
    LET get(key) == IF key \in DOMAIN w THEN Value(w[key]) ELSE Undefined
    IN  [headTd |-> Value(w.headTd), headNum |-> Value(w.headNum), headHash |-> w.headHash,
         serveHeaders |-> "serveHeaders" \in DOMAIN w,
         bl |-> get("BL"), mrr |-> get("MRR"),
         mrc |-> IF "MRC" \in DOMAIN w THEN DecodeCosts(w.MRC) ELSE <<>>]

\* sendStatus() of Libp2pSender sends pairs of key and value, ...
Pairs(status) == {<<key, status[key]>> : key \in DOMAIN status}

\* ... of which the receiving end makes an object again.
FromPairs(pairs) ==
    [key \in {pair[1] : pair \in pairs} |-> (CHOOSE pair \in pairs : pair[1] = key)[2]]

TellStatus ==
    /\ stage = "idle" /\ topic' = "status" /\ stage' = "sent"
    /\ \/ /\ protocol = "eth" /\ said' \in EthStatuses
          /\ wire' = Pairs(EncodeEth(said'))
       \/ /\ protocol = "les" /\ said' \in LesStatuses
          /\ wire' = Pairs(EncodeLes(said'))
    /\ got' = <<>> /\ UNCHANGED <<protocol, id>>

HearStatus ==
    /\ stage = "sent" /\ topic = "status" /\ stage' = "received"
    /\ got' = IF protocol = "eth" THEN DecodeEth(FromPairs(wire)) ELSE DecodeLes(FromPairs(wire))
    /\ UNCHANGED <<protocol, topic, said, wire, id>>

-----------------------------------------------------------------------------
(* GetBlockHeaders, and BlockHeaders of LES *)

Blocks   == [is : {"number"}, of : Numbers] \cup [is : {"hash"}, of : Hashes]
Requests == [block : Blocks, max : {1, MaxNumber}, skip : {0, 1, Undefined},
             reverse : {0, 1, Undefined}]

Default(n) == IF n = Undefined THEN 0 ELSE n
EncodeBlock(block) == IF block.is = "number" THEN Bytes(block.of) ELSE block.of

\* A block is told by a hash if its length is that of one.
DecodeBlock(bytes) == IF Len(bytes) = HashLength THEN [is |-> "hash", of |-> bytes]
                      ELSE [is |-> "number", of |-> Value(bytes)]

\* Mutant of EncodeRequest: skip and reverse change places.
EncodeRequestSwapped(r) ==
    <<EncodeBlock(r.block), IntBytes(r.max), IntBytes(Default(r.reverse)),
      IntBytes(Default(r.skip))>>

EncodeRequest(r) ==
    <<EncodeBlock(r.block), IntBytes(r.max), IntBytes(Default(r.skip)),
      IntBytes(Default(r.reverse))>>

DecodeRequest(w) ==
    [block |-> DecodeBlock(w[1]), max |-> Value(w[2]), skip |-> Value(w[3]),
     reverse |-> Value(w[4])]

\* In LES the number of the request comes first.
DecodeLesRequest(w) ==
    LET r == DecodeRequest(w[2])
    IN  [reqId |-> Value(w[1]), block |-> r.block, max |-> r.max, skip |-> r.skip,
         reverse |-> r.reverse]

\* LES counts its requests, for all peers together.
Ask ==
    /\ stage \in {"idle", "received"} /\ topic' = "request" /\ stage' = "sent"
    /\ said' \in Requests
    /\ IF protocol = "eth" THEN wire' = EncodeRequest(said') /\ UNCHANGED id
       ELSE id < MaxRequests /\ id' = id + 1 /\ wire' = <<Bytes(id + 1), EncodeRequest(said')>>
    /\ got' = <<>> /\ UNCHANGED protocol

HearRequest ==
    /\ stage = "sent" /\ topic = "request" /\ stage' = "received"
    /\ got' = IF protocol = "eth" THEN DecodeRequest(wire)
              ELSE DecodeLesRequest(wire)
    /\ UNCHANGED <<protocol, topic, said, wire, id>>

\* handleLes() answers with the number of the request and what is left of the
\* client's buffer.
Reply ==
    /\ stage = "received" /\ topic = "request" /\ protocol = "les"
    /\ topic' = "reply" /\ stage' = "sent"
    /\ \E bv \in Numbers : /\ said' = [reqId |-> got.reqId, bv |-> bv]
                           /\ wire' = <<Bytes(got.reqId), Bytes(bv)>>
    /\ got' = <<>> /\ UNCHANGED <<protocol, id>>

HearReply ==
    /\ stage = "sent" /\ topic = "reply" /\ stage' = "received"
    /\ got' = [reqId |-> Value(wire[1]), bv |-> Value(wire[2])]
    /\ UNCHANGED <<protocol, topic, said, wire, id>>

-----------------------------------------------------------------------------

NextMessage == TellStatus \/ HearStatus \/ Ask \/ HearRequest \/ Reply \/ HearReply

SpecMessages == InitMessages /\ [][NextMessage]_messageVars

-----------------------------------------------------------------------------
(* Properties *)

Heard(t) == stage = "received" /\ topic = t

\* The status that a node decodes is the one that the other node is in, zeros
\* and missing parts included: best() compares true difficulties, and the
\* client of FlowControl computes with the limits its server charges by.
StatusArrives ==
    Heard("status") =>
        IF protocol = "eth" THEN got = said
        ELSE /\ got.headTd = said.headTd /\ got.headNum = said.headNum
             /\ got.headHash = said.headHash
             /\ got.serveHeaders = (said.flow # Undefined)
             /\ IF said.flow = Undefined THEN got.bl = Undefined /\ got.mrc = <<>>
                ELSE [bl |-> got.bl, mrr |-> got.mrr, mrc |-> got.mrc] = said.flow

\* A request asks for the blocks that were meant, by number or by hash, with
\* its defaults: no number is taken for a hash or the other way round.  The
\* reply carries the number of the last LES request and the buffer value.
RequestArrives ==
    /\ Heard("request") =>
          /\ got.block.is = said.block.is /\ got.block.of = said.block.of
          /\ got.max = said.max
          /\ got.skip = Default(said.skip) /\ got.reverse = Default(said.reverse)
    /\ Heard("reply") => got.reqId = id /\ got.bv = said.bv
==============================================================================
