----------------------------- MODULE FlowControl -----------------------------
(***************************************************************************)
(* LES flow control between a light client and a server that serves it:    *)
(* lib/net/protocol/flowcontrol.ts, as used by the HeaderFetcher of the    *)
(* client (lib/sync/fetcher/headerfetcher.ts) and by handleLes() of the    *)
(* server (lib/service/fullethereumservice.ts).                            *)
(*                                                                         *)
(* The server keeps a buffer for the client, which every request drains    *)
(* and time refills, and tells it in every reply; the client estimates the *)
(* buffer before it asks.  Both sides store numbers of a single pair of    *)
(* nodes: nothing relates two pairs.                                       *)
(***************************************************************************)
EXTENDS Integers

CONSTANTS
    BL,             \* bl: capacity of the buffer
    MRR,            \* mrr: refill per unit of time
    Base, Req,      \* mrc: cost of a request, and of an item of it
    MaxPerRequest,  \* maxPerRequest of the fetcher
    MaxTime,        \* bound of the model: units of time
    MaxServed       \* bound of the model: requests the server deals with

ASSUME FlowAssumption ==
    /\ BL \in Nat /\ MRR \in Nat /\ Base \in Nat /\ Req \in Nat \ {0}
    /\ MaxPerRequest \in Nat \ {0} /\ MaxTime \in Nat /\ MaxServed \in Nat

VARIABLES
    now,        \* Date.now()
    in,         \* the client's entry for the server: kind, ble and last
    out,        \* the server's entry for the client: known, bv and last
    connected,  \* neither side has banned the other
    wire,       \* the request under way: "none", "asked", "replied", or "late"
                \* when only the server still knows of it
    count,      \* number of headers it asks for
    reply,      \* bv of its reply
    served,     \* history: requests the server dealt with
    spent,      \* history: what those requests cost
    fills       \* history: times handleRequest() began with a full buffer

clientV  == <<in>>
serverV  == <<out, served, spent, fills>>
flowVars == <<now, in, out, connected, wire, count, reply, served, spent, fills>>

\* What params.ble may be: not there, a number, the BN of a reply, or a value
\* that is not a number.
Kinds == {"absent", "number", "reply", "nan"}

Cost(n) == Base + Req * n

Capped(v) == IF v < BL THEN v ELSE BL

InitFlow ==
    /\ now = 0
    /\ in = [kind |-> "absent", ble |-> 0, last |-> 0]
    /\ out = [known |-> FALSE, bv |-> 0, last |-> 0]
    /\ connected = TRUE /\ wire = "none" /\ count = 1 /\ reply = 0
    /\ served = 0 /\ spent = 0 /\ fills = 0

-----------------------------------------------------------------------------
(* The client *)

\* A BN plus a number is the text of one followed by the text of the other,
\* which Math.min reads as a number again.
Digits(n)     == CHOOSE d \in 1 .. 9 : n < 10 ^ d /\ (d = 1 \/ n >= 10 ^ (d - 1))
Concat(bn, n) == bn * 10 ^ Digits(n) + n

\* maxRequestCount(): the estimate after the time since the last one.
Estimate ==
    LET gained == MRR * (now - in.last)
    IN  CASE in.kind = "absent" -> [kind |-> "number", ble |-> BL, last |-> now]
          [] in.kind = "number" -> [kind |-> "number", ble |-> Capped(in.ble + gained), last |-> now]
          [] in.kind = "reply"  -> [kind |-> "number", ble |-> Capped(Concat(in.ble, gained)), last |-> now]
          [] in.kind = "nan"    -> [in EXCEPT !.last = now]

\* No comparison with a value that is not a number holds: it limits nothing.
Enough(e) == e.kind = "nan" \/ e.ble >= Cost(MaxPerRequest)

\* request(): a request of at most maxPerRequest headers goes out.
Ask(n) ==
    /\ connected /\ wire = "none" /\ served < MaxServed
    /\ Enough(Estimate)
    /\ in' = Estimate
    /\ wire' = "asked" /\ count' = n
    /\ UNCHANGED <<now, serverV, connected, reply>>

\* request() returns false, which process() takes for a reply without bv.
Hold ==
    /\ connected /\ wire = "none"
    /\ ~Enough(Estimate)
    /\ in' = [kind |-> "nan", ble |-> 0, last |-> now]
    /\ UNCHANGED <<now, serverV, connected, wire, count, reply>>

\* process(): handleReply() keeps the bv of the reply.
HandleReply ==
    /\ wire = "replied" /\ wire' = "none"
    /\ in' = [kind |-> "reply", ble |-> reply, last |-> now]
    /\ UNCHANGED <<now, serverV, connected, count, reply>>

\* The request times out: the client bans the server and does not see the
\* reply any more.  A request that had not arrived may yet do so, or not.
TimedOut ==
    /\ wire \in {"asked", "replied"} /\ connected' = FALSE
    /\ wire' \in IF wire = "asked" THEN {"none", "late"} ELSE {"none"}
    /\ UNCHANGED <<now, clientV, serverV, count, reply>>

-----------------------------------------------------------------------------
(* The server *)

\* A buffer of 0 counts as unknown.
Refilled == out.known /\ out.bv # 0

\* The buffer when a request of the client comes in.
Available == IF Refilled THEN Capped(out.bv + MRR * (now - out.last)) ELSE BL

\* The request that came in is dealt with at the time last, and left of the
\* buffer is told.
Grant(left, told, last) ==
    /\ out' = [known |-> TRUE, bv |-> left, last |-> last]
    /\ wire' = IF wire = "asked" THEN "replied" ELSE "none"
    /\ reply' = told
    /\ spent' = spent + Cost(count)
    /\ UNCHANGED connected

\* A client that asks for more than there is is banned, and its buffer
\* forgotten.
Drop ==
    /\ out' = [known |-> FALSE, bv |-> 0, last |-> 0]
    /\ wire' = "none" /\ connected' = FALSE
    /\ UNCHANGED <<reply, spent>>

Received ==
    /\ wire \in {"asked", "late"}
    /\ served' = served + 1
    /\ fills' = IF Refilled THEN fills ELSE fills + 1
    /\ UNCHANGED <<now, clientV, count>>

\* Mutant of Serve: the time of the last request is not kept.
ServeKeepsTime ==
    /\ Received
    /\ LET left == Available - Cost(count)
       IN  IF left < 0 THEN Drop ELSE Grant(left, left, out.last)

\* Mutant of Serve: the reply tells the buffer before the request.
ServeRepliesBefore ==
    /\ Received
    /\ LET left == Available - Cost(count)
       IN  IF left < 0 THEN Drop ELSE Grant(left, Available, now)

\* handleLes() and handleRequest(): the reply tells what is left.
Serve ==
    /\ Received
    /\ LET left == Available - Cost(count)
       IN  IF left < 0 THEN Drop ELSE Grant(left, left, now)

-----------------------------------------------------------------------------

\* The bans are over and the nodes connect again.  Both keep their entries.
Reconnect ==
    /\ ~connected /\ wire = "none" /\ connected' = TRUE
    /\ UNCHANGED <<now, clientV, serverV, wire, count, reply>>

Tick ==
    /\ now < MaxTime /\ now' = now + 1
    /\ UNCHANGED <<clientV, serverV, connected, wire, count, reply>>

NextFlow ==
    \/ \E n \in 1 .. MaxPerRequest : Ask(n)
    \/ Hold \/ HandleReply \/ TimedOut \/ Serve \/ Reconnect \/ Tick

SpecFlow == InitFlow /\ [][NextFlow]_flowVars

-----------------------------------------------------------------------------
(* Properties *)

FlowTypes ==
    /\ now \in Nat
    /\ in \in [kind : Kinds, ble : 0 .. BL, last : Nat]
    /\ out \in [known : BOOLEAN, bv : 0 .. BL, last : Nat]
    /\ in.last <= now /\ out.last <= now
    /\ connected \in BOOLEAN /\ wire \in {"none", "asked", "replied", "late"}
    /\ count \in 1 .. MaxPerRequest /\ reply \in 0 .. BL
    /\ served \in Nat /\ spent \in Nat /\ fills \in Nat

\* The server never serves more than what time refilled and the full buffers
\* it began with: only a buffer at exactly 0, or one forgotten with a ban,
\* gives the client more than the rate allows.
RateBound == spent <= BL * fills + MRR * now

\* The buffer that a reply told is still there when the client uses it, so an
\* estimate that adds what the time refilled would be safe.
ReplyIsSafe ==
    in.kind = "reply" => Capped(in.ble + MRR * (now - in.last)) <= Available
=============================================================================
