---------------------------- MODULE BoundProtocol ----------------------------
(***************************************************************************)
(* The requests of lib/net/protocol/boundprotocol.ts over one connection.  *)
(* request(name) sends a message and waits for the message of the code     *)
(* that answers it; responses carry nothing else to tell which request     *)
(* they answer.  The transport keeps the order of the responses.           *)
(***************************************************************************)
EXTENDS Naturals, Sequences, FiniteSets

CONSTANTS
    Calls,          \* the calls of request()
    Codes,          \* codes of the response messages
    None,           \* no call
    MaxUnsolicited  \* bound of the model: responses the remote node sends unasked

ASSUME BoundAssumption == None \notin Calls /\ MaxUnsolicited \in Nat

VARIABLES
    state,        \* call -> how its promise stands
    code,         \* call -> message.response of its request
    resolvers,    \* this.resolvers: response code -> the call that waits for it
    result,       \* call -> the call whose response it was resolved with
    asked,        \* calls whose request the remote node has not dealt with
    arriving,     \* responses on their way, in order
    unsolicited,  \* number of responses sent unasked
    up            \* the connection is open

vars == <<state, code, resolvers, result, asked, arriving, unsolicited, up>>

Pending  == {"pending"}
Settled  == {"resolved", "undecodable", "timedout", "refused"}
Response == [code : Codes, for : Calls \cup {None}, valid : BOOLEAN]

Init ==
    /\ state = [c \in Calls |-> "new"]
    /\ code \in [Calls -> Codes]
    /\ resolvers = [k \in Codes |-> None]
    /\ result = [c \in Calls |-> None]
    /\ asked = {} /\ arriving = <<>> /\ unsolicited = 0 /\ up = TRUE

-----------------------------------------------------------------------------

\* Mutant of Request: a second active request of the same type is accepted.
RequestOverwrites(c) ==
    /\ state[c] = "new"
    /\ asked' = IF up THEN asked \cup {c} ELSE asked
    /\ state' = [state EXCEPT ![c] = "pending"]
    /\ resolvers' = [resolvers EXCEPT ![code[c]] = c]
    /\ UNCHANGED <<code, result, arriving, unsolicited, up>>

\* request(): the message is sent first.  On a dead connection the sender only
\* emits an error, and the call waits all the same.
Request(c) ==
    /\ state[c] = "new"
    /\ asked' = IF up THEN asked \cup {c} ELSE asked
    /\ IF resolvers[code[c]] # None
       THEN /\ state' = [state EXCEPT ![c] = "refused"]
            /\ UNCHANGED resolvers
       ELSE /\ state' = [state EXCEPT ![c] = "pending"]
            /\ resolvers' = [resolvers EXCEPT ![code[c]] = c]
    /\ UNCHANGED <<code, result, arriving, unsolicited, up>>

\* Mutant of Handle: the resolver goes, but its timer is not cleared and a
\* response that cannot be decoded does not reject.
HandleTimerKept ==
    /\ arriving # <<>> /\ arriving' = Tail(arriving)
    /\ LET m == Head(arriving)
           c == resolvers[m.code]
       IN  /\ resolvers' = [resolvers EXCEPT ![m.code] = None]
           /\ IF c = None \/ ~m.valid
              THEN UNCHANGED <<state, result>>
              ELSE /\ state' = [state EXCEPT ![c] = "resolved"]
                   /\ result' = [result EXCEPT ![c] = m.for]
    /\ UNCHANGED <<code, asked, unsolicited, up>>

\* handle(): whoever waits for this code gets the response, or the decoding
\* error; when nobody does, a 'message' or 'error' event is emitted.
Handle ==
    /\ arriving # <<>> /\ arriving' = Tail(arriving)
    /\ LET m == Head(arriving)
           c == resolvers[m.code]
       IN  IF c = None
           THEN UNCHANGED <<state, resolvers, result>>
           ELSE /\ resolvers' = [resolvers EXCEPT ![m.code] = None]
                /\ state' = [state EXCEPT ![c] = IF m.valid THEN "resolved" ELSE "undecodable"]
                /\ result' = IF m.valid THEN [result EXCEPT ![c] = m.for] ELSE result
    /\ UNCHANGED <<code, asked, unsolicited, up>>

\* Mutant of Timeout: the timers stop with the connection.
TimeoutWhileUp(c) ==
    /\ up /\ state[c] = "pending"
    /\ state' = [state EXCEPT ![c] = "timedout"]
    /\ resolvers' = [resolvers EXCEPT ![code[c]] = None]
    /\ UNCHANGED <<code, result, asked, arriving, unsolicited, up>>

\* The timer of the call fires: whatever waits for its code is forgotten.
Timeout(c) ==
    /\ state[c] = "pending"
    /\ state' = [state EXCEPT ![c] = "timedout"]
    /\ resolvers' = [resolvers EXCEPT ![code[c]] = None]
    /\ UNCHANGED <<code, result, asked, arriving, unsolicited, up>>

-----------------------------------------------------------------------------
(* The remote node and the connection, as the code uses them.              *)

Send(m) == arriving' = Append(arriving, m)

\* The remote node answers the requests it has in any order, ...
Answer(c, valid) ==
    /\ up /\ c \in asked /\ asked' = asked \ {c}
    /\ Send([code |-> code[c], for |-> c, valid |-> valid])
    /\ UNCHANGED <<state, code, resolvers, result, unsolicited, up>>

\* ... ignores some, ...
Ignore(c) ==
    /\ up /\ c \in asked /\ asked' = asked \ {c}
    /\ UNCHANGED <<state, code, resolvers, result, arriving, unsolicited, up>>

\* ... and sends responses nobody asked for.
Unasked(k, valid) ==
    /\ up /\ unsolicited < MaxUnsolicited
    /\ unsolicited' = unsolicited + 1
    /\ Send([code |-> k, for |-> None, valid |-> valid])
    /\ UNCHANGED <<state, code, resolvers, result, asked, up>>

\* The connection breaks: nothing more arrives.
Break ==
    /\ up /\ up' = FALSE /\ asked' = {} /\ arriving' = <<>>
    /\ UNCHANGED <<state, code, resolvers, result, unsolicited>>

-----------------------------------------------------------------------------

Local  == Handle \/ \E c \in Calls : Request(c) \/ Timeout(c)
Remote == \/ \E c \in Calls : Ignore(c) \/ \E v \in BOOLEAN : Answer(c, v)
          \/ \E k \in Codes, v \in BOOLEAN : Unasked(k, v)
          \/ Break

Next == Local \/ Remote

Spec == Init /\ [][Next]_vars

\* Timers fire and received messages are handled.
FairSpec == Spec /\ WF_vars(Handle) /\ \A c \in Calls : WF_vars(Timeout(c))

-----------------------------------------------------------------------------
(* Properties *)

TypeOK ==
    /\ state \in [Calls -> {"new"} \cup Pending \cup Settled]
    /\ code \in [Calls -> Codes]
    /\ resolvers \in [Codes -> Calls \cup {None}]
    /\ result \in [Calls -> Calls \cup {None}]
    /\ asked \in SUBSET Calls
    /\ arriving \in Seq(Response)
    /\ unsolicited \in 0 .. MaxUnsolicited
    /\ up \in BOOLEAN

\* The timer of a call deletes the resolver of its response code, whoever it
\* belongs to.  It is always its own: a resolver belongs to a pending call of
\* its code, and every pending call has its resolver.
ResolverIffPending ==
    /\ \A c \in Calls : state[c] = "pending" => resolvers[code[c]] = c
    /\ \A k \in Codes : resolvers[k] # None =>
          state[resolvers[k]] = "pending" /\ code[resolvers[k]] = k

\* While the remote node sends nothing unasked, a call gets the response of
\* another one only after some call of the same response code timed out or was
\* refused: punctual requests are never confused.
PunctualCallsMatched ==
    \A c \in Calls :
        state[c] = "resolved" /\ result[c] # c =>
            \/ unsolicited > 0
            \/ \E d \in Calls : code[d] = code[c] /\ state[d] \in {"timedout", "refused"}

\* Whatever the remote node does, a pending call settles.
CallsSettle == \A c \in Calls : state[c] = "pending" ~> state[c] \in Settled
=============================================================================
