---------------------------- MODULE ProtocolProofs ----------------------------
(***************************************************************************)
(* The requests over one connection.  First the bookkeeping of             *)
(* BoundProtocol, for any number of calls and response codes: which call a *)
(* response is for.  Then the limits of FlowControl, for every capacity,   *)
(* rate and cost: the server serves what time refilled and the full        *)
(* buffers that it began with, and what it tells stays true.               *)
(***************************************************************************)
EXTENDS BoundProtocol, FlowControl, TLAPS

-----------------------------------------------------------------------------
(* BoundProtocol *)

\* The part of TypeOK that the bookkeeping rests on, and the resolvers.
ResolverInv ==
    /\ state \in [Calls -> {"new"} \cup Pending \cup Settled]
    /\ code \in [Calls -> Codes]
    /\ resolvers \in [Codes -> Calls \cup {None}]
    /\ arriving \in Seq(Response)
    /\ asked \in SUBSET Calls
    /\ ResolverIffPending

\* What is sent keeps the queue of responses typed.
LEMMA SendType ==
    ASSUME ResolverInv, NEW m \in Response, Send(m)
    PROVE  arriving' \in Seq(Response)
BY DEF ResolverInv, Send

\* ResolverInv is inductive.
LEMMA ResolverInvariant == Spec => []ResolverInv
<1> USE BoundAssumption
<1>1. Init => ResolverInv
  <2> SUFFICES ASSUME Init PROVE ResolverInv
    OBVIOUS
  <2>1. arriving \in Seq(Response)
    BY DEF Init
  <2> QED
    BY <2>1 DEF Init, ResolverInv, ResolverIffPending
<1>2. ResolverInv /\ [Next]_vars => ResolverInv'
  <2> SUFFICES ASSUME ResolverInv, [Next]_vars PROVE ResolverInv'
    OBVIOUS
  <2> USE DEF ResolverInv, ResolverIffPending
  <2>1. ASSUME NEW c \in Calls, Request(c) PROVE ResolverInv'
    <3>1. CASE resolvers[code[c]] # None
      BY <2>1, <3>1 DEF Request, Settled
    <3>2. CASE resolvers[code[c]] = None
      BY <2>1, <3>2 DEF Request, Pending
    <3> QED
      BY <3>1, <3>2
  <2>2. CASE Handle
    <3> DEFINE m == Head(arriving)
               c == resolvers[m.code]
    <3>1. m \in Response /\ Tail(arriving) \in Seq(Response)
      BY <2>2 DEF Handle
    <3>2. m.code \in Codes /\ c \in Calls \cup {None}
      BY <3>1 DEF Response
    <3>3. CASE c = None
      BY <2>2, <3>1, <3>3 DEF Handle
    <3>4. CASE c # None
      <4>1. /\ resolvers' = [resolvers EXCEPT ![m.code] = None]
            /\ state' = [state EXCEPT ![c] = IF m.valid THEN "resolved" ELSE "undecodable"]
            /\ arriving' = Tail(arriving) /\ UNCHANGED <<code, asked>>
        BY <2>2, <3>4 DEF Handle
      <4>2. c \in Calls /\ code[c] = m.code /\ state[c] = "pending"
        BY <3>2, <3>4
      <4>3. \A d \in Calls : state'[d] = "pending" => d # c /\ code[d] # m.code
        BY <4>1, <4>2
      <4>4. state' \in [Calls -> {"new"} \cup Pending \cup Settled]
        BY <4>1, <4>2 DEF Settled
      <4>5. \A k \in Codes : resolvers'[k] # None =>
               k # m.code /\ resolvers'[k] = resolvers[k] /\ resolvers[k] # c
        BY <3>2, <4>1, <4>2
      <4> QED
        BY <3>1, <3>2, <4>1, <4>2, <4>3, <4>4, <4>5
    <3> QED
      BY <3>3, <3>4
  <2>3. ASSUME NEW c \in Calls, Timeout(c) PROVE ResolverInv'
    BY <2>3 DEF Timeout, Settled
  <2>4. ASSUME NEW c \in Calls, NEW v \in BOOLEAN, Answer(c, v) PROVE ResolverInv'
    <3>1. [code |-> code[c], for |-> c, valid |-> v] \in Response
      BY DEF Response
    <3> QED
      BY <2>4, <3>1, SendType DEF Answer
  <2>5. ASSUME NEW c \in Calls, Ignore(c) PROVE ResolverInv'
    BY <2>5 DEF Ignore
  <2>6. ASSUME NEW k \in Codes, NEW v \in BOOLEAN, Unasked(k, v) PROVE ResolverInv'
    <3>1. [code |-> k, for |-> None, valid |-> v] \in Response
      BY DEF Response
    <3> QED
      BY <2>6, <3>1, SendType DEF Unasked
  <2>7. CASE Break
    <3>1. <<>> \in Seq(Response)
      OBVIOUS
    <3> QED
      BY <2>7, <3>1 DEF Break
  <2>8. CASE UNCHANGED vars
    BY <2>8 DEF vars
  <2> QED
    BY <2>1, <2>2, <2>3, <2>4, <2>5, <2>6, <2>7, <2>8 DEF Next, Local, Remote
<1> QED
  BY <1>1, <1>2, PTL DEF Spec

\* handle() and the timer of a call keep resolvers and pending calls in step:
\* a response, a decoding error and a timeout each settle the call that owns
\* the resolver they delete, and no other.
THEOREM ResolversMatchCalls == Spec => []ResolverIffPending
<1>1. ResolverInv => ResolverIffPending
  BY DEF ResolverInv
<1> QED
  BY <1>1, ResolverInvariant, PTL

-----------------------------------------------------------------------------
(* Which response a call gets.                                             *)

\* Nothing came unasked, and no call of the code k timed out or was refused.
Punctual(k) ==
    /\ unsolicited = 0
    /\ \A d \in Calls : code[d] = k => state[d] \notin {"timedout", "refused"}

Arrived == DOMAIN arriving

\* What the remote node still has to deal with, and the one response on its way,
\* belong to the call of this code that is pending.
Matched(k) ==
    /\ \A c \in asked : code[c] = k => state[c] = "pending"
    /\ \A i \in Arrived : arriving[i].code = k =>
          /\ arriving[i].for \in Calls \ asked
          /\ state[arriving[i].for] = "pending" /\ code[arriving[i].for] = k
    /\ \A i, j \in Arrived : arriving[i].code = k /\ arriving[j].code = k => i = j
    /\ \A c \in Calls : code[c] = k /\ state[c] = "resolved" => result[c] = c

\* The invariant behind PunctualCallsMatched.
MatchInv ==
    /\ unsolicited \in Nat
    /\ result \in [Calls -> Calls \cup {None}]
    /\ \A k \in Codes : Punctual(k) => Matched(k)

\* A response that is taken from the queue, and the others.
LEMMA TailResponses ==
    ASSUME NEW s \in Seq(Response), s # <<>>
    PROVE  /\ Head(s) = s[1] /\ 1 \in DOMAIN s /\ Head(s) \in Response
           /\ \A i \in DOMAIN Tail(s) :
                 i \in Nat \ {0} /\ i + 1 \in DOMAIN s /\ Tail(s)[i] = s[i + 1]
OBVIOUS

\* A response that joins the queue.
LEMMA AppendResponses ==
    ASSUME NEW s \in Seq(Response), NEW m \in Response
    PROVE  \A i \in DOMAIN Append(s, m) :
              \/ i \in DOMAIN s /\ Append(s, m)[i] = s[i]
              \/ i \notin DOMAIN s /\ i = Len(s) + 1 /\ Append(s, m)[i] = m
OBVIOUS

\* MatchInv is inductive: a response of a punctual code finds its own call.
LEMMA MatchInvariant == Spec => []MatchInv
<1> USE BoundAssumption
<1>1. Init => MatchInv
  <2> SUFFICES ASSUME Init PROVE MatchInv
    OBVIOUS
  <2>1. Arrived = {}
    BY DEF Init, Arrived
  <2> QED
    BY <2>1 DEF Init, MatchInv, Matched
<1>2. ResolverInv /\ MatchInv /\ [Next]_vars => MatchInv'
  <2> SUFFICES ASSUME ResolverInv, MatchInv, [Next]_vars PROVE MatchInv'
    OBVIOUS
  <2>typ. /\ state \in [Calls -> {"new"} \cup Pending \cup Settled]
          /\ code \in [Calls -> Codes] /\ resolvers \in [Codes -> Calls \cup {None}]
          /\ arriving \in Seq(Response) /\ asked \in SUBSET Calls
          /\ unsolicited \in Nat /\ result \in [Calls -> Calls \cup {None}]
    BY DEF ResolverInv, MatchInv
  <2>one. \A c, d \in Calls : state[c] = "pending" /\ state[d] = "pending" /\ code[c] = code[d]
             => c = d
    BY DEF ResolverInv, ResolverIffPending
  <2>own. \A k \in Codes : resolvers[k] # None =>
             state[resolvers[k]] = "pending" /\ code[resolvers[k]] = k
    BY DEF ResolverInv, ResolverIffPending
  <2>was. \A k \in Codes : Punctual(k) => Matched(k)
    BY DEF MatchInv
  <2>0. ASSUME unsolicited' \in Nat, result' \in [Calls -> Calls \cup {None}],
               \A k \in Codes : Punctual(k)' => Punctual(k),
               \A k \in Codes : Punctual(k)' /\ Matched(k) => Matched(k)'
        PROVE  MatchInv'
    BY <2>0, <2>was DEF MatchInv
  <2>1. ASSUME NEW c \in Calls, Request(c) PROVE MatchInv'
    <3>1. /\ state[c] = "new" /\ asked' \in SUBSET (asked \cup {c})
          /\ UNCHANGED <<code, result, arriving, unsolicited>>
      BY <2>1 DEF Request
    <3>2. state' = [state EXCEPT ![c] = IF resolvers[code[c]] # None THEN "refused" ELSE "pending"]
      BY <2>1 DEF Request
    <3>3. \A d \in Calls : d # c => state'[d] = state[d]
      BY <2>typ, <3>2
    <3>4. ASSUME NEW k \in Codes, Punctual(k)'
          PROVE  Punctual(k) /\ (code[c] = k => resolvers[k] = None /\ state'[c] = "pending")
      BY <2>typ, <3>1, <3>2, <3>3, <3>4 DEF Punctual
    <3>5. ASSUME NEW k \in Codes, Punctual(k)', Matched(k) PROVE Matched(k)'
      <4>1. \A d \in asked' : code[d] = k => state'[d] = "pending"
        BY <2>typ, <3>1, <3>3, <3>4, <3>5 DEF Matched
      <4>2. ASSUME NEW i \in Arrived, arriving[i].code = k
            PROVE  /\ arriving[i].for \in Calls \ asked'
                   /\ state'[arriving[i].for] = "pending" /\ code[arriving[i].for] = k
        <5>1. /\ arriving[i].for \in Calls \ asked
              /\ state[arriving[i].for] = "pending" /\ code[arriving[i].for] = k
          BY <3>5, <4>2 DEF Matched
        <5> QED
          BY <3>1, <3>3, <5>1
      <4>3. \A d \in Calls : code[d] = k /\ state'[d] = "resolved" => result[d] = d
        BY <3>2, <3>3, <3>5, <2>typ DEF Matched
      <4> QED
        BY <3>1, <3>5, <4>1, <4>2, <4>3 DEF Matched, Arrived
    <3> QED
      BY <2>0, <2>typ, <3>1, <3>4, <3>5
  <2>2. CASE Handle
    <3> DEFINE m == Head(arriving)
               c == resolvers[m.code]
    <3>1. /\ arriving # <<>> /\ arriving' = Tail(arriving)
          /\ UNCHANGED <<code, asked, unsolicited>>
      BY <2>2 DEF Handle
    <3>2. /\ m = arriving[1] /\ 1 \in Arrived /\ m \in Response
          /\ \A i \in Arrived' :
                i \in Nat \ {0} /\ i + 1 \in Arrived /\ arriving'[i] = arriving[i + 1]
      BY <2>typ, <3>1, TailResponses DEF Arrived
    <3> HIDE DEF m
    <3>3. m.code \in Codes /\ m.for \in Calls \cup {None}
      BY <3>2 DEF Response
    <3>4. CASE c = None
      <4>1. UNCHANGED <<state, result>>
        BY <2>2, <3>4 DEF Handle, m
      <4>2. \A k \in Codes : Punctual(k)' => Punctual(k)
        BY <3>1, <4>1 DEF Punctual
      <4>3. ASSUME NEW k \in Codes, Matched(k) PROVE Matched(k)'
        <5>1. ASSUME NEW i \in Arrived', arriving'[i].code = k
              PROVE  /\ arriving'[i].for \in Calls \ asked
                     /\ state[arriving'[i].for] = "pending" /\ code[arriving'[i].for] = k
          BY <3>2, <4>3, <5>1 DEF Matched
        <5>2. ASSUME NEW i \in Arrived', NEW j \in Arrived',
                     arriving'[i].code = k, arriving'[j].code = k
              PROVE  i = j
          <6>1. i + 1 = j + 1
            BY <3>2, <4>3, <5>2 DEF Matched
          <6> QED
            BY <3>2, <6>1
        <5> QED
          BY <3>1, <4>1, <4>3, <5>1, <5>2 DEF Matched
      <4> QED
        BY <2>0, <2>typ, <3>1, <4>1, <4>2, <4>3
    <3>5. CASE c # None
      <4>1. /\ state' = [state EXCEPT ![c] = IF m.valid THEN "resolved" ELSE "undecodable"]
            /\ result' = IF m.valid THEN [result EXCEPT ![c] = m.for] ELSE result
        BY <2>2, <3>5 DEF Handle, m
      <4>2. c \in Calls /\ state[c] = "pending" /\ code[c] = m.code
        BY <2>typ, <2>own, <3>3, <3>5
      <4>3. /\ \A d \in Calls : d # c => state'[d] = state[d] /\ result'[d] = result[d]
            /\ state'[c] \in {"resolved", "undecodable"}
            /\ state'[c] = "resolved" => result'[c] = m.for
            /\ result' \in [Calls -> Calls \cup {None}]
        BY <2>typ, <3>3, <4>1, <4>2
      <4>4. \A k \in Codes : Punctual(k)' => Punctual(k)
        BY <3>1, <4>2, <4>3 DEF Punctual
      <4>5. ASSUME NEW k \in Codes, Matched(k) PROVE Matched(k)'
        <5>1. k = m.code => /\ m.for = c /\ c \notin asked
                            /\ \A i \in Arrived' : arriving'[i].code # k
          <6>1. ASSUME k = m.code
                PROVE  m.for \in Calls \ asked /\ state[m.for] = "pending" /\ code[m.for] = k
            BY <3>2, <4>5, <6>1 DEF Matched
          <6>2. ASSUME k = m.code, NEW i \in Arrived', arriving'[i].code = k PROVE FALSE
            <7>1. i + 1 \in Arrived /\ arriving[i + 1].code = k /\ i + 1 # 1
              BY <3>2, <6>2
            <7> QED
              BY <3>2, <4>5, <6>2, <7>1 DEF Matched
          <6> QED
            BY <2>one, <4>2, <6>1, <6>2
        <5>2. \A d \in asked' : code'[d] = k => state'[d] = "pending"
          BY <2>typ, <3>1, <4>2, <4>3, <4>5, <5>1 DEF Matched
        <5>3. ASSUME NEW i \in Arrived', arriving'[i].code = k
              PROVE  /\ arriving'[i].for \in Calls \ asked'
                     /\ state'[arriving'[i].for] = "pending" /\ code'[arriving'[i].for] = k
          <6>1. /\ arriving'[i].for \in Calls \ asked
                /\ state[arriving'[i].for] = "pending" /\ code[arriving'[i].for] = k
            BY <3>2, <4>5, <5>3 DEF Matched
          <6>2. k # m.code
            BY <5>1, <5>3
          <6> QED
            BY <3>1, <4>2, <4>3, <6>1, <6>2
        <5>4. ASSUME NEW i \in Arrived', NEW j \in Arrived',
                     arriving'[i].code = k, arriving'[j].code = k
              PROVE  i = j
          <6>1. i + 1 = j + 1
            BY <3>2, <4>5, <5>4 DEF Matched
          <6> QED
            BY <3>2, <6>1
        <5>5. \A d \in Calls : code'[d] = k /\ state'[d] = "resolved" => result'[d] = d
          BY <3>1, <4>2, <4>3, <4>5, <5>1 DEF Matched
        <5> QED
          BY <5>2, <5>3, <5>4, <5>5 DEF Matched
      <4> QED
        BY <2>0, <2>typ, <3>1, <4>3, <4>4, <4>5
    <3> QED
      BY <3>4, <3>5
  <2>3. ASSUME NEW c \in Calls, Timeout(c) PROVE MatchInv'
    <3>1. /\ state' = [state EXCEPT ![c] = "timedout"]
          /\ UNCHANGED <<code, result, asked, arriving, unsolicited>>
      BY <2>3 DEF Timeout
    <3>2. \A d \in Calls : d # c => state'[d] = state[d]
      BY <2>typ, <3>1
    <3>3. ASSUME NEW k \in Codes, Punctual(k)' PROVE Punctual(k) /\ code[c] # k
      BY <2>typ, <2>3, <3>1, <3>2, <3>3 DEF Punctual, Timeout
    <3>4. ASSUME NEW k \in Codes, Punctual(k)', Matched(k) PROVE Matched(k)'
      BY <2>typ, <3>1, <3>2, <3>3, <3>4 DEF Matched, Arrived
    <3> QED
      BY <2>0, <2>typ, <3>1, <3>3, <3>4
  <2>4. ASSUME NEW c \in Calls, NEW v \in BOOLEAN, Answer(c, v) PROVE MatchInv'
    <3> DEFINE m == [code |-> code[c], for |-> c, valid |-> v]
    <3>1. /\ c \in asked /\ asked' = asked \ {c} /\ arriving' = Append(arriving, m)
          /\ UNCHANGED <<state, code, result, unsolicited>>
      BY <2>4 DEF Answer, Send
    <3>2. m \in Response /\ m.code = code[c] /\ m.for = c
      BY <2>typ DEF Response
    <3> HIDE DEF m
    <3>3. \A i \in Arrived' :
             \/ i \in Arrived /\ arriving'[i] = arriving[i]
             \/ i \notin Arrived /\ i = Len(arriving) + 1 /\ arriving'[i] = m
      BY <2>typ, <3>1, <3>2, AppendResponses DEF Arrived
    <3>4. \A k \in Codes : Punctual(k)' => Punctual(k)
      BY <3>1 DEF Punctual
    <3>5. ASSUME NEW k \in Codes, Matched(k) PROVE Matched(k)'
      <4>1. code[c] = k => state[c] = "pending" /\ \A i \in Arrived : arriving[i].code # k
        BY <2>one, <3>1, <3>5 DEF Matched
      <4>2. ASSUME NEW i \in Arrived', arriving'[i].code = k
            PROVE  /\ arriving'[i].for \in Calls \ asked'
                   /\ state[arriving'[i].for] = "pending" /\ code[arriving'[i].for] = k
        <5>1. CASE i \in Arrived /\ arriving'[i] = arriving[i]
          BY <3>1, <3>5, <4>2, <5>1 DEF Matched
        <5>2. CASE arriving'[i] = m
          BY <3>1, <3>2, <4>1, <4>2, <5>2
        <5> QED
          BY <3>3, <5>1, <5>2
      <4>3. ASSUME NEW i \in Arrived', NEW j \in Arrived',
                   arriving'[i].code = k, arriving'[j].code = k
            PROVE  i = j
        <5>1. CASE code[c] = k
          BY <3>3, <4>1, <4>3, <5>1
        <5>2. CASE code[c] # k
          BY <3>2, <3>3, <3>5, <4>3, <5>2 DEF Matched
        <5> QED
          BY <5>1, <5>2
      <4> QED
        BY <3>1, <3>5, <4>2, <4>3 DEF Matched
    <3> QED
      BY <2>0, <2>typ, <3>1, <3>4, <3>5
  <2>5. ASSUME NEW c \in Calls, Ignore(c) PROVE MatchInv'
    <3>1. asked' = asked \ {c} /\ UNCHANGED <<state, code, result, arriving, unsolicited>>
      BY <2>5 DEF Ignore
    <3>2. \A k \in Codes : Punctual(k)' => Punctual(k)
      BY <3>1 DEF Punctual
    <3>3. ASSUME NEW k \in Codes, Matched(k) PROVE Matched(k)'
      BY <3>1, <3>3 DEF Matched, Arrived
    <3> QED
      BY <2>0, <2>typ, <3>1, <3>2, <3>3
  <2>6. ASSUME NEW k \in Codes, NEW v \in BOOLEAN, Unasked(k, v) PROVE MatchInv'
    <3>1. unsolicited' = unsolicited + 1 /\ result' = result
      BY <2>6 DEF Unasked
    <3>2. \A j \in Codes : ~Punctual(j)'
      BY <2>typ, <3>1 DEF Punctual
    <3> QED
      BY <2>0, <2>typ, <3>1, <3>2
  <2>7. CASE Break
    <3>1. /\ asked' = {} /\ Arrived' = {}
          /\ UNCHANGED <<state, code, result, unsolicited>>
      BY <2>7 DEF Break, Arrived
    <3>2. \A k \in Codes : Punctual(k)' => Punctual(k)
      BY <3>1 DEF Punctual
    <3>3. ASSUME NEW k \in Codes, Matched(k) PROVE Matched(k)'
      BY <3>1, <3>3 DEF Matched
    <3> QED
      BY <2>0, <2>typ, <3>1, <3>2, <3>3
  <2>8. CASE UNCHANGED vars
    BY <2>8 DEF vars, MatchInv, Punctual, Matched, Arrived
  <2> QED
    BY <2>1, <2>2, <2>3, <2>4, <2>5, <2>6, <2>7, <2>8 DEF Next, Local, Remote
<1> QED
  BY <1>1, <1>2, ResolverInvariant, PTL DEF Spec

\* While nothing arrives unasked and no call of a response code times out or is
\* refused, every call of that code gets its own response, though responses do
\* not say which request they answer and the remote node answers in any order.
THEOREM PunctualCallsGetTheirs == Spec => []PunctualCallsMatched
<1>1. ResolverInv /\ MatchInv => PunctualCallsMatched
  <2> SUFFICES ASSUME ResolverInv, MatchInv, NEW c \in Calls,
                      state[c] = "resolved", result[c] # c, ~(unsolicited > 0)
               PROVE  \E d \in Calls : code[d] = code[c] /\ state[d] \in {"timedout", "refused"}
    BY DEF PunctualCallsMatched
  <2>1. unsolicited = 0 /\ code[c] \in Codes
    BY DEF MatchInv, ResolverInv
  <2>2. ~Matched(code[c])
    BY DEF Matched
  <2> QED
    BY <2>1, <2>2 DEF MatchInv, Punctual
<1> QED
  BY <1>1, ResolverInvariant, MatchInvariant, PTL

-----------------------------------------------------------------------------
(* FlowControl *)

\* The types that the proofs need.  Of the client's entry only the shape is
\* needed: its estimate may be anything, as the server does not look at it.
ServerTypes ==
    /\ now \in Nat /\ spent \in Nat /\ fills \in Nat
    /\ count \in 1 .. MaxPerRequest
    /\ out \in [known : BOOLEAN, bv : 0 .. BL, last : Nat]
    /\ out.last <= now
    /\ in \in [kind : Kinds, ble : {in.ble}, last : {in.last}]

\* What is left of the buffer is accounted for at the time of the last request.
Accounted ==
    /\ spent <= BL * fills + MRR * now
    /\ out.known => spent + out.bv <= BL * fills + MRR * out.last

\* Between a request and the end of its reply the client has an estimate; a
\* reply that it keeps tells the buffer as it was at a time not after the reply.
ToldIsLeft ==
    /\ wire = "replied" => out.known /\ reply = out.bv
    /\ in.kind = "reply" =>
          /\ wire = "none" /\ out.known /\ in.ble = out.bv
          /\ in.last \in Nat /\ out.last <= in.last /\ in.last <= now

FlowInv == ServerTypes /\ Accounted /\ ToldIsLeft

-----------------------------------------------------------------------------
(* Arithmetic *)

\* A product of natural numbers is one.
LEMMA ProductNat == ASSUME NEW m \in Nat, NEW a \in Nat PROVE m * a \in Nat
  BY SMT

\* Multiplication distributes over sums.
LEMMA ProductSum ==
  ASSUME NEW m \in Nat, NEW a \in Nat, NEW b \in Nat
  PROVE  m * (a + b) = m * a + m * b
  BY SMT

\* Time passes: more is refilled.
LEMMA ProductMonotone ==
  ASSUME NEW m \in Nat, NEW a \in Nat, NEW b \in Nat, a <= b
  PROVE  m * a <= m * b /\ m * (b - a) \in Nat /\ m * b = m * a + m * (b - a)
<1>1. b - a \in Nat /\ b = a + (b - a) BY SMT
<1>2. m * b = m * a + m * (b - a) BY <1>1, ProductSum
<1>3. m * (b - a) \in Nat /\ m * a \in Nat BY <1>1, ProductNat
<1> QED BY <1>2, <1>3, SMT

\* What a request costs is never negative.
LEMMA CostPositive == ASSUME NEW n \in Nat PROVE Cost(n) \in Nat
  BY FlowAssumption, ProductNat DEF Cost

-----------------------------------------------------------------------------
(* The requests that the server deals with *)

\* The buffer of a client that the server knows, as it is at the next request.
LEMMA AvailableBounds ==
  ASSUME ServerTypes
  PROVE  /\ Available \in 0 .. BL
         /\ Refilled => Available <= out.bv + MRR * (now - out.last)
         /\ ~Refilled => Available = BL
<1>1. MRR * (now - out.last) \in Nat
  BY FlowAssumption, ProductMonotone DEF ServerTypes
<1> QED BY <1>1, FlowAssumption, SMT DEF ServerTypes, Available, Capped

\* Serve keeps the account: the cost is taken from what was available.
LEMMA ServeAccounts ==
  ASSUME ServerTypes, Accounted, Serve
  PROVE  Accounted'
<1> DEFINE left == Available - Cost(count)
<1>1. count \in Nat /\ Cost(count) \in Nat
  BY FlowAssumption, CostPositive, SMT DEF ServerTypes
<1>2. Available \in 0 .. BL BY AvailableBounds
<1>3. left \in Int BY <1>1, <1>2, FlowAssumption
<1>4. spent + Available <= BL * fills' + MRR * now
  <2>1. CASE Refilled
    <3>1. spent + out.bv <= BL * fills + MRR * out.last
      BY <2>1 DEF Refilled, Accounted
    <3>2. MRR * now = MRR * out.last + MRR * (now - out.last)
      BY FlowAssumption, ProductMonotone DEF ServerTypes
    <3>3. Available <= out.bv + MRR * (now - out.last)
      BY <2>1, AvailableBounds
    <3>4. fills' = fills BY <2>1 DEF Serve, Received
    <3>5. /\ MRR * (now - out.last) \in Nat /\ MRR * out.last \in Nat
          /\ BL * fills \in Nat /\ MRR * now \in Nat
          /\ out.bv \in Nat /\ spent \in Nat /\ Available \in Nat
      <4>1. /\ out.bv \in Nat /\ out.last \in Nat /\ out.last <= now
            /\ spent \in Nat /\ fills \in Nat /\ now \in Nat
        BY FlowAssumption, SMT DEF ServerTypes
      <4>2. Available \in Nat BY <1>2, FlowAssumption, SMT
      <4>3. MRR * (now - out.last) \in Nat BY <4>1, FlowAssumption, ProductMonotone
      <4>4. MRR * out.last \in Nat /\ BL * fills \in Nat /\ MRR * now \in Nat
        BY <4>1, FlowAssumption, ProductNat
      <4> QED BY <4>1, <4>2, <4>3, <4>4
    <3> HIDE DEF left
    <3> DEFINE gained == MRR * (now - out.last)
               before == MRR * out.last
               after  == MRR * now
               full   == BL * fills
               bv     == out.bv
    <3>6. /\ gained \in Nat /\ before \in Nat /\ after \in Nat /\ full \in Nat /\ bv \in Nat
          /\ spent + bv <= full + before /\ after = before + gained
          /\ Available <= bv + gained
      BY <3>1, <3>2, <3>3, <3>5
    <3>7. spent + Available <= full + after
      <4> HIDE DEF gained, before, after, full, bv
      <4> QED BY <3>5, <3>6, SMT
    <3> QED BY <3>4, <3>7
  <2>2. CASE ~Refilled
    <3>1. Available = BL BY <2>2, AvailableBounds
    <3>2. fills' = fills + 1 BY <2>2 DEF Serve, Received
    <3>3. BL * fills' = BL * fills + BL
      BY <3>2, FlowAssumption, SMT DEF ServerTypes
    <3>4. BL * fills \in Nat /\ MRR * now \in Nat
      BY FlowAssumption, ProductNat DEF ServerTypes
    <3> QED BY <3>1, <3>3, <3>4, FlowAssumption, SMT DEF ServerTypes, Accounted
  <2> QED BY <2>1, <2>2
<1>5. fills' \in Nat /\ now' = now BY SMT DEF Serve, Received, ServerTypes
<1>6. BL * fills' \in Nat /\ MRR * now \in Nat
  BY <1>5, FlowAssumption, ProductNat DEF ServerTypes
<1>7. CASE left < 0
  <2>1. out'.known = FALSE /\ spent' = spent BY <1>7 DEF Serve, Drop
  <2>2. spent <= BL * fills' + MRR * now
    BY <1>2, <1>4, <1>6, FlowAssumption, SMT DEF ServerTypes
  <2> QED BY <1>5, <2>1, <2>2 DEF Accounted
<1>8. CASE ~(left < 0)
  <2>1. /\ spent' = spent + Cost(count)
        /\ out'.bv = left /\ out'.last = now
    BY <1>8 DEF Serve, Grant
  <2>2. spent' + left = spent + Available
    BY <1>1, <1>2, <2>1, FlowAssumption, SMT DEF ServerTypes
  <2>3. left >= 0 BY <1>3, <1>8
  <2>4. spent' \in Nat BY <1>1, <2>1, SMT DEF ServerTypes
  <2>5. /\ spent' <= BL * fills' + MRR * now
        /\ spent' + left <= BL * fills' + MRR * now
    <3> HIDE DEF left
    <3> QED BY <1>3, <1>4, <1>6, <2>2, <2>3, <2>4, SMT
  <2> QED BY <1>5, <2>1, <2>5 DEF Accounted
<1> QED BY <1>7, <1>8

-----------------------------------------------------------------------------
(* The invariant *)

\* An estimate is never the BN of a reply.
LEMMA EstimateShape ==
  ASSUME ServerTypes
  PROVE  /\ Estimate.kind # "reply"
         /\ Estimate \in [kind : Kinds, ble : {Estimate.ble}, last : {Estimate.last}]
<1>1. in.kind \in Kinds BY DEF ServerTypes
<1>2. CASE in.kind = "absent" BY <1>2 DEF Estimate, Kinds
<1>3. CASE in.kind = "number" BY <1>3 DEF Estimate, Kinds
<1>4. CASE in.kind = "reply" BY <1>4 DEF Estimate, Kinds
<1>5. CASE in.kind = "nan" BY <1>5 DEF Estimate, Kinds, ServerTypes
<1> QED BY <1>1, <1>2, <1>3, <1>4, <1>5 DEF Kinds

\* Nothing is spent at first.
LEMMA FlowInitially == InitFlow => FlowInv
<1> SUFFICES ASSUME InitFlow PROVE FlowInv OBVIOUS
<1>1. BL * fills = 0 /\ MRR * now = 0 BY FlowAssumption, SMT DEF InitFlow
<1>2. ServerTypes BY FlowAssumption, SMT DEF InitFlow, ServerTypes, Kinds
<1>3. Accounted BY <1>1, FlowAssumption, SMT DEF InitFlow, Accounted
<1>4. ToldIsLeft BY DEF InitFlow, ToldIsLeft
<1> QED BY <1>2, <1>3, <1>4 DEF FlowInv

\* Every step of the server and its client keeps the invariant.
LEMMA FlowStep == FlowInv /\ [NextFlow]_flowVars => FlowInv'
<1> SUFFICES ASSUME FlowInv, [NextFlow]_flowVars PROVE FlowInv' OBVIOUS
<1> USE DEF FlowInv
<1>1. ASSUME NEW n \in 1 .. MaxPerRequest, Ask(n) PROVE FlowInv'
  <2>1. UNCHANGED <<now, serverV>> /\ count' = n /\ wire' = "asked" /\ in' = Estimate
    BY <1>1 DEF Ask
  <2>2. ServerTypes' BY <2>1, EstimateShape DEF ServerTypes, serverV
  <2>3. Accounted' BY <2>1 DEF Accounted, serverV
  <2>4. ToldIsLeft' BY <2>1, EstimateShape DEF ToldIsLeft
  <2> QED BY <2>2, <2>3, <2>4
<1>2. CASE Hold
  <2>1. ServerTypes' BY <1>2 DEF Hold, ServerTypes, serverV, Kinds
  <2>2. Accounted' BY <1>2 DEF Hold, Accounted, serverV
  <2>3. ToldIsLeft' BY <1>2 DEF Hold, ToldIsLeft, serverV
  <2> QED BY <2>1, <2>2, <2>3
<1>3. CASE HandleReply
  <2>1. ServerTypes' BY <1>3 DEF HandleReply, ServerTypes, serverV, Kinds
  <2>2. Accounted' BY <1>3 DEF HandleReply, Accounted, serverV
  <2>3. ToldIsLeft' BY <1>3 DEF HandleReply, ToldIsLeft, ServerTypes, serverV
  <2> QED BY <2>1, <2>2, <2>3
<1>4. CASE TimedOut
  <2>1. ServerTypes' BY <1>4 DEF TimedOut, ServerTypes, serverV, clientV
  <2>2. Accounted' BY <1>4 DEF TimedOut, Accounted, serverV
  <2>3. ToldIsLeft' BY <1>4 DEF TimedOut, ToldIsLeft, serverV, clientV
  <2> QED BY <2>1, <2>2, <2>3
<1>5. CASE Serve
  <2> DEFINE left == Available - Cost(count)
  <2>1. UNCHANGED <<now, clientV, count>> /\ wire \in {"asked", "late"}
    BY <1>5 DEF Serve, Received
  <2>2. Cost(count) \in Nat
    BY FlowAssumption, CostPositive, SMT DEF ServerTypes
  <2>3. Available \in 0 .. BL BY AvailableBounds
  <2>4. /\ spent' \in Nat /\ fills' \in Nat
        /\ out' \in [known : BOOLEAN, bv : 0 .. BL, last : Nat] /\ out'.last <= now
    <3>1. fills' \in Nat BY <1>5, SMT DEF Serve, Received, ServerTypes
    <3>2. CASE left < 0
      <4>1. out' = [known |-> FALSE, bv |-> 0, last |-> 0] /\ spent' = spent
        BY <1>5, <3>2 DEF Serve, Drop
      <4> QED BY <3>1, <4>1, FlowAssumption, SMT DEF ServerTypes
    <3>3. CASE ~(left < 0)
      <4>1. out' = [known |-> TRUE, bv |-> left, last |-> now] /\ spent' = spent + Cost(count)
        BY <1>5, <3>3 DEF Serve, Grant
      <4>2. left \in 0 .. BL BY <2>2, <2>3, <3>3, FlowAssumption, SMT
      <4> QED BY <2>2, <3>1, <4>1, <4>2, SMT DEF ServerTypes
    <3> QED BY <3>2, <3>3
  <2>5. ServerTypes' BY <2>1, <2>4 DEF ServerTypes, clientV
  <2>6. Accounted' BY <1>5, ServeAccounts
  <2>7. in'.kind # "reply" BY <2>1 DEF ToldIsLeft, clientV
  <2>8. wire' = "replied" => out'.known /\ reply' = out'.bv
    BY <1>5 DEF Serve, Drop, Grant
  <2>9. ToldIsLeft' BY <2>7, <2>8 DEF ToldIsLeft
  <2> QED BY <2>5, <2>6, <2>9
<1>6. CASE Reconnect
  BY <1>6 DEF Reconnect, ServerTypes, Accounted, ToldIsLeft, clientV, serverV
<1>7. CASE Tick
  <2>1. now' = now + 1 /\ UNCHANGED <<clientV, serverV, wire, count, reply>>
    BY <1>7 DEF Tick
  <2>2. ServerTypes' BY <2>1, SMT DEF ServerTypes, clientV, serverV
  <2>3. MRR * now <= MRR * now' /\ MRR * now' \in Nat /\ MRR * now \in Nat
    <3>1. now' \in Nat /\ now <= now' BY <2>1, SMT DEF ServerTypes
    <3> QED BY <3>1, FlowAssumption, ProductMonotone, ProductNat DEF ServerTypes
  <2>4. BL * fills \in Nat BY FlowAssumption, ProductNat DEF ServerTypes
  <2>5. Accounted'
    <3>1. spent <= BL * fills + MRR * now'
      BY <2>3, <2>4, SMT DEF ServerTypes, Accounted
    <3> QED BY <2>1, <3>1 DEF Accounted, serverV
  <2>6. ToldIsLeft' BY <2>1, SMT DEF ToldIsLeft, ServerTypes, clientV, serverV
  <2> QED BY <2>2, <2>5, <2>6
<1>8. CASE UNCHANGED flowVars
  BY <1>8 DEF flowVars, ServerTypes, Accounted, ToldIsLeft
<1> QED BY <1>1, <1>2, <1>3, <1>4, <1>5, <1>6, <1>7, <1>8 DEF NextFlow

\* FlowInv holds in every reachable state.
THEOREM FlowInvariant == SpecFlow => []FlowInv
<1>1. InitFlow => FlowInv BY FlowInitially
<1>2. FlowInv /\ [NextFlow]_flowVars => FlowInv' BY FlowStep
<1> QED BY <1>1, <1>2, PTL DEF SpecFlow

-----------------------------------------------------------------------------
(* The properties *)

\* handleRequest() serves at most one buffer per fill and the refill of the
\* time that has passed, whatever clients ask and however often they return.
THEOREM ServedWithinRate == SpecFlow => []RateBound
<1>1. FlowInv => RateBound BY DEF FlowInv, Accounted, RateBound
<1> QED BY <1>1, FlowInvariant, PTL

\* What handleReply() keeps of a reply never overstates what handleRequest()
\* has for the client at its next request.
THEOREM RepliesAreSafe == SpecFlow => []ReplyIsSafe
<1>1. FlowInv => ReplyIsSafe
  <2> SUFFICES ASSUME FlowInv, in.kind = "reply"
               PROVE  Capped(in.ble + MRR * (now - in.last)) <= Available
    BY DEF ReplyIsSafe
  <2>1. /\ out.known /\ in.ble = out.bv /\ out.bv \in 0 .. BL
        /\ in.last \in Nat /\ out.last \in Nat /\ now \in Nat
        /\ out.last <= in.last /\ in.last <= now
    BY DEF FlowInv, ToldIsLeft, ServerTypes
  <2>2. now - in.last \in Nat /\ now - out.last \in Nat /\ now - in.last <= now - out.last
    BY <2>1, SMT
  <2>3. /\ MRR * (now - in.last) <= MRR * (now - out.last)
        /\ MRR * (now - in.last) \in Nat /\ MRR * (now - out.last) \in Nat
    BY <2>2, FlowAssumption, ProductMonotone, ProductNat
  <2> DEFINE mine == MRR * (now - in.last)
             theirs == MRR * (now - out.last)
  <2>4. mine \in Nat /\ theirs \in Nat /\ mine <= theirs BY <2>3
  <2>5. Capped(in.ble + mine) <= Available
    <3> HIDE DEF mine
    <3>1. CASE Refilled
      <4>1. Available = Capped(out.bv + theirs) BY <3>1 DEF Available
      <4> HIDE DEF theirs
      <4> QED BY <2>1, <2>4, <4>1, FlowAssumption, SMT DEF Capped
    <3>2. CASE ~Refilled
      <4>1. Available = BL BY <3>2 DEF Available
      <4> HIDE DEF theirs
      <4> QED BY <2>1, <2>4, <4>1, FlowAssumption, SMT DEF Capped
    <3> QED BY <3>1, <3>2
  <2> QED BY <2>5
<1> QED BY <1>1, FlowInvariant, PTL

=============================================================================
