--------------------------- MODULE HandshakeProofs ---------------------------
(***************************************************************************)
(* What a devp2p peer goes through in Handshake, proved for any number of  *)
(* protocols and requests: it is announced whole, keeps its listeners, and *)
(* gets one answer for a request.                                          *)
(***************************************************************************)
EXTENDS Handshake, TLAPS

States == {"none", "dialing", "waiting", "resolved", "bound", "failed", "stuck"}

Events == {"connected", "error", "disconnected"}

TypeOK ==
    /\ kind \in {"accept", "connect", "dial"}
    /\ hs \in [Channels -> States]
    /\ run \in {"idle", "binding", "ended"}
    /\ link \in BOOLEAN /\ flag \in BOOLEAN /\ server \in BOOLEAN
    /\ member \in BOOLEAN /\ thrown \in BOOLEAN
    /\ told \in Seq(Events)
    /\ heard \in Nat
    /\ asked \in [Protocols -> Nat] /\ serving \in [Protocols -> Nat]
    /\ answers \in [Protocols -> Nat]

\* A devp2p node opens no streams and is not dialed.
OneWay ==
    \A c \in Channels : hs[c] # "dialing" /\ (c[2] = "in" => hs[c] = "none")

\* Before bindProtocols() the peer is untouched; afterwards a promise is
\* pending only while the connection is open.
Pending ==
    /\ run = "idle" => /\ told = <<>> /\ link = FALSE
                       /\ \A c \in Channels : hs[c] = "none"
    /\ run # "idle" /\ link = FALSE => \A c \in Channels : hs[c] # "resolved"

\* It is announced at the end of bindProtocols(), with every protocol bound and
\* the listeners attached; the connection ends after that, if it was announced.
Announced ==
    /\ Has("connected") => /\ run = "ended"
                           /\ \A c \in Channels : hs[c] \in {"bound", "none"}
                           /\ kind = "accept" => heard = 1
    /\ ~Has("connected") => heard = 0
    /\ heard <= 1
    /\ Has("disconnected") => link = FALSE /\ run # "idle"

DevpInv == OneWay /\ Pending /\ Announced /\ FlagFollowsEvents /\ AnsweredOnce

PeerInv == TypeOK /\ (kind # "dial" => DevpInv)
-----------------------------------------------------------------------------
(* Types *)

\* An event more is in the set of the events emitted.
LEMMA Appended ==
    ASSUME TypeOK, NEW e \in Events, told' = Append(told, e)
    PROVE  /\ told' \in Seq(Events)
           /\ \A event : Has(event)' <=> Has(event) \/ event = e
<1> DEFINE more == Append(told, e)
<1>0. told \in Seq(Events)
  BY DEF TypeOK
<1>1. /\ DOMAIN more = 1 .. Len(told) + 1 /\ DOMAIN told = 1 .. Len(told)
      /\ Len(told) \in Nat /\ more[Len(told) + 1] = e
      /\ more \in Seq(Events)
  BY <1>0
<1>2. \A i \in 1 .. Len(told) : more[i] = told[i]
  BY <1>0
<1> HIDE DEF more
<1>3. ToSet(more) \subseteq ToSet(told) \cup {e}
  BY <1>1, <1>2 DEF ToSet
<1>4. ToSet(told) \subseteq ToSet(more)
  <2> SUFFICES ASSUME NEW i \in 1 .. Len(told) PROVE told[i] \in ToSet(more)
    BY <1>1 DEF ToSet
  <2>1. i \in DOMAIN more
    BY <1>1
  <2> QED BY <2>1, <1>2 DEF ToSet
<1>5. e \in ToSet(more)
  <2>1. Len(told) + 1 \in DOMAIN more
    BY <1>1
  <2> QED BY <2>1, <1>1 DEF ToSet
<1>6. ToSet(more) = ToSet(told) \cup {e} /\ told' = more
  BY <1>3, <1>4, <1>5 DEF more
<1> QED BY <1>1, <1>6 DEF Has

\* What follows the settling of a channel keeps the types.
LEMMA SettledType ==
    ASSUME TypeOK, NEW c \in Channels, Settled(c)
    PROVE  /\ run' \in {"idle", "binding", "ended"}
           /\ flag' \in BOOLEAN /\ server' \in BOOLEAN /\ member' \in BOOLEAN
           /\ told' \in Seq(Events)
           /\ heard' \in Nat
<1>1. CASE Connects(c) /\ Connected /\ run' = (IF c[2] = "out" THEN "ended" ELSE run)
           /\ flag' = (flag \/ c[2] = "out")
  <2>1. told' \in Seq(Events)
    BY <1>1, Appended DEF Connected, Events
  <2>2. heard' \in Nat
    BY <1>1 DEF TypeOK, Connected
  <2>3. member' \in BOOLEAN
    BY <1>1 DEF TypeOK, Connected
  <2>4. server' \in BOOLEAN
    BY <1>1 DEF Connected
  <2>5. run' \in {"idle", "binding", "ended"} /\ flag' \in BOOLEAN
    BY <1>1 DEF TypeOK
  <2> QED BY <2>1, <2>2, <2>3, <2>4, <2>5
<1>2. CASE Rejects(c) /\ told' = Append(told, "error") /\ run' = "ended"
           /\ UNCHANGED <<flag, server, heard, member>>
  BY <1>2, Appended DEF TypeOK, Events
<1>3. CASE UNCHANGED <<peerV, poolV>>
  BY <1>3 DEF TypeOK, peerV, poolV
<1> QED BY <1>1, <1>2, <1>3 DEF Settled

\* Every variable keeps its type.
LEMMA TypeStep == TypeOK /\ [Next]_vars => TypeOK'
<1> SUFFICES ASSUME TypeOK, [Next]_vars PROVE TypeOK'
  OBVIOUS
<1> USE DEF serveV, statusV
<1>1. CASE RlpxBind
  <2>1. hs' \in [Channels -> States]
    BY <1>1 DEF RlpxBind, Begun, States
  <2>2. told' = told \/ told' = Append(told, "error")
    BY <1>1 DEF RlpxBind
  <2>4. told' \in Seq(Events)
    BY <2>2, Appended DEF TypeOK, Events
  <2>3. run' \in {"idle", "binding", "ended"}
    BY <1>1 DEF RlpxBind, TypeOK
  <2> QED BY <1>1, <2>1, <2>3, <2>4 DEF RlpxBind, TypeOK
<1>2. CASE Dial
  <2>1. hs' \in [Channels -> States]
    BY <1>2 DEF Dial, States
  <2> QED BY <1>2, <2>1 DEF Dial, TypeOK, poolV
<1>3. CASE Removed
  <2>1. told' = told \/ told' = Append(told, "disconnected")
    BY <1>3 DEF Removed
  <2>2. told' \in Seq(Events)
    BY <2>1, Appended DEF TypeOK, Events
  <2>3. flag' \in BOOLEAN
    BY <1>3 DEF Removed
  <2> QED BY <1>3, <2>2, <2>3 DEF Removed, TypeOK
<1>4. ASSUME NEW c \in Channels, NEW x \in States, hs' = [hs EXCEPT ![c] = x],
             Settled(c), UNCHANGED <<kind, link, serveV, thrown>>
      PROVE  TypeOK'
  <2>1. hs' \in [Channels -> States]
    BY <1>4 DEF TypeOK
  <2> QED BY <1>4, <2>1, SettledType DEF TypeOK
<1>5. ASSUME NEW p \in Protocols, Dialed(p) \/ DialFailed(p) \/ Stream(p) \/ Answer(p)
      PROVE  TypeOK'
  <2>0. <<p, "out">> \in Channels /\ <<p, "in">> \in Channels
    BY DEF Channels
  <2>1. CASE Dialed(p)
    BY <2>0, <2>1, <1>4 DEF Dialed, Begun, States
  <2>2. CASE DialFailed(p)
    BY <2>0, <2>2, <1>4 DEF DialFailed, States
  <2>3. CASE Stream(p)
    <3>1. hs' \in [Channels -> States]
      BY <2>3, <2>0 DEF Stream, TypeOK, Begun, States
    <3> QED BY <3>1, <2>3 DEF Stream, TypeOK, peerV, poolV
  <2>4. CASE Answer(p)
    BY <2>4 DEF Answer, TypeOK, peerV, poolV
  <2> QED BY <1>5, <2>1, <2>2, <2>3, <2>4
<1>6. ASSUME NEW c \in Channels,
             Status(c) \/ Timeout(c) \/ Bind(c) \/ Request(c) \/ Broken(c)
      PROVE  TypeOK'
  <2>1. CASE Status(c)
    <3>1. hs' \in [Channels -> States]
      BY <2>1 DEF Status, TypeOK, States
    <3> QED BY <3>1, <2>1 DEF Status, TypeOK, peerV, poolV
  <2>2. CASE Timeout(c)
    BY <2>2, <1>4 DEF Timeout, States
  <2>3. CASE Bind(c)
    BY <2>3, <1>4 DEF Bind, States
  <2>4. CASE Request(c)
    <3>1. c[1] \in Protocols
      BY DEF Channels
    <3>2. asked' \in [Protocols -> Nat] /\ serving' \in [Protocols -> Nat]
      BY <2>4, <3>1 DEF Request, TypeOK
    <3> QED BY <2>4, <3>2 DEF Request, TypeOK, peerV, poolV
  <2>5. CASE Broken(c)
    <3>1. thrown' \in BOOLEAN /\ member' \in BOOLEAN
      BY <2>5 DEF Broken, TypeOK
    <3> QED BY <2>5, <3>1 DEF Broken, TypeOK, peerV
  <2> QED BY <1>6, <2>1, <2>2, <2>3, <2>4, <2>5
<1>7. CASE UNCHANGED vars
  BY <1>7 DEF TypeOK, vars, peerV, poolV
<1> QED BY <1>1, <1>2, <1>3, <1>5, <1>6, <1>7 DEF Next
-----------------------------------------------------------------------------
(* The events of a devp2p peer *)

\* A handshake ends, well or not, and whoever waits for it goes on: only the
\* last one of a bindProtocols() in which none failed announces the peer.
LEMMA SettledStep ==
    ASSUME TypeOK, DevpInv, kind # "dial", NEW c \in Channels,
           \/ hs[c] = "waiting" /\ hs' = [hs EXCEPT ![c] = "failed"]
           \/ hs[c] = "resolved" /\ hs' = [hs EXCEPT ![c] = "bound"],
           Settled(c), UNCHANGED <<kind, link, serveV, thrown>>
    PROVE  DevpInv'
<1> USE DEF DevpInv
<1>1. c[2] = "out"
  BY DEF OneWay, Channels
<1>2. hs[c] \in {"waiting", "resolved"} /\ hs'[c] \in {"failed", "bound"}
  BY DEF TypeOK
<1>3. \A d \in Channels : d # c => hs'[d] = hs[d]
  BY DEF TypeOK
<1>4. ~Has("connected") /\ heard = 0 /\ run # "idle"
  BY <1>2 DEF Announced, Pending, OneWay
<1>5. OneWay'
  BY <1>1, <1>2, <1>3 DEF OneWay
<1>6. AnsweredOnce'
  BY DEF AnsweredOnce, serveV
<1>7. run' # "idle" /\ (link' = FALSE => \A d \in Channels : hs'[d] # "resolved")
  <2>1. run' # "idle"
    BY <1>4 DEF Settled, peerV
  <2>2. ASSUME link' = FALSE, NEW d \in Channels PROVE hs'[d] # "resolved"
    BY <2>2, <1>2, <1>3, <1>4 DEF Pending
  <2> QED BY <2>1, <2>2
<1>8. CASE Connects(c) /\ Connected /\ run' = "ended" /\ flag' = TRUE
  <2>1. run = "binding" /\ AllBound
    BY <1>8, <1>1 DEF Connects
  <2>2. hs[c] = "resolved" /\ link = TRUE
    <3>1. hs'[c] = "bound"
      BY <2>1, <1>2 DEF AllBound
    <3>2. hs[c] = "resolved"
      BY <3>1 DEF TypeOK
    <3> QED BY <3>2, <2>1 DEF Pending, TypeOK
  <2>3. ~Has("disconnected")
    BY <2>2 DEF Announced
  <2>4. Has("connected")' /\ ~Has("disconnected")'
    BY <1>8, <2>3, Appended DEF Connected, Events
  <2>5. kind = "accept" => heard' = 1
    BY <1>8, <1>4 DEF Connected
  <2>6. heard' <= 1
    BY <1>8, <1>4 DEF Connected
  <2>7. Announced'
    BY <1>8, <2>1, <2>4, <2>5, <2>6 DEF Announced, AllBound
  <2>8. FlagFollowsEvents'
    BY <1>8, <2>4, Zenon DEF FlagFollowsEvents
  <2> QED BY <1>5, <1>6, <1>7, <2>7, <2>8 DEF Pending
<1>9. CASE run' = "ended" /\ told' = Append(told, "error") /\ UNCHANGED <<flag, heard>>
  <2>1. \A e \in {"connected", "disconnected"} : Has(e)' <=> Has(e)
    BY <1>9, Appended DEF Events
  <2>2. Announced'
    BY <1>9, <1>4, <2>1 DEF Announced
  <2>3. FlagFollowsEvents'
    BY <1>9, <2>1 DEF FlagFollowsEvents
  <2> QED BY <1>5, <1>6, <1>7, <2>2, <2>3 DEF Pending
<1>10. CASE UNCHANGED <<run, flag, told, heard>>
  <2>1. Announced'
    BY <1>10, <1>4 DEF Announced, Has
  <2>2. FlagFollowsEvents'
    BY <1>10 DEF FlagFollowsEvents, Has
  <2> QED BY <1>5, <1>6, <1>7, <1>10, <2>1, <2>2 DEF Pending
<1> QED
  <2>1. flag' = (flag \/ c[2] = "out") => flag' = TRUE
    BY <1>1
  <2> QED BY <1>1, <1>8, <1>9, <1>10, <2>1 DEF Settled, peerV, poolV
\* The connection comes, with the protocols that both sides have.
LEMMA RlpxBindStep ==
    ASSUME TypeOK, TypeOK', DevpInv, RlpxBind PROVE DevpInv'
<1> USE DEF DevpInv
<1>1. told = <<>> /\ \A e : ~Has(e)
  BY DEF RlpxBind, Pending, Has, ToSet
<1>2. heard = 0 /\ heard' = 0
  BY <1>1 DEF RlpxBind, Announced
<1>3. \A e : Has(e)' => e = "error"
  <2>1. told' = told \/ told' = Append(told, "error")
    BY DEF RlpxBind
  <2>2. CASE told' = told
    BY <2>2, <1>1 DEF Has
  <2>3. CASE told' = Append(told, "error")
    BY <2>3, <1>1, Appended DEF Events
  <2> QED BY <2>1, <2>2, <2>3
<1>4. OneWay'
  <2> SUFFICES ASSUME NEW c \in Channels
               PROVE  hs'[c] # "dialing" /\ (c[2] = "in" => hs'[c] = "none")
    BY DEF OneWay
  <2> QED BY DEF RlpxBind, Begun
<1>5. Pending'
  BY DEF RlpxBind, Pending
<1>6. Announced'
  BY <1>2, <1>3 DEF Announced
<1>7. FlagFollowsEvents'
  <2>1. kind = "connect" => flag = FALSE
    BY <1>1, Zenon DEF FlagFollowsEvents
  <2>2. flag' = flag /\ kind' = kind
    BY DEF RlpxBind
  <2>3. ~Has("connected")'
    BY <1>3
  <2> QED BY <2>1, <2>2, <2>3 DEF FlagFollowsEvents
<1>8. AnsweredOnce'
  BY DEF RlpxBind, AnsweredOnce, serveV
<1> QED BY <1>4, <1>5, <1>6, <1>7, <1>8

\* The connection ends.
LEMMA RemovedStep ==
    ASSUME TypeOK, DevpInv, Removed PROVE DevpInv'
<1> USE DEF DevpInv, statusV
<1>1. run # "idle" /\ run' = run /\ hs' = hs /\ link' = FALSE /\ heard' = heard
  BY DEF Removed, Pending
<1>2. Has("connected")' <=> Has("connected")
  <2>1. told' = told \/ told' = Append(told, "disconnected")
    BY DEF Removed
  <2>2. CASE told' = told
    BY <2>2 DEF Has
  <2>3. CASE told' = Append(told, "disconnected")
    BY <2>3, Appended DEF Events
  <2> QED BY <2>1, <2>2, <2>3
<1>3. OneWay'
  BY <1>1 DEF OneWay
<1>4. Pending'
  BY <1>1 DEF Removed, Pending
<1>5. Announced'
  BY <1>1, <1>2 DEF Announced, Removed
<1>6. FlagFollowsEvents'
  <2>1. ASSUME kind' = "connect" PROVE flag' = FALSE /\ Has("disconnected")'
    <3>1. kind = "connect"
      BY <2>1 DEF Removed
    <3>2. told' = Append(told, "disconnected") /\ flag' = FALSE
      BY <3>1 DEF Removed
    <3> QED BY <3>2, Appended DEF Events
  <2> QED BY <2>1 DEF FlagFollowsEvents
<1>7. AnsweredOnce'
  BY DEF Removed, AnsweredOnce, serveV
<1> QED BY <1>3, <1>4, <1>5, <1>6, <1>7

\* A request is handed to the service by each listener of the pool, and an
\* answer is for a request that was.
LEMMA ServeStep ==
    ASSUME TypeOK, TypeOK', DevpInv, kind # "dial",
           \/ \E c \in Channels : Request(c)
           \/ \E p \in Protocols : Answer(p)
    PROVE  DevpInv'
<1> USE DEF DevpInv
<1>1. UNCHANGED <<kind, hs, link, run, flag, told, heard>>
  BY DEF Request, Answer, statusV, peerV, poolV
<1>2. OneWay' /\ Pending' /\ Announced'
  BY <1>1 DEF OneWay, Pending, Announced, Has
<1>3. FlagFollowsEvents'
  BY <1>1 DEF FlagFollowsEvents, Has
<1>4. AnsweredOnce'
  <2> SUFFICES ASSUME NEW p \in Protocols
               PROVE  answers'[p] + serving'[p] <= asked'[p]
    BY DEF AnsweredOnce
  <2>1. answers[p] + serving[p] <= asked[p]
    BY DEF AnsweredOnce
  <2>2. ASSUME NEW c \in Channels, Request(c)
        PROVE  answers'[p] + serving'[p] <= asked'[p]
    <3>1. answers' = answers /\ heard \in 0 .. 1 /\ c[1] \in Protocols
      BY <2>2 DEF Request, Announced, TypeOK, Channels
    <3>2. asked'[p] = IF p = c[1] THEN asked[p] + 1 ELSE asked[p]
      BY <2>2 DEF Request, TypeOK
    <3>3. \/ serving'[p] = serving[p]
          \/ p = c[1] /\ serving'[p] = serving[p] + heard
      BY <2>2 DEF Request, TypeOK
    <3> QED BY <2>1, <3>1, <3>2, <3>3 DEF TypeOK
  <2>3. ASSUME NEW q \in Protocols, Answer(q)
        PROVE  answers'[p] + serving'[p] <= asked'[p]
    <3>1. asked' = asked /\ serving[q] > 0
      BY <2>3 DEF Answer
    <3>2. serving'[p] = (IF p = q THEN serving[p] - 1 ELSE serving[p])
      BY <2>3 DEF Answer, TypeOK
    <3>3. answers'[p] = (IF p = q THEN answers[p] + 1 ELSE answers[p])
      BY <2>3 DEF Answer, TypeOK
    <3> QED BY <2>1, <3>1, <3>2, <3>3 DEF TypeOK
  <2> QED BY <2>2, <2>3
<1> QED BY <1>2, <1>3, <1>4

\* PeerInv is inductive.
LEMMA PeerInvariant == Spec => []PeerInv
<1>1. Init => PeerInv
  <2> SUFFICES ASSUME Init PROVE PeerInv
    OBVIOUS
  <2>1. TypeOK
    <3>1. told \in Seq(Events)
      BY DEF Init
    <3>2. hs \in [Channels -> States]
      BY DEF Init, States
    <3> QED BY <3>1, <3>2 DEF Init, TypeOK
  <2>2. \A e : ~Has(e)
    BY DEF Init, Has, ToSet
  <2>3. OneWay /\ Pending /\ Announced
    BY <2>2 DEF Init, OneWay, Pending, Announced
  <2>4. FlagFollowsEvents
    BY <2>2, Zenon DEF Init, FlagFollowsEvents
  <2>5. AnsweredOnce
    BY DEF Init, AnsweredOnce
  <2> QED BY <2>1, <2>3, <2>4, <2>5 DEF PeerInv, DevpInv
<1>2. PeerInv /\ [Next]_vars => PeerInv'
  <2> SUFFICES ASSUME PeerInv, [Next]_vars PROVE PeerInv'
    OBVIOUS
  <2>1. TypeOK /\ TypeOK'
    BY TypeStep DEF PeerInv
  <2>2. SUFFICES ASSUME kind' # "dial" PROVE DevpInv'
    BY <2>1 DEF PeerInv
  <2>3. kind' = kind
    BY DEF Next, vars, RlpxBind, Dial, Removed, Dialed, DialFailed, Stream, Answer,
       Status, Timeout, Bind, Request, Broken
  <2>4. DevpInv /\ kind # "dial"
    BY <2>2, <2>3 DEF PeerInv
  <2>5. CASE RlpxBind
    BY <2>1, <2>4, <2>5, RlpxBindStep
  <2>6. CASE Removed
    BY <2>1, <2>4, <2>6, RemovedStep
  <2>7. CASE \E p \in Protocols : Dialed(p) \/ DialFailed(p) \/ Stream(p)
    BY <2>4, <2>7 DEF Dialed, DialFailed, Stream, DevpInv, OneWay, Channels
  <2>8. CASE \/ \E c \in Channels : Request(c)
             \/ \E p \in Protocols : Answer(p)
    BY <2>1, <2>4, <2>8, ServeStep
  <2>9. ASSUME NEW c \in Channels, Timeout(c) \/ Bind(c) PROVE DevpInv'
    BY <2>1, <2>4, <2>9, SettledStep DEF Timeout, Bind
  <2>10. ASSUME NEW c \in Channels, Status(c) PROVE DevpInv'
    <3>1. /\ UNCHANGED <<kind, link, run, flag, told, heard, serveV>>
          /\ hs[c] = "waiting" /\ link
      BY <2>10 DEF Status, peerV, poolV
    <3>2. c[2] = "out" /\ ~Has("connected") /\ run # "idle"
      BY <2>4, <3>1 DEF DevpInv, OneWay, Announced, Pending, Channels
    <3>3. \A d \in Channels : hs'[d] = hs[d] \/ (d = c /\ hs'[d] \in {"resolved", "stuck"})
      BY <2>1, <2>10 DEF Status, TypeOK
    <3>4. OneWay' /\ Pending'
      BY <2>4, <3>1, <3>2, <3>3 DEF DevpInv, OneWay, Pending
    <3>5. Announced'
      BY <2>4, <3>1, <3>2 DEF DevpInv, Announced, Has
    <3>6. FlagFollowsEvents' /\ AnsweredOnce'
      BY <2>4, <3>1 DEF DevpInv, FlagFollowsEvents, AnsweredOnce, Has, serveV
    <3> QED BY <3>4, <3>5, <3>6 DEF DevpInv
  <2>11. ASSUME UNCHANGED <<kind, hs, link, run, flag, told, heard, serveV>> PROVE DevpInv'
    <3>1. OneWay' /\ Pending' /\ Announced'
      BY <2>4, <2>11 DEF DevpInv, OneWay, Pending, Announced, Has
    <3>2. FlagFollowsEvents' /\ AnsweredOnce'
      BY <2>4, <2>11 DEF DevpInv, FlagFollowsEvents, AnsweredOnce, Has, serveV
    <3> QED BY <3>1, <3>2 DEF DevpInv
  <2>12. ASSUME NEW c \in Channels, Broken(c) PROVE DevpInv'
    BY <2>11, <2>12 DEF Broken, statusV, peerV
  <2>13. CASE UNCHANGED vars
    BY <2>11, <2>13 DEF vars, statusV, peerV, poolV
  <2>14. ~Dial
    BY <2>4 DEF Dial
  <2> QED BY <2>5, <2>6, <2>7, <2>8, <2>9, <2>10, <2>12, <2>13, <2>14 DEF Next
<1> QED BY <1>1, <1>2, PTL DEF Spec

-----------------------------------------------------------------------------
(* The properties *)

\* A devp2p peer is announced only when every protocol that both sides have is
\* bound: Promise.all() in bindProtocols(), with the statuses, the timeouts and
\* the end of the connection in any order, for any number of protocols.
THEOREM AnnouncedWhole == Spec => []ConnectedIsWhole
<1>1. PeerInv => ConnectedIsWhole
  BY DEF PeerInv, DevpInv, Announced, ConnectedIsWhole
<1> QED BY <1>1, PeerInvariant, PTL

\* A devp2p peer gets at most the answers that it asked for: the pool listens
\* to it once, whatever happens while a handler of the service awaits the chain.
THEOREM OneAnswerEach == Spec => []AnsweredOnce
<1>1. PeerInv => AnsweredOnce
  BY DEF PeerInv, DevpInv, AnsweredOnce
<1> QED BY <1>1, PeerInvariant, PTL

\* peer.connected agrees with the events that the user of connect() has seen.
THEOREM FlagIsTrue == Spec => []FlagFollowsEvents
<1>1. PeerInv => FlagFollowsEvents
  BY DEF PeerInv, DevpInv, FlagFollowsEvents
<1> QED BY <1>1, PeerInvariant, PTL

\* An error of a devp2p peer that was announced always meets a listener.
THEOREM AnnouncedIsHeard == Spec => ThrowsOnlyWhileBinding
<1>1. PeerInv /\ [Next]_vars =>
        [kind # "dial" /\ thrown' /\ ~thrown => ~Has("connected")]_vars
  <2> SUFFICES ASSUME PeerInv, [Next]_vars, kind # "dial", thrown', ~thrown,
                      Has("connected")
               PROVE  FALSE
    OBVIOUS
  <2>1. PICK c \in Channels : Broken(c)
    BY DEF Next, vars, RlpxBind, Dial, Removed, Dialed, DialFailed, Stream, Answer,
       Status, Timeout, Bind, Request
  <2>2. hs[c] = "bound" /\ (kind # "connect" => heard = 1)
    BY <2>1 DEF Broken, Open, PeerInv, DevpInv, Announced, TypeOK
  <2>3. thrown' = (thrown \/ hs[c] # "bound" \/ (kind # "connect" /\ heard = 0))
    BY <2>1 DEF Broken
  <2>4. thrown' = FALSE
    <3>1. ~(hs[c] # "bound" \/ (kind # "connect" /\ heard = 0))
      BY <2>2
    <3> QED BY <2>3, <3>1, Zenon
  <2> QED BY <2>4
<1> QED BY <1>1, PeerInvariant, PTL DEF Spec, ThrowsOnlyWhileBinding

-----------------------------------------------------------------------------
(* Binding is never stuck *)

\* What a protocol that is not bound yet waits for: the outcome of the dial, a
\* status or its timer, the promises that are pending, or for nothing any more.
Unsettled == {"dialing", "waiting", "resolved", "stuck"}

\* bindProtocols() is not over while a handshake is pending, and not later; over
\* libp2p its end is the announcement.
BindingGoesOn ==
    /\ run = "binding" => \E p \in Protocols : hs[<<p, "out">>] \in Unsettled
    /\ kind # "dial" /\ run = "binding" => \A p \in Protocols : hs[<<p, "out">>] # "failed"
    /\ kind = "dial" /\ run = "ended" => Has("connected")

\* What was dialed stays so.
Dialing == kind = "dial" /\ run # "idle" => \A p \in Protocols : hs[<<p, "out">>] # "none"

BindInv == BindingGoesOn /\ Dialing

\* A channel settles, and the last one that bindProtocols() waits for ends it.
LEMMA SettledBinding ==
    ASSUME PeerInv, TypeOK', BindInv, NEW c \in Channels, hs[c] # "none",
           NEW s \in States \ {"none"}, hs' = [hs EXCEPT ![c] = s],
           Settled(c), UNCHANGED kind
    PROVE  BindInv'
<1>1. PICK p \in Protocols : c = <<p, "out">> \/ c = <<p, "in">>
  BY DEF Channels
<1>2. /\ \A d \in Channels : d # c => hs'[d] = hs[d]
      /\ hs'[c] = s /\ s # "none" /\ kind' = kind
      /\ \A q \in Protocols : <<q, "out">> \in Channels /\ <<q, "in">> \in Channels
  BY DEF PeerInv, TypeOK, Channels
<1>3. \A e : Has(e) /\ (told' = told \/ \E x \in Events : told' = Append(told, x)) => Has(e)'
  <2>1. ASSUME told' = told, NEW e, Has(e) PROVE Has(e)'
    BY <2>1 DEF Has
  <2>2. ASSUME NEW x \in Events, told' = Append(told, x), NEW e, Has(e) PROVE Has(e)'
    BY <2>2, Appended DEF PeerInv
  <2> QED
    BY <2>1, <2>2
<1>4. told' = told \/ \E x \in Events : told' = Append(told, x)
  BY DEF Settled, Connected, poolV, Events
<1>5. CASE c = <<p, "in">>
  <2>1. kind = "dial"
    BY <1>1, <1>5 DEF PeerInv, DevpInv, OneWay
  <2>2. c[2] = "in" /\ c[2] # "out"
    BY <1>5
  <2>3. run' = run
    BY <2>1, <2>2 DEF Settled, Rejects, peerV
  <2>4. \A q \in Protocols : hs'[<<q, "out">>] = hs[<<q, "out">>]
    BY <1>2, <1>5
  <2> QED
    BY <1>2, <1>3, <1>4, <2>1, <2>3, <2>4 DEF BindInv, BindingGoesOn, Dialing
<1>6. CASE c = <<p, "out">>
  <2>1. c[2] = "out" /\ c[2] # "in"
    BY <1>6
  <2>2. Dialing'
    <3>1. run' # "idle" => run # "idle"
      BY <2>1 DEF Settled, Connects, Rejects, peerV
    <3> QED
      BY <1>2, <3>1 DEF BindInv, Dialing
  <2>3. CASE Connects(c) /\ Connected /\ run' = "ended"
    <3>1. Has("connected")'
      BY <2>3, Appended DEF Connected, Events, PeerInv
    <3> QED
      BY <2>2, <2>3, <3>1 DEF BindInv, BindingGoesOn
  <2>4. CASE Rejects(c) /\ run' = "ended"
    BY <1>2, <2>2, <2>4 DEF BindInv, BindingGoesOn, Rejects
  <2>5. CASE ~Connects(c) /\ ~Rejects(c) /\ run' = run /\ told' = told
    <3>1. CASE run # "binding"
      BY <1>2, <1>3, <2>2, <2>5, <3>1 DEF BindInv, BindingGoesOn
    <3>2. CASE run = "binding" /\ kind = "dial"
      <4>1. PICK q \in Protocols : hs'[<<q, "out">>] \notin {"bound", "failed"}
        BY <2>1, <2>5, <3>2 DEF Connects, DialOver
      <4>2. hs'[<<q, "out">>] \in States /\ hs'[<<q, "out">>] # "none"
        BY <1>2, <2>2, <2>5, <3>2 DEF TypeOK, Dialing
      <4> QED
        BY <1>2, <2>2, <2>5, <3>2, <4>1, <4>2 DEF BindInv, BindingGoesOn, States, Unsettled
    <3>3. CASE run = "binding" /\ kind # "dial"
      <4>1. PICK d \in Channels : hs'[d] \notin {"bound", "none"}
        BY <2>1, <2>5, <3>3 DEF Connects, AllBound
      <4>2. hs'[c] # "failed"
        BY <2>5, <3>3 DEF Rejects
      <4>3. \A q \in Protocols : hs'[<<q, "out">>] # "failed"
        BY <1>2, <3>3, <4>2 DEF BindInv, BindingGoesOn
      <4>4. PICK q \in Protocols : d = <<q, "out">>
        <5>1. d[2] # "in"
          BY <1>2, <2>1, <3>3, <4>1 DEF PeerInv, DevpInv, OneWay
        <5> QED
          BY <5>1 DEF Channels
      <4>5. hs'[<<q, "out">>] \in States
        BY <1>2 DEF TypeOK
      <4> QED
        BY <1>2, <2>2, <2>5, <3>3, <4>1, <4>3, <4>4, <4>5
           DEF BindInv, BindingGoesOn, States, Unsettled
    <3> QED
      BY <3>1, <3>2, <3>3
  <2> QED
    BY <2>1, <2>3, <2>4, <2>5 DEF Settled, peerV, poolV
<1> QED
  BY <1>1, <1>5, <1>6

\* BindInv is inductive.
LEMMA BindInvariant == ASSUME Protocols # {} PROVE Spec => []BindInv
<1>1. Init => BindInv
  BY DEF Init, BindInv, BindingGoesOn, Dialing
<1>2. PeerInv /\ PeerInv' /\ BindInv /\ [Next]_vars => BindInv'
  <2> SUFFICES ASSUME PeerInv, PeerInv', BindInv, [Next]_vars PROVE BindInv'
    OBVIOUS
  <2>1. TypeOK /\ TypeOK'
    BY DEF PeerInv
  <2>2. \A p \in Protocols : <<p, "out">> \in Channels /\ <<p, "in">> \in Channels
    BY DEF Channels
  <2>3. ASSUME UNCHANGED <<kind, hs, run, told>> PROVE BindInv'
    BY <2>3 DEF BindInv, BindingGoesOn, Dialing, Has
  <2>4. CASE RlpxBind
    <3>1. PICK shared \in (SUBSET Protocols) \ {{}} : \E seen \in [shared -> Seen] :
              hs' = [c \in Channels |-> IF c[1] \in shared /\ c[2] = "out"
                                        THEN Begun(seen[c[1]]) ELSE "none"]
      BY <2>4 DEF RlpxBind
    <3>2. PICK seen \in [shared -> Seen] :
              hs' = [c \in Channels |-> IF c[1] \in shared /\ c[2] = "out"
                                        THEN Begun(seen[c[1]]) ELSE "none"]
      BY <3>1
    <3>3. kind' = kind /\ kind # "dial"
      BY <2>4 DEF RlpxBind
    <3>4. CASE run' = "ended"
      BY <3>3, <3>4 DEF BindInv, BindingGoesOn, Dialing
    <3>5. CASE run' = "binding" /\ \A c \in Channels : hs'[c] # "failed"
      <4>1. PICK p \in shared : p \in Protocols
        OBVIOUS
      <4>2. hs'[<<p, "out">>] = Begun(seen[p])
        BY <2>2, <3>2, <4>1
      <4>3. Begun(seen[p]) \in {"waiting", "resolved", "failed"}
        BY DEF Begun
      <4>4. hs'[<<p, "out">>] \in Unsettled
        BY <2>2, <3>5, <4>1, <4>2, <4>3 DEF Unsettled
      <4> QED
        BY <2>2, <3>3, <3>5, <4>1, <4>4 DEF BindInv, BindingGoesOn, Dialing
    <3> QED
      BY <2>4, <3>4, <3>5 DEF RlpxBind
  <2>5. CASE Dial
    <3>1. \A p \in Protocols : hs'[<<p, "out">>] = "dialing"
      BY <2>2, <2>5 DEF Dial
    <3> QED
      BY <2>5, <3>1 DEF Dial, BindInv, BindingGoesOn, Dialing, Unsettled
  <2>6. CASE Removed
    <3>1. kind # "dial" /\ UNCHANGED <<kind, hs, run>>
      BY <2>6 DEF Removed, statusV
    <3> QED
      BY <3>1 DEF BindInv, BindingGoesOn, Dialing
  <2>7. ASSUME NEW p \in Protocols, Dialed(p) \/ DialFailed(p) PROVE BindInv'
    <3>1. PICK s \in States \ {"none"} : hs' = [hs EXCEPT ![<<p, "out">>] = s]
      BY <2>7 DEF Dialed, DialFailed, Begun, States
    <3> QED
      BY <2>1, <2>2, <2>7, <3>1, SettledBinding DEF Dialed, DialFailed
  <2>8. ASSUME NEW p \in Protocols, Stream(p) PROVE BindInv'
    <3>1. \A q \in Protocols : hs'[<<q, "out">>] = hs[<<q, "out">>]
      <4>1. \A q \in Protocols : <<q, "out">> # <<p, "in">>
        OBVIOUS
      <4> QED
        BY <2>1, <2>2, <2>8, <4>1 DEF Stream, TypeOK
    <3> QED
      BY <2>8, <3>1 DEF Stream, peerV, poolV, BindInv, BindingGoesOn, Dialing, Has
  <2>9. ASSUME NEW c \in Channels, Status(c) PROVE BindInv'
    <3>1. hs[c] = "waiting" /\ hs'[c] \in {"resolved", "stuck"}
          /\ \A d \in Channels : d # c => hs'[d] = hs[d]
      BY <2>1, <2>9 DEF Status, TypeOK
    <3>2. \A p \in Protocols : \/ hs'[<<p, "out">>] = hs[<<p, "out">>]
                               \/ hs'[<<p, "out">>] \in {"resolved", "stuck"}
      BY <2>2, <3>1
    <3> QED
      BY <2>9, <3>2 DEF Status, peerV, poolV, BindInv, BindingGoesOn, Dialing, Has, Unsettled
  <2>10. ASSUME NEW c \in Channels, Timeout(c) \/ Bind(c) PROVE BindInv'
    <3>1. PICK s \in States \ {"none"} : hs' = [hs EXCEPT ![c] = s]
      BY <2>10 DEF Timeout, Bind, States
    <3> QED
      BY <2>1, <2>10, <3>1, SettledBinding DEF Timeout, Bind
  <2>11. ASSUME NEW c \in Channels, Request(c) \/ Broken(c) PROVE BindInv'
    BY <2>3, <2>11 DEF Request, Broken, statusV, peerV, poolV
  <2>12. ASSUME NEW p \in Protocols, Answer(p) PROVE BindInv'
    BY <2>3, <2>12 DEF Answer, statusV, peerV, poolV
  <2>13. CASE UNCHANGED vars
    BY <2>3, <2>13 DEF vars, statusV, peerV, poolV
  <2> QED
    BY <2>4, <2>5, <2>6, <2>7, <2>8, <2>9, <2>10, <2>11, <2>12, <2>13 DEF Next
<1> QED
  BY <1>1, <1>2, PeerInvariant, PTL DEF Spec

\* accept() and connect() never wait for nothing: while they bind, some protocol
\* has an outcome to come, and none has failed; and when every protocol of a
\* libp2p node was tried, the node has been announced.  The timers and promises
\* that are left do the rest, unless a status could not be decoded.
THEOREM BindingIsPending == ASSUME Protocols # {} PROVE Spec => []BindingGoesOn
<1>1. BindInv => BindingGoesOn
  BY DEF BindInv
<1> QED
  BY <1>1, BindInvariant, PTL
=============================================================================
