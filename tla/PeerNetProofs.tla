----------------------------- MODULE PeerNetProofs -----------------------------
(***************************************************************************)
(* Proofs about PeerNet for any nodes and any limit: the pool holds peers  *)
(* of open connections only, it keeps its limit, and without libp2p a      *)
(* connection never meets a full pool.                                     *)
(***************************************************************************)
EXTENDS PeerNet, FiniteSetTheorems, TLAPS

Quiet == \A o \in Libp2pObjects : heard[o] = 0

\* Neither the pool nor devp2p ever has more than MaxPeers.
Limits ==
    /\ IsFiniteSet(Pooled) /\ Size <= MaxPeers
    /\ IsFiniteSet(Live) /\ Cardinality(Live) <= MaxPeers

\* The pool listens to its members, and while no libp2p peer was ever heard of
\* also to every peer that RlpxServer has.
Listening ==
    /\ \A id \in Ids : pool[id] # 0 => heard[<<id, pool[id]>>] > 0
    /\ Quiet => /\ \A id \in RlpxIds : peers[id] # 0 => heard[<<id, peers[id]>>] > 0
                /\ ~crashed

PeerInv == TypeOK /\ MembersAreConnected /\ Limits /\ Listening

-----------------------------------------------------------------------------
(* Objects and ids *)

\* Ids are of one transport each.
LEMMA IdsApart ==
  /\ RlpxIds \subseteq Ids /\ Libp2pIds \subseteq Ids
  /\ \A id \in Libp2pIds : id \notin RlpxIds
  BY PeerNetAssumption DEF Ids

\* An object is the number of a peer with an id of its transport.
LEMMA ObjectParts ==
  /\ \A o \in Objects : o[1] \in Ids /\ o[2] \in 1 .. MaxObjects /\ o = <<o[1], o[2]>>
  /\ \A o \in RlpxObjects : o[1] \in RlpxIds /\ o \in Objects
  /\ \A o \in Libp2pObjects : o[1] \in Libp2pIds /\ o \in Objects
  BY IdsApart DEF Objects, RlpxObjects, Libp2pObjects

\* Every id and number make an object.
LEMMA ObjectOf ==
  ASSUME NEW id \in Ids, NEW n \in 1 .. MaxObjects
  PROVE  <<id, n>> \in Objects
  BY DEF Objects

\* An object of devp2p is none of libp2p.
LEMMA ObjectsApart == \A o \in RlpxObjects : o \notin Libp2pObjects
  BY IdsApart DEF RlpxObjects, Libp2pObjects

-----------------------------------------------------------------------------
(* PeerPool.connected() *)

\* What connected() does to the pool: at most the id of its peer is added, and
\* only below the limit; the listeners of a peer never become less.
LEMMA ConnectedEffect ==
  ASSUME TypeOK, Limits, NEW o \in Objects, Connected(o)
  PROVE  /\ pool' \in [Ids -> 0 .. MaxObjects] /\ heard' \in [Objects -> Nat]
         /\ \A id \in Ids : id # o[1] => pool'[id] = pool[id]
         /\ pool'[o[1]] # pool[o[1]] => pool[o[1]] = 0 /\ pool'[o[1]] = o[2] /\ heard'[o] > 0
         /\ \A q \in Objects : heard'[q] >= heard[q]
         /\ Size < MaxPeers => heard'[o] > 0
         /\ IsFiniteSet(Pooled') /\ Cardinality(Pooled') <= MaxPeers
<1>1. o[1] \in Ids /\ o[2] \in 1 .. MaxObjects /\ o[2] # 0
  BY ObjectParts, PeerNetAssumption
<1>2. pool \in [Ids -> 0 .. MaxObjects] /\ heard \in [Objects -> Nat] BY DEF TypeOK
<1>3. IsFiniteSet(Pooled) /\ Cardinality(Pooled) \in Nat /\ Cardinality(Pooled) <= MaxPeers
  BY FS_CardinalityType DEF Limits, Size
<1>4. CASE Size >= MaxPeers
  <2>1. UNCHANGED <<pool, heard>> BY <1>4 DEF Connected, poolV
  <2>2. Pooled' = Pooled BY <2>1 DEF Pooled
  <2>3. ~(Size < MaxPeers) BY <1>3, <1>4, PeerNetAssumption, SMT DEF Size
  <2>4. \A q \in Objects : heard[q] >= heard[q] BY <1>2, SMT
  <2> QED BY <1>2, <1>3, <2>1, <2>2, <2>3, <2>4
<1>5. CASE ~(Size >= MaxPeers)
  <2>1. /\ heard' = [heard EXCEPT ![o] = @ + 1]
        /\ pool' = IF pool[o[1]] = 0 THEN [pool EXCEPT ![o[1]] = o[2]] ELSE pool
    BY <1>5 DEF Connected
  <2>2. heard'[o] = heard[o] + 1 /\ heard[o] \in Nat /\ heard' \in [Objects -> Nat]
    BY <1>2, <2>1, SMT
  <2>3. \A q \in Objects : heard'[q] >= heard[q]
    BY <1>2, <2>1, SMT
  <2>4. pool' \in [Ids -> 0 .. MaxObjects] BY <1>1, <1>2, <2>1, SMT
  <2>5. \A id \in Ids : id # o[1] => pool'[id] = pool[id]
    BY <1>2, <2>1
  <2>6. pool'[o[1]] # pool[o[1]] => pool[o[1]] = 0 /\ pool'[o[1]] = o[2]
    BY <1>1, <1>2, <2>1
  <2>7. Pooled' \subseteq Pooled \cup {o[1]}
    BY <2>5 DEF Pooled
  <2>8. /\ IsFiniteSet(Pooled \cup {o[1]})
        /\ Cardinality(Pooled \cup {o[1]}) <= Cardinality(Pooled) + 1
        /\ Cardinality(Pooled \cup {o[1]}) \in Nat
    BY <1>3, FS_AddElement, FS_CardinalityType, SMT
  <2>9. /\ IsFiniteSet(Pooled')
        /\ Cardinality(Pooled') <= Cardinality(Pooled \cup {o[1]})
        /\ Cardinality(Pooled') \in Nat
    BY <2>7, <2>8, FS_Subset, FS_CardinalityType
  <2>10. Cardinality(Pooled') <= MaxPeers
    BY <1>3, <1>5, <2>8, <2>9, PeerNetAssumption, SMT DEF Size
  <2>11. heard'[o] > 0 BY <2>2, SMT
  <2> QED BY <2>2, <2>3, <2>4, <2>5, <2>6, <2>9, <2>10, <2>11
<1> QED BY <1>4, <1>5

\* What remove() does to the pool.
LEMMA RemoveEffect ==
  ASSUME TypeOK, Limits, NEW id \in Ids, Remove(id)
  PROVE  /\ pool' \in [Ids -> 0 .. MaxObjects]
         /\ pool'[id] = 0
         /\ \A i \in Ids : i # id => pool'[i] = pool[i]
         /\ IsFiniteSet(Pooled') /\ Cardinality(Pooled') <= MaxPeers
<1>1. pool \in [Ids -> 0 .. MaxObjects] /\ pool' = [pool EXCEPT ![id] = 0]
  BY DEF TypeOK, Remove
<1>2. 0 \in 0 .. MaxObjects BY PeerNetAssumption, SMT
<1>3. Pooled' \subseteq Pooled BY <1>1 DEF Pooled
<1>4. /\ IsFiniteSet(Pooled') /\ Cardinality(Pooled') <= Cardinality(Pooled)
      /\ Cardinality(Pooled') \in Nat /\ Cardinality(Pooled) \in Nat
  BY <1>3, FS_Subset, FS_CardinalityType DEF Limits
<1>5. Cardinality(Pooled') <= MaxPeers
  BY <1>4, PeerNetAssumption, SMT DEF Limits, Size
<1> QED BY <1>1, <1>2, <1>4, <1>5

-----------------------------------------------------------------------------
(* When there is room *)

\* A connection that devp2p keeps and that is no member yet finds room in a
\* pool without libp2p peers: the members are other open connections.
LEMMA RoomForConnection ==
  ASSUME PeerInv, Quiet, NEW id \in RlpxIds, conn[id] # 0, pool[id] = 0
  PROVE  Size < MaxPeers
<1>1. Pooled \subseteq Live \ {id}
  <2> SUFFICES ASSUME NEW i \in Ids, pool[i] # 0 PROVE i \in Live \ {id}
    BY DEF Pooled
  <2>1. pool[i] \in 1 .. MaxObjects
    <3>1. pool[i] \in 0 .. MaxObjects BY DEF PeerInv, TypeOK
    <3> QED BY <3>1, SMT
  <2>2. heard[<<i, pool[i]>>] > 0 BY DEF PeerInv, Listening
  <2>3. i \notin Libp2pIds
    <3> SUFFICES ASSUME i \in Libp2pIds PROVE FALSE OBVIOUS
    <3>1. <<i, pool[i]>> \in Libp2pObjects BY <2>1 DEF Libp2pObjects
    <3>2. heard[<<i, pool[i]>>] = 0 BY <3>1 DEF Quiet
    <3> QED BY <2>2, <3>2, SMT
  <2>4. i \in RlpxIds BY <2>3 DEF Ids
  <2>5. conn[i] # 0 BY <2>4 DEF PeerInv, MembersAreConnected
  <2> QED BY <2>4, <2>5 DEF Live
<1>2. id \in Live BY DEF Live
<1>3. /\ IsFiniteSet(Live \ {id}) /\ Cardinality(Live \ {id}) = Cardinality(Live) - 1
      /\ Cardinality(Live) \in Nat
  BY <1>2, FS_RemoveElement, FS_CardinalityType DEF PeerInv, Limits
<1>4. Cardinality(Pooled) <= Cardinality(Live \ {id}) /\ Cardinality(Pooled) \in Nat
  BY <1>1, <1>3, FS_Subset, FS_CardinalityType
<1> QED BY <1>3, <1>4, PeerNetAssumption, SMT DEF PeerInv, Limits, Size

-----------------------------------------------------------------------------
(* The invariant *)

\* Nobody is connected at first.
LEMMA InitInv == Init => PeerInv
<1> SUFFICES ASSUME Init PROVE PeerInv OBVIOUS
<1>1. 0 \in 0 .. MaxObjects BY PeerNetAssumption, SMT
<1>2. TypeOK
  <2>1. /\ pool \in [Ids -> 0 .. MaxObjects] /\ peers \in [Ids -> 0 .. MaxObjects]
        /\ made \in [Ids -> 0 .. MaxObjects] /\ conn \in [RlpxIds -> 0 .. MaxObjects]
    BY <1>1 DEF Init
  <2>2. heard \in [Objects -> Nat] /\ streams \in [Libp2pObjects -> Nat]
    BY DEF Init
  <2>3. /\ crashed \in BOOLEAN /\ accepting \in SUBSET RlpxObjects
        /\ dialing \in SUBSET Libp2pObjects /\ banned \in SUBSET Ids
    BY DEF Init
  <2> QED BY <2>1, <2>2, <2>3 DEF TypeOK
<1>3. MembersAreConnected BY IdsApart DEF Init, MembersAreConnected
<1>4. Pooled = {} /\ Live = {} BY DEF Init, Pooled, Live
<1>5. Limits BY <1>4, FS_EmptySet, PeerNetAssumption, SMT DEF Limits, Size
<1>6. Listening BY IdsApart DEF Init, Listening
<1> QED BY <1>2, <1>3, <1>5, <1>6 DEF PeerInv

\* A step that changes neither the pool nor devp2p, and crashes nothing.
LEMMA QuietStep ==
  ASSUME PeerInv, TypeOK', UNCHANGED <<pool, heard, conn, crashed>>,
         \A id \in RlpxIds : peers'[id] = peers[id]
  PROVE  PeerInv'
<1>1. MembersAreConnected' BY DEF PeerInv, MembersAreConnected
<1>2. Pooled' = Pooled /\ Live' = Live BY DEF Pooled, Live
<1>3. Limits' BY <1>2 DEF PeerInv, Limits, Size
<1>4. Quiet' => Quiet BY DEF Quiet
<1>5. Listening' BY <1>4 DEF PeerInv, Listening
<1> QED BY <1>1, <1>3, <1>5 DEF PeerInv

\* A member is removed, for a ban or by a server that keeps the id no more.
LEMMA RemovalStep ==
  ASSUME PeerInv, TypeOK', NEW id \in Ids, Remove(id),
         UNCHANGED <<heard, crashed>>,
         \A i \in RlpxIds : i # id => conn'[i] = conn[i] /\ peers'[i] = peers[i],
         id \in RlpxIds => conn'[id] \in {0, conn[id]} /\ peers'[id] \in {0, peers[id]}
  PROVE  PeerInv'
<1>1. /\ pool'[id] = 0 /\ \A i \in Ids : i # id => pool'[i] = pool[i]
      /\ IsFiniteSet(Pooled') /\ Cardinality(Pooled') <= MaxPeers
  BY RemoveEffect DEF PeerInv
<1>2. MembersAreConnected' BY <1>1, IdsApart DEF PeerInv, MembersAreConnected
<1>3. Live' \subseteq Live BY DEF Live
<1>4. /\ IsFiniteSet(Live') /\ Cardinality(Live') <= Cardinality(Live)
      /\ Cardinality(Live') \in Nat /\ Cardinality(Live) \in Nat
  BY <1>3, FS_Subset, FS_CardinalityType DEF PeerInv, Limits
<1>5. Cardinality(Live') <= MaxPeers
  BY <1>4, PeerNetAssumption, SMT DEF PeerInv, Limits
<1>6. Limits' BY <1>1, <1>4, <1>5 DEF Limits, Size
<1>7. Quiet' => Quiet BY DEF Quiet
<1>8. Listening' BY <1>1, <1>7, IdsApart DEF PeerInv, Listening
<1> QED BY <1>2, <1>6, <1>8 DEF PeerInv

\* A libp2p peer is announced to the pool.
LEMMA Libp2pConnected ==
  ASSUME PeerInv, TypeOK', NEW o \in Libp2pObjects, Connected(o),
         UNCHANGED <<conn, peers, crashed>>
  PROVE  PeerInv'
<1>1. o \in Objects /\ o[1] \in Libp2pIds /\ o[1] \notin RlpxIds /\ o = <<o[1], o[2]>>
  BY ObjectParts, IdsApart
<1>2. /\ \A id \in Ids : id # o[1] => pool'[id] = pool[id]
      /\ pool'[o[1]] # pool[o[1]] => pool[o[1]] = 0 /\ pool'[o[1]] = o[2] /\ heard'[o] > 0
      /\ \A q \in Objects : heard'[q] >= heard[q]
      /\ IsFiniteSet(Pooled') /\ Cardinality(Pooled') <= MaxPeers
  BY <1>1, ConnectedEffect DEF PeerInv
<1>3. MembersAreConnected'
  BY <1>1, <1>2, IdsApart DEF PeerInv, MembersAreConnected
<1>4. Live' = Live BY DEF Live
<1>5. Limits' BY <1>2, <1>4 DEF PeerInv, Limits, Size
<1>6. Quiet' => Quiet
  <2> SUFFICES ASSUME Quiet', NEW q \in Libp2pObjects PROVE heard[q] = 0 BY DEF Quiet
  <2>1. heard'[q] = 0 /\ heard'[q] >= heard[q] /\ heard[q] \in Nat
    BY <1>2, ObjectParts DEF Quiet, PeerInv, TypeOK
  <2> QED BY <2>1, SMT
<1>7. ASSUME NEW id \in Ids, pool'[id] # 0 PROVE heard'[<<id, pool'[id]>>] > 0
  <2>1. CASE pool'[id] = pool[id]
    <3>1. <<id, pool[id]>> \in Objects
      <4>1. pool[id] \in 1 .. MaxObjects
        <5>1. pool[id] \in 0 .. MaxObjects BY DEF PeerInv, TypeOK
        <5> QED BY <1>7, <2>1, <5>1, SMT
      <4> QED BY <4>1, ObjectOf
    <3>2. heard[<<id, pool[id]>>] > 0 BY <1>7, <2>1 DEF PeerInv, Listening
    <3>3. heard[<<id, pool[id]>>] \in Nat /\ heard'[<<id, pool[id]>>] \in Nat
      BY <3>1 DEF PeerInv, TypeOK
    <3> QED BY <1>2, <2>1, <3>1, <3>2, <3>3, SMT
  <2>2. CASE pool'[id] # pool[id]
    <3>1. id = o[1] BY <1>2, <2>2
    <3> QED BY <1>1, <1>2, <2>2, <3>1
  <2> QED BY <2>1, <2>2
<1>8. ASSUME Quiet', NEW id \in RlpxIds, peers'[id] # 0
      PROVE  heard'[<<id, peers'[id]>>] > 0
  <2>1. heard[<<id, peers[id]>>] > 0 BY <1>6, <1>8 DEF PeerInv, Listening
  <2>2. <<id, peers[id]>> \in Objects
    <3>1. peers[id] \in 0 .. MaxObjects BY IdsApart DEF PeerInv, TypeOK
    <3>2. peers[id] \in 1 .. MaxObjects BY <1>8, <3>1, SMT
    <3> QED BY <3>2, ObjectOf, IdsApart
  <2>3. heard[<<id, peers[id]>>] \in Nat /\ heard'[<<id, peers[id]>>] \in Nat
    BY <2>2 DEF PeerInv, TypeOK
  <2> QED BY <1>2, <2>1, <2>2, <2>3, SMT
<1>9. Listening' BY <1>6, <1>7, <1>8 DEF PeerInv, Listening
<1> QED BY <1>3, <1>5, <1>9 DEF PeerInv

\* The handshake of a devp2p peer is over, on an open connection.
LEMMA RlpxConnected ==
  ASSUME PeerInv, TypeOK', NEW o \in RlpxObjects, RlpxAccepted(o)
  PROVE  PeerInv'
<1> DEFINE id == o[1]
<1>1. o \in Objects /\ id \in RlpxIds /\ id \in Ids /\ o = <<id, o[2]>>
      /\ o[2] \in 1 .. MaxObjects /\ o[2] # 0
  BY ObjectParts, IdsApart, PeerNetAssumption
<1>2. /\ conn[id] = o[2] /\ peers' = [peers EXCEPT ![id] = o[2]]
      /\ Connected(o) /\ UNCHANGED <<conn, crashed>>
  BY DEF RlpxAccepted
<1>3. /\ pool' \in [Ids -> 0 .. MaxObjects] /\ heard' \in [Objects -> Nat]
      /\ \A i \in Ids : i # id => pool'[i] = pool[i]
      /\ pool'[id] # pool[id] => pool[id] = 0 /\ pool'[id] = o[2] /\ heard'[o] > 0
      /\ \A q \in Objects : heard'[q] >= heard[q]
      /\ Size < MaxPeers => heard'[o] > 0
      /\ IsFiniteSet(Pooled') /\ Cardinality(Pooled') <= MaxPeers
  BY <1>1, <1>2, ConnectedEffect DEF PeerInv
<1>4. peers \in [Ids -> 0 .. MaxObjects] /\ heard \in [Objects -> Nat]
  BY DEF PeerInv, TypeOK
<1>5. peers'[id] = o[2] /\ \A i \in Ids : i # id => peers'[i] = peers[i]
  BY <1>1, <1>2, <1>4
<1>6. MembersAreConnected'
  BY <1>1, <1>2, <1>3, <1>5, IdsApart DEF PeerInv, MembersAreConnected
<1>7. Live' = Live BY <1>2 DEF Live
<1>8. Limits' BY <1>3, <1>7 DEF PeerInv, Limits, Size
<1>9. Quiet' => Quiet
  <2> SUFFICES ASSUME Quiet', NEW q \in Libp2pObjects PROVE heard[q] = 0 BY DEF Quiet
  <2>1. heard'[q] = 0 /\ heard'[q] >= heard[q] /\ heard[q] \in Nat
    BY <1>3, <1>4, ObjectParts DEF Quiet
  <2> QED BY <2>1, SMT
<1>10. ASSUME NEW q \in Objects, heard[q] > 0 PROVE heard'[q] > 0
  <2>1. heard[q] \in Nat /\ heard'[q] \in Nat /\ heard'[q] >= heard[q] BY <1>3, <1>4
  <2> QED BY <1>10, <2>1, SMT
<1>11. \A i \in Ids : pool[i] # 0 => <<i, pool[i]>> \in Objects
  <2> SUFFICES ASSUME NEW i \in Ids, pool[i] # 0 PROVE <<i, pool[i]>> \in Objects OBVIOUS
  <2>1. pool[i] \in 0 .. MaxObjects BY DEF PeerInv, TypeOK
  <2>2. pool[i] \in 1 .. MaxObjects BY <2>1, SMT
  <2> QED BY <2>2, ObjectOf
<1>12. \A i \in RlpxIds : peers[i] # 0 => <<i, peers[i]>> \in Objects
  <2> SUFFICES ASSUME NEW i \in RlpxIds, peers[i] # 0 PROVE <<i, peers[i]>> \in Objects OBVIOUS
  <2>1. peers[i] \in 0 .. MaxObjects BY <1>4, IdsApart
  <2>2. peers[i] \in 1 .. MaxObjects BY <2>1, SMT
  <2> QED BY <2>2, ObjectOf, IdsApart
<1>13. ASSUME NEW i \in Ids, pool'[i] # 0 PROVE heard'[<<i, pool'[i]>>] > 0
  <2>1. CASE pool'[i] = pool[i]
    BY <1>10, <1>11, <1>13, <2>1 DEF PeerInv, Listening
  <2>2. CASE pool'[i] # pool[i]
    <3>1. i = id BY <1>3, <2>2
    <3> QED BY <1>1, <1>3, <2>2, <3>1
  <2> QED BY <2>1, <2>2
<1>14. ASSUME Quiet' PROVE heard'[o] > 0
  <2>1. CASE pool[id] = 0
    <3>1. Size < MaxPeers BY <1>1, <1>2, <1>9, <1>14, <2>1, RoomForConnection
    <3> QED BY <1>3, <3>1
  <2>2. CASE pool[id] # 0
    <3>1. pool[id] = o[2] BY <1>1, <1>2, <2>2 DEF PeerInv, MembersAreConnected
    <3>2. heard[o] > 0 BY <1>1, <2>2, <3>1 DEF PeerInv, Listening
    <3> QED BY <1>1, <1>10, <3>2
  <2> QED BY <2>1, <2>2
<1>15. ASSUME Quiet', NEW i \in RlpxIds, peers'[i] # 0
       PROVE  heard'[<<i, peers'[i]>>] > 0
  <2>1. CASE i = id BY <1>1, <1>5, <1>14, <1>15, <2>1
  <2>2. CASE i # id
    <3>1. peers'[i] = peers[i] BY <1>5, <2>2, IdsApart
    <3>2. heard[<<i, peers[i]>>] > 0 BY <1>9, <1>15, <3>1 DEF PeerInv, Listening
    <3> QED BY <1>10, <1>12, <1>15, <3>1, <3>2
  <2> QED BY <2>1, <2>2
<1>16. Listening' BY <1>2, <1>9, <1>13, <1>15 DEF PeerInv, Listening
<1> QED BY <1>6, <1>8, <1>16 DEF PeerInv

\* A new connection: devp2p still is below its limit, and the id no member.
LEMMA RlpxAddedStep ==
  ASSUME PeerInv, TypeOK', NEW id \in RlpxIds, RlpxAdded(id)
  PROVE  PeerInv'
<1>1. /\ conn[id] = 0 /\ Cardinality(Live) < MaxPeers
      /\ conn' = [conn EXCEPT ![id] = made[id] + 1]
      /\ UNCHANGED <<pool, heard, peers, crashed>>
  BY DEF RlpxAdded, poolV
<1>2. conn \in [RlpxIds -> 0 .. MaxObjects] BY DEF PeerInv, TypeOK
<1>3. pool[id] = 0 BY <1>1, IdsApart DEF PeerInv, MembersAreConnected
<1>4. \A i \in RlpxIds : i # id => conn'[i] = conn[i] BY <1>1, <1>2
<1>5. MembersAreConnected'
  BY <1>1, <1>3, <1>4 DEF PeerInv, MembersAreConnected
<1>6. Live' \subseteq Live \cup {id} BY <1>4 DEF Live
<1>7. /\ IsFiniteSet(Live \cup {id}) /\ Cardinality(Live \cup {id}) <= Cardinality(Live) + 1
      /\ Cardinality(Live \cup {id}) \in Nat /\ Cardinality(Live) \in Nat
  <2>1. IsFiniteSet(Live) BY DEF PeerInv, Limits
  <2>2. Cardinality(Live) \in Nat BY <2>1, FS_CardinalityType
  <2>3. /\ IsFiniteSet(Live \cup {id})
        /\ Cardinality(Live \cup {id})
             = IF id \in Live THEN Cardinality(Live) ELSE Cardinality(Live) + 1
    BY <2>1, FS_AddElement
  <2> QED BY <2>2, <2>3, SMT
<1>8. /\ IsFiniteSet(Live') /\ Cardinality(Live') <= Cardinality(Live \cup {id})
      /\ Cardinality(Live') \in Nat
  BY <1>6, <1>7, FS_Subset, FS_CardinalityType
<1>9. Cardinality(Live') <= MaxPeers
  BY <1>1, <1>7, <1>8, PeerNetAssumption, SMT
<1>10. Pooled' = Pooled BY <1>1 DEF Pooled
<1>11. Limits' BY <1>8, <1>9, <1>10 DEF PeerInv, Limits, Size
<1>12. Listening' BY <1>1 DEF PeerInv, Listening, Quiet
<1> QED BY <1>5, <1>11, <1>12 DEF PeerInv

\* The connection is over.
LEMMA RlpxRemovedStep ==
  ASSUME PeerInv, TypeOK', NEW id \in RlpxIds, RlpxRemoved(id)
  PROVE  PeerInv'
<1>1. conn' = [conn EXCEPT ![id] = 0] /\ UNCHANGED <<heard, crashed>>
  BY DEF RlpxRemoved
<1>2. conn \in [RlpxIds -> 0 .. MaxObjects] /\ peers \in [Ids -> 0 .. MaxObjects]
      /\ pool \in [Ids -> 0 .. MaxObjects]
  BY DEF PeerInv, TypeOK
<1>3. conn'[id] = 0 /\ \A i \in RlpxIds : i # id => conn'[i] = conn[i]
  BY <1>1, <1>2
<1>4. id \in Ids BY IdsApart
<1>5. Remove(id) /\ peers'[id] \in {0, peers[id]}
      /\ \A i \in RlpxIds : i # id => peers'[i] = peers[i]
  <2>1. CASE peers[id] # 0
    <3>1. peers' = [peers EXCEPT ![id] = 0] /\ Remove(id) BY <2>1 DEF RlpxRemoved
    <3> QED BY <1>2, <1>4, <3>1, IdsApart
  <2>2. CASE peers[id] = 0
    <3>1. UNCHANGED <<peers, pool>> BY <2>2 DEF RlpxRemoved
    <3>2. pool[id] = 0 BY <2>2 DEF PeerInv, MembersAreConnected
    <3>3. Remove(id) BY <1>2, <1>4, <3>1, <3>2 DEF Remove
    <3> QED BY <3>1, <3>3
  <2> QED BY <2>1, <2>2
<1> QED BY <1>1, <1>3, <1>4, <1>5, RemovalStep

\* An error of a connection: its peer is heard of, and banned if it is a member.
LEMMA RlpxErrorStep ==
  ASSUME PeerInv, TypeOK', NEW id \in RlpxIds, RlpxError(id)
  PROVE  PeerInv'
<1>1. peers[id] # 0 /\ UNCHANGED <<heard, made, conn, peers>>
  BY DEF RlpxError, rlpxV
<1>2. CASE heard[<<id, peers[id]>>] = 0
  <2>1. crashed' = TRUE /\ UNCHANGED pool BY <1>2 DEF RlpxError
  <2>2. ~Quiet BY <1>1, <1>2 DEF PeerInv, Listening
  <2>3. MembersAreConnected' BY <1>1, <2>1 DEF PeerInv, MembersAreConnected
  <2>4. Pooled' = Pooled /\ Live' = Live BY <1>1, <2>1 DEF Pooled, Live
  <2>5. Limits' BY <2>4 DEF PeerInv, Limits, Size
  <2>6. Listening' BY <1>1, <2>1, <2>2 DEF PeerInv, Listening, Quiet
  <2> QED BY <2>3, <2>5, <2>6 DEF PeerInv
<1>3. CASE heard[<<id, peers[id]>>] # 0
  <2>1. UNCHANGED crashed BY <1>3 DEF RlpxError
  <2>2. CASE pool[id] # 0
    <3>1. Remove(id) BY <1>3, <2>2 DEF RlpxError, Ban
    <3> QED BY <1>1, <2>1, <3>1, RemovalStep, IdsApart
  <2>3. CASE pool[id] = 0
    <3>1. UNCHANGED pool BY <1>3, <2>3 DEF RlpxError
    <3> QED BY <1>1, <2>1, <3>1, QuietStep
  <2> QED BY <2>2, <2>3
<1> QED BY <1>2, <1>3

-----------------------------------------------------------------------------
(* Types *)

\* One more object of an id.
LEMMA CreatePeerTypes ==
  ASSUME TypeOK, NEW id \in Ids, CreatePeer(id)
  PROVE  /\ made' \in [Ids -> 0 .. MaxObjects] /\ peers' \in [Ids -> 0 .. MaxObjects]
         /\ <<id, made[id] + 1>> \in {id} \X (1 .. MaxObjects)
         /\ \A i \in Ids : i # id => peers'[i] = peers[i]
<1>1. made \in [Ids -> 0 .. MaxObjects] /\ peers \in [Ids -> 0 .. MaxObjects]
  BY DEF TypeOK
<1>2. made[id] \in Nat /\ made[id] < MaxObjects BY <1>1, SMT DEF CreatePeer
<1>3. made[id] + 1 \in 1 .. MaxObjects /\ made[id] + 1 \in 0 .. MaxObjects
  BY <1>2, PeerNetAssumption, SMT
<1> QED BY <1>1, <1>3 DEF CreatePeer

\* Every step keeps the types.
LEMMA TypeStep == TypeOK /\ Limits /\ [Next]_vars => TypeOK'
<1> SUFFICES ASSUME TypeOK, Limits, [Next]_vars PROVE TypeOK' OBVIOUS
<1>0. 0 \in 0 .. MaxObjects BY PeerNetAssumption, SMT
<1>1. ASSUME NEW o \in Objects, BanByUser(o) PROVE TypeOK'
  <2>1. o[1] \in Ids /\ Remove(o[1]) /\ banned' = banned \cup {o[1]}
    BY <1>1, ObjectParts DEF BanByUser, Ban
  <2>2. pool' \in [Ids -> 0 .. MaxObjects] BY <2>1, RemoveEffect
  <2> QED BY <1>1, <2>1, <2>2 DEF BanByUser, TypeOK, rlpxV, libp2pV
<1>2. ASSUME NEW id \in Ids, Unban(id) PROVE TypeOK'
  BY <1>2 DEF Unban, TypeOK, poolV, rlpxV, libp2pV
<1>3. ASSUME NEW id \in RlpxIds, RlpxAdded(id) PROVE TypeOK'
  <2>1. made[id] \in Nat /\ made[id] < MaxObjects
    BY <1>3, IdsApart, SMT DEF RlpxAdded, TypeOK
  <2>2. made[id] + 1 \in 1 .. MaxObjects /\ made[id] + 1 \in 0 .. MaxObjects
    BY <2>1, PeerNetAssumption, SMT
  <2>3. made' \in [Ids -> 0 .. MaxObjects] /\ conn' \in [RlpxIds -> 0 .. MaxObjects]
    BY <1>3, <2>2 DEF RlpxAdded, TypeOK
  <2>4. accepting' \in SUBSET RlpxObjects
    BY <1>3, <2>2 DEF RlpxAdded, TypeOK, RlpxObjects
  <2> QED BY <1>3, <2>3, <2>4 DEF RlpxAdded, TypeOK, poolV, libp2pV
<1>4. ASSUME NEW id \in RlpxIds, RlpxRemoved(id) PROVE TypeOK'
  <2>1. conn' \in [RlpxIds -> 0 .. MaxObjects] BY <1>0, <1>4 DEF RlpxRemoved, TypeOK
  <2>2. peers' \in [Ids -> 0 .. MaxObjects] /\ pool' \in [Ids -> 0 .. MaxObjects]
    BY <1>0, <1>4 DEF RlpxRemoved, Remove, TypeOK
  <2> QED BY <1>4, <2>1, <2>2 DEF RlpxRemoved, TypeOK, libp2pV
<1>5. ASSUME NEW id \in RlpxIds, RlpxError(id) PROVE TypeOK'
  <2>1. pool' \in [Ids -> 0 .. MaxObjects] /\ banned' \in SUBSET Ids /\ crashed' \in BOOLEAN
    BY <1>0, <1>5, IdsApart DEF RlpxError, Ban, Remove, TypeOK
  <2> QED BY <1>5, <2>1 DEF RlpxError, TypeOK, rlpxV, libp2pV
<1>6. ASSUME NEW o \in RlpxObjects, RlpxAccepted(o) PROVE TypeOK'
  <2>1. o \in Objects /\ o[1] \in Ids /\ o[2] \in 1 .. MaxObjects /\ Connected(o)
    BY <1>6, ObjectParts, IdsApart DEF RlpxAccepted
  <2>2. pool' \in [Ids -> 0 .. MaxObjects] /\ heard' \in [Objects -> Nat]
    BY <2>1, ConnectedEffect
  <2>3. o[2] \in 0 .. MaxObjects BY <2>1, PeerNetAssumption, SMT
  <2>4. peers' \in [Ids -> 0 .. MaxObjects] BY <1>6, <2>3 DEF RlpxAccepted, TypeOK
  <2> QED BY <1>6, <2>2, <2>4 DEF RlpxAccepted, TypeOK, libp2pV
<1>7. ASSUME NEW o \in RlpxObjects, RlpxTimeout(o) PROVE TypeOK'
  BY <1>7 DEF RlpxTimeout, TypeOK, poolV, libp2pV
<1>8. ASSUME NEW id \in Libp2pIds, Libp2pDiscovered(id) PROVE TypeOK'
  <2>1. /\ made' \in [Ids -> 0 .. MaxObjects] /\ peers' \in [Ids -> 0 .. MaxObjects]
        /\ <<id, made[id] + 1>> \in {id} \X (1 .. MaxObjects)
    BY <1>8, CreatePeerTypes, IdsApart DEF Libp2pDiscovered
  <2>2. dialing' \in SUBSET Libp2pObjects
    BY <1>8, <2>1 DEF Libp2pDiscovered, TypeOK, Libp2pObjects
  <2> QED BY <1>8, <2>1, <2>2 DEF Libp2pDiscovered, TypeOK, poolV, rlpxV
<1>9. ASSUME NEW id \in Libp2pIds, Libp2pConnect(id) PROVE TypeOK'
  <2>1. made' \in [Ids -> 0 .. MaxObjects] /\ peers' \in [Ids -> 0 .. MaxObjects]
    BY <1>9, CreatePeerTypes, IdsApart DEF Libp2pConnect
  <2> QED BY <1>9, <2>1 DEF Libp2pConnect, TypeOK, poolV, rlpxV, libp2pV
<1>10. ASSUME NEW id \in Libp2pIds, Libp2pStream(id) PROVE TypeOK'
  <2>1. streams' = [streams EXCEPT ![<<id, peers[id]>>] = @ + 1]
    BY <1>10 DEF Libp2pStream
  <2>2. <<id, peers[id]>> \in Libp2pObjects
    <3>1. peers[id] \in 0 .. MaxObjects /\ peers[id] # 0
      BY <1>10, IdsApart DEF Libp2pStream, TypeOK
    <3>2. peers[id] \in 1 .. MaxObjects BY <3>1, SMT
    <3> QED BY <3>2 DEF Libp2pObjects
  <2>3. streams' \in [Libp2pObjects -> Nat] BY <2>1, <2>2, SMT DEF TypeOK
  <2> QED BY <1>10, <2>3 DEF Libp2pStream, TypeOK, poolV, rlpxV
<1>11. ASSUME NEW o \in Libp2pObjects, Libp2pDialed(o) PROVE TypeOK'
  <2>1. pool' \in [Ids -> 0 .. MaxObjects] /\ heard' \in [Objects -> Nat]
    BY <1>11, ConnectedEffect, ObjectParts DEF Libp2pDialed
  <2> QED BY <1>11, <2>1 DEF Libp2pDialed, TypeOK, rlpxV
<1>12. ASSUME NEW o \in Libp2pObjects, Libp2pAccepted(o) PROVE TypeOK'
  <2>1. pool' \in [Ids -> 0 .. MaxObjects] /\ heard' \in [Objects -> Nat]
    BY <1>12, ConnectedEffect, ObjectParts DEF Libp2pAccepted
  <2>2. streams' \in [Libp2pObjects -> Nat] BY <1>12, SMT DEF Libp2pAccepted, TypeOK
  <2> QED BY <1>12, <2>1, <2>2 DEF Libp2pAccepted, TypeOK, rlpxV
<1>13. ASSUME NEW o \in Libp2pObjects, Libp2pTimeout(o) PROVE TypeOK'
  <2>1. streams' \in [Libp2pObjects -> Nat] BY <1>13, SMT DEF Libp2pTimeout, TypeOK
  <2> QED BY <1>13, <2>1 DEF Libp2pTimeout, TypeOK, poolV, rlpxV
<1>14. CASE UNCHANGED vars
  BY <1>14 DEF vars, TypeOK, poolV, rlpxV, libp2pV
<1> QED BY <1>1, <1>2, <1>3, <1>4, <1>5, <1>6, <1>7, <1>8, <1>9, <1>10, <1>11,
           <1>12, <1>13, <1>14 DEF Next, Members, Rlpx, Libp2p

-----------------------------------------------------------------------------
(* The theorems *)

\* Every step keeps the invariant.
LEMMA StepInv == PeerInv /\ [Next]_vars => PeerInv'
<1> SUFFICES ASSUME PeerInv, [Next]_vars PROVE PeerInv' OBVIOUS
<1>0. TypeOK' BY TypeStep DEF PeerInv
<1>1. ASSUME NEW o \in Objects, BanByUser(o) PROVE PeerInv'
  <2>1. Remove(o[1]) /\ o[1] \in Ids /\ UNCHANGED <<heard, conn, peers, crashed>>
    BY <1>1, ObjectParts DEF BanByUser, Ban, rlpxV
  <2> QED BY <1>0, <2>1, RemovalStep
<1>2. ASSUME NEW id \in Ids, Unban(id) PROVE PeerInv'
  BY <1>0, <1>2, QuietStep DEF Unban, poolV, rlpxV
<1>3. ASSUME NEW id \in RlpxIds, RlpxAdded(id) PROVE PeerInv'
  BY <1>0, <1>3, RlpxAddedStep
<1>4. ASSUME NEW id \in RlpxIds, RlpxRemoved(id) PROVE PeerInv'
  BY <1>0, <1>4, RlpxRemovedStep
<1>5. ASSUME NEW id \in RlpxIds, RlpxError(id) PROVE PeerInv'
  BY <1>0, <1>5, RlpxErrorStep
<1>6. ASSUME NEW o \in RlpxObjects, RlpxAccepted(o) PROVE PeerInv'
  BY <1>0, <1>6, RlpxConnected
<1>7. ASSUME NEW o \in RlpxObjects, RlpxTimeout(o) PROVE PeerInv'
  BY <1>0, <1>7, QuietStep DEF RlpxTimeout, poolV
<1>8. ASSUME NEW id \in Libp2pIds, Libp2pDiscovered(id) PROVE PeerInv'
  <2>1. UNCHANGED <<pool, heard, conn, crashed>> /\ CreatePeer(id)
    BY <1>8 DEF Libp2pDiscovered, poolV, rlpxV
  <2>2. \A i \in RlpxIds : peers'[i] = peers[i]
    BY <2>1, CreatePeerTypes, IdsApart DEF PeerInv
  <2> QED BY <1>0, <2>1, <2>2, QuietStep
<1>9. ASSUME NEW id \in Libp2pIds, Libp2pConnect(id) PROVE PeerInv'
  <2>1. UNCHANGED <<pool, heard, conn, crashed>> /\ CreatePeer(id)
    BY <1>9 DEF Libp2pConnect, poolV, rlpxV
  <2>2. \A i \in RlpxIds : peers'[i] = peers[i]
    BY <2>1, CreatePeerTypes, IdsApart DEF PeerInv
  <2> QED BY <1>0, <2>1, <2>2, QuietStep
<1>10. ASSUME NEW id \in Libp2pIds, Libp2pStream(id) PROVE PeerInv'
  BY <1>0, <1>10, QuietStep DEF Libp2pStream, poolV, rlpxV
<1>11. ASSUME NEW o \in Libp2pObjects, Libp2pDialed(o) PROVE PeerInv'
  BY <1>0, <1>11, Libp2pConnected DEF Libp2pDialed, rlpxV
<1>12. ASSUME NEW o \in Libp2pObjects, Libp2pAccepted(o) PROVE PeerInv'
  BY <1>0, <1>12, Libp2pConnected DEF Libp2pAccepted, rlpxV
<1>13. ASSUME NEW o \in Libp2pObjects, Libp2pTimeout(o) PROVE PeerInv'
  BY <1>0, <1>13, QuietStep DEF Libp2pTimeout, poolV, rlpxV
<1>14. CASE UNCHANGED vars
  BY <1>0, <1>14, QuietStep DEF vars, poolV, rlpxV
<1> QED BY <1>1, <1>2, <1>3, <1>4, <1>5, <1>6, <1>7, <1>8, <1>9, <1>10, <1>11,
           <1>12, <1>13, <1>14 DEF Next, Members, Rlpx, Libp2p

\* PeerInv holds in every reachable state.
THEOREM PeerInvariant == Spec => []PeerInv
<1>1. Init => PeerInv BY InitInv
<1>2. PeerInv /\ [Next]_vars => PeerInv' BY StepInv
<1> QED BY <1>1, <1>2, PTL DEF Spec

\* Handshakes that end late, bans and reconnections never leave PeerPool with
\* a devp2p peer whose connection is not the open one of its id.
THEOREM MembersStayConnected == Spec => []MembersAreConnected
<1>1. PeerInv => MembersAreConnected BY DEF PeerInv
<1> QED BY <1>1, PeerInvariant, PTL

\* The pool keeps maxPeers, whatever the two servers announce.
THEOREM PoolStaysBounded == Spec => []PoolBounded
<1>1. PeerInv => PoolBounded BY DEF PeerInv, Limits, PoolBounded
<1> QED BY <1>1, PeerInvariant, PTL

\* As long as the pool never listened to a libp2p peer, no error of a
\* connection ends the process.
THEOREM ConnectionsAreHeard == Spec => []UnheardOnlyBesideLibp2p
<1>1. PeerInv => UnheardOnlyBesideLibp2p
  <2> SUFFICES ASSUME PeerInv, crashed PROVE \E o \in Libp2pObjects : heard[o] > 0
    BY DEF UnheardOnlyBesideLibp2p
  <2>1. ~Quiet BY DEF PeerInv, Listening
  <2>2. PICK o \in Libp2pObjects : heard[o] # 0 BY <2>1 DEF Quiet
  <2>3. heard[o] \in Nat BY ObjectParts DEF PeerInv, TypeOK
  <2>4. heard[o] > 0 BY <2>2, <2>3, SMT
  <2> QED BY <2>4
<1> QED BY <1>1, PeerInvariant, PTL

-----------------------------------------------------------------------------
(* Members are heard once *)

\* RlpxServer announces an object at most once: not before its handshakes are
\* over, and then it accepts it no more.  Objects get numbers not used before.
AnnouncedOnce ==
    \A o \in RlpxObjects :
        /\ heard[o] <= 1
        /\ o \in accepting => heard[o] = 0 /\ o[2] <= made[o[1]]
        /\ o[2] > made[o[1]] => heard[o] = 0

\* A step that announces no devp2p peer and makes none.
LEMMA NotAnnounced ==
  ASSUME AnnouncedOnce, accepting' \subseteq accepting,
         \A o \in RlpxObjects : heard'[o] = heard[o],
         \A id \in RlpxIds : made'[id] = made[id]
  PROVE  AnnouncedOnce'
BY ObjectParts DEF AnnouncedOnce

\* What connected() does to the listeners of the objects.
LEMMA ConnectedHears ==
  ASSUME TypeOK, NEW o \in Objects, Connected(o)
  PROVE  /\ heard'[o] \in {heard[o], heard[o] + 1}
         /\ \A q \in Objects : q # o => heard'[q] = heard[q]
BY DEF TypeOK, Connected, poolV

\* No step announces a member another time.
LEMMA AnnouncedStep == PeerInv /\ AnnouncedOnce /\ [Next]_vars => AnnouncedOnce'
<1> SUFFICES ASSUME PeerInv, AnnouncedOnce, [Next]_vars PROVE AnnouncedOnce' OBVIOUS
<1>0. TypeOK BY DEF PeerInv
<1>1. ASSUME NEW o \in Objects, BanByUser(o) PROVE AnnouncedOnce'
  BY <1>1, NotAnnounced DEF BanByUser, rlpxV
<1>2. ASSUME NEW id \in Ids, Unban(id) PROVE AnnouncedOnce'
  BY <1>2, NotAnnounced DEF Unban, poolV, rlpxV
<1>3. ASSUME NEW id \in RlpxIds, RlpxAdded(id) PROVE AnnouncedOnce'
  <2>1. /\ heard' = heard /\ id \in Ids /\ made[id] \in Nat
        /\ made' = [made EXCEPT ![id] = @ + 1]
        /\ accepting' = accepting \cup {<<id, made[id] + 1>>}
    BY <1>0, <1>3, IdsApart DEF RlpxAdded, TypeOK, poolV
  <2> SUFFICES ASSUME NEW o \in RlpxObjects
               PROVE  /\ heard'[o] <= 1
                      /\ o \in accepting' => heard'[o] = 0 /\ o[2] <= made'[o[1]]
                      /\ o[2] > made'[o[1]] => heard'[o] = 0
    BY DEF AnnouncedOnce
  <2>2. o[1] \in Ids /\ o[2] \in 1 .. MaxObjects /\ made[o[1]] \in 0 .. MaxObjects
    BY <1>0, ObjectParts DEF TypeOK
  <2>3. /\ made'[o[1]] \in Nat /\ made'[o[1]] >= made[o[1]]
        /\ o[1] = id => made'[o[1]] = made[id] + 1
    BY <1>0, <2>1, <2>2, SMT DEF TypeOK
  <2>4. /\ heard[o] <= 1
        /\ o \in accepting => heard[o] = 0 /\ o[2] <= made[o[1]]
        /\ o[2] > made[o[1]] => heard[o] = 0
    BY DEF AnnouncedOnce
  <2>5. CASE o \in accepting
    BY <2>1, <2>2, <2>3, <2>4, <2>5, SMT
  <2>6. CASE o = <<id, made[id] + 1>>
    <3>1. o[1] = id /\ o[2] = made[id] + 1 BY <2>6
    <3>2. heard[o] = 0 BY <2>1, <2>4, <3>1, SMT
    <3> QED BY <2>1, <2>2, <2>3, <3>1, <3>2, SMT
  <2>7. CASE o \notin accepting /\ o # <<id, made[id] + 1>>
    <3>1. o \notin accepting' BY <2>1, <2>7
    <3> QED BY <2>1, <2>2, <2>3, <2>4, <3>1, SMT
  <2> QED BY <2>5, <2>6, <2>7
<1>4. ASSUME NEW id \in RlpxIds, RlpxRemoved(id) PROVE AnnouncedOnce'
  BY <1>4, NotAnnounced DEF RlpxRemoved
<1>5. ASSUME NEW id \in RlpxIds, RlpxError(id) PROVE AnnouncedOnce'
  BY <1>5, NotAnnounced DEF RlpxError, rlpxV
<1>6. ASSUME NEW o \in RlpxObjects, RlpxAccepted(o) PROVE AnnouncedOnce'
  <2>1. /\ o \in Objects /\ o \in accepting /\ accepting' = accepting \ {o}
        /\ made' = made /\ Connected(o)
    BY <1>6, ObjectParts DEF RlpxAccepted
  <2>2. heard'[o] \in {heard[o], heard[o] + 1} /\ \A q \in Objects : q # o => heard'[q] = heard[q]
    BY <1>0, <2>1, ConnectedHears
  <2>3. heard[o] = 0 /\ o[2] <= made[o[1]] BY <2>1 DEF AnnouncedOnce
  <2>4. o[2] \in Nat /\ made[o[1]] \in Nat
    BY <1>0, ObjectParts DEF TypeOK
  <2> SUFFICES ASSUME NEW q \in RlpxObjects
               PROVE  /\ heard'[q] <= 1
                      /\ q \in accepting' => heard'[q] = 0 /\ q[2] <= made'[q[1]]
                      /\ q[2] > made'[q[1]] => heard'[q] = 0
    BY DEF AnnouncedOnce
  <2>5. CASE q = o
    BY <2>1, <2>2, <2>3, <2>4, <2>5, SMT
  <2>6. CASE q # o
    <3>1. heard'[q] = heard[q] BY <2>2, <2>6, ObjectParts
    <3> QED BY <2>1, <3>1 DEF AnnouncedOnce
  <2> QED BY <2>5, <2>6
<1>7. ASSUME NEW o \in RlpxObjects, RlpxTimeout(o) PROVE AnnouncedOnce'
  BY <1>7, NotAnnounced DEF RlpxTimeout, poolV
<1>8. ASSUME NEW id \in Libp2pIds, CreatePeer(id) PROVE \A i \in RlpxIds : made'[i] = made[i]
  BY <1>0, <1>8, IdsApart DEF CreatePeer, TypeOK
<1>9. ASSUME NEW id \in Libp2pIds,
             Libp2pDiscovered(id) \/ Libp2pConnect(id) \/ Libp2pStream(id)
      PROVE  AnnouncedOnce'
  <2>1. CASE Libp2pDiscovered(id)
    BY <1>8, <2>1, NotAnnounced DEF Libp2pDiscovered, poolV, rlpxV
  <2>2. CASE Libp2pConnect(id)
    BY <1>8, <2>2, NotAnnounced DEF Libp2pConnect, poolV, rlpxV
  <2>3. CASE Libp2pStream(id)
    BY <2>3, NotAnnounced DEF Libp2pStream, poolV, rlpxV
  <2> QED BY <1>9, <2>1, <2>2, <2>3
<1>10. ASSUME NEW o \in Libp2pObjects, Connected(o), UNCHANGED <<made, rlpxV>>
       PROVE  AnnouncedOnce'
  <2>1. \A q \in RlpxObjects : heard'[q] = heard[q]
    BY <1>0, <1>10, ConnectedHears, ObjectParts, ObjectsApart
  <2> QED BY <1>10, <2>1, NotAnnounced DEF rlpxV
<1>11. ASSUME NEW o \in Libp2pObjects,
              Libp2pDialed(o) \/ Libp2pAccepted(o) \/ Libp2pTimeout(o)
       PROVE  AnnouncedOnce'
  <2>1. CASE Libp2pDialed(o) BY <1>10, <2>1 DEF Libp2pDialed
  <2>2. CASE Libp2pAccepted(o) BY <1>10, <2>2 DEF Libp2pAccepted
  <2>3. CASE Libp2pTimeout(o)
    BY <2>3, NotAnnounced DEF Libp2pTimeout, poolV, rlpxV
  <2> QED BY <1>11, <2>1, <2>2, <2>3
<1>12. CASE UNCHANGED vars
  BY <1>12, NotAnnounced DEF vars
<1> QED BY <1>1, <1>2, <1>3, <1>4, <1>5, <1>6, <1>7, <1>9, <1>11, <1>12
        DEF Next, Members, Rlpx, Libp2p

\* The pool attaches its listeners to a member that came over devp2p exactly
\* once, in any order of handshakes, closed connections, bans and reconnections.
THEOREM MembersListenedToOnce == Spec => []MembersHeardOnce
<1>1. Init => AnnouncedOnce
  <2> SUFFICES ASSUME Init, NEW o \in RlpxObjects PROVE heard[o] = 0 /\ o \notin accepting
    BY SMT DEF AnnouncedOnce
  <2> QED BY ObjectParts DEF Init
<1>2. PeerInv /\ AnnouncedOnce => MembersHeardOnce
  <2> SUFFICES ASSUME PeerInv, AnnouncedOnce, NEW id \in RlpxIds, pool[id] # 0
               PROVE  heard[<<id, pool[id]>>] = 1
    BY DEF MembersHeardOnce
  <2>1. id \in Ids /\ pool[id] \in 0 .. MaxObjects BY IdsApart DEF PeerInv, TypeOK
  <2>2. pool[id] \in 1 .. MaxObjects BY <2>1, SMT
  <2>3. <<id, pool[id]>> \in RlpxObjects /\ <<id, pool[id]>> \in Objects
    BY <2>1, <2>2, ObjectOf DEF RlpxObjects
  <2>4. heard[<<id, pool[id]>>] > 0 BY <2>1 DEF PeerInv, Listening
  <2>5. heard[<<id, pool[id]>>] <= 1 BY <2>3 DEF AnnouncedOnce
  <2>6. heard[<<id, pool[id]>>] \in Nat BY <2>3 DEF PeerInv, TypeOK
  <2> QED BY <2>4, <2>5, <2>6, SMT
<1>3. PeerInv /\ AnnouncedOnce /\ [Next]_vars => AnnouncedOnce' BY AnnouncedStep
<1> QED BY <1>1, <1>2, <1>3, PeerInvariant, PTL DEF Spec
=============================================================================
