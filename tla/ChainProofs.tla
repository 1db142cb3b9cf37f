----------------------------- MODULE ChainProofs -----------------------------
(***************************************************************************)
(* What the Chain knows is in the database, and what was put is known when *)
(* the put resolves, for any number of overlapping calls.                  *)
(***************************************************************************)
EXTENDS Chain, TLAPS

Heights == 0 .. MaxHeight

\* The part of TypeOK that the bounds need.
ChainType ==
    /\ put \in SUBSET Calls
    /\ headers \in Heights \cup {Null} /\ blocks \in Heights \cup {Null}
    /\ dbHeader \in Heights /\ dbBlock \in Heights
    /\ op \in [Calls -> {"open", "blocks", "headers"}]
    /\ step \in [Calls -> {"idle", "resolved", "opening", "putting", "header",
                        "block", "write", "closing"}]
    /\ target \in [Calls -> Heights]
    /\ gotHeader \in [Calls -> Heights] /\ gotBlock \in [Calls -> Heights]

\* What an update has read is in the database: its heads only grow.
ReadIsStored ==
    \A c \in Calls : gotHeader[c] <= dbHeader /\ gotBlock[c] <= dbBlock

\* An update that follows a put reads what the put stored.
PutIsRead ==
    \A c \in put :
        /\ target[c] <= dbHeader
        /\ op[c] = "blocks" => target[c] <= dbBlock
        /\ step[c] \in {"block", "write"} => target[c] <= gotHeader[c]
        /\ step[c] = "write" /\ op[c] = "blocks" => target[c] <= gotBlock[c]

\* A call that is over or closes the Chain puts nothing.
EndedOpensOnly ==
    \A c \in Calls : step[c] \in {"idle", "resolved", "closing"} => op[c] = "open" /\ c \notin put

ChainInv == ChainType /\ CacheInDatabase /\ ReadIsStored /\ PutIsRead /\ EndedOpensOnly

\* A chain that was just made satisfies the invariant.
LEMMA InitChain == Init => ChainInv
<1> SUFFICES ASSUME Init PROVE ChainInv
  OBVIOUS
<1>1. dbHeader \in Heights /\ dbBlock \in Heights
  BY ChainAssumption DEF Init, Heights
<1>2. 0 \in Heights
  BY ChainAssumption DEF Heights
<1>3. ChainType
  BY <1>1, <1>2 DEF Init, ChainType
<1>4. ReadIsStored
  <2> SUFFICES ASSUME NEW c \in Calls
               PROVE  gotHeader[c] <= dbHeader /\ gotBlock[c] <= dbBlock
    BY DEF ReadIsStored
  <2>1. gotHeader[c] = 0 /\ gotBlock[c] = 0
    BY DEF Init
  <2>2. dbHeader >= 0 /\ dbBlock >= 0
    BY <1>1, ChainAssumption DEF Heights
  <2> QED
    BY <1>1, <2>1, <2>2, ChainAssumption DEF Heights
<1> QED
  BY <1>3, <1>4 DEF Init, ChainInv, CacheInDatabase, PutIsRead, EndedOpensOnly

\* The heads of the database never go back.
LEMMA HeadsGrow ==
    ASSUME ChainType, NEW c \in Calls, NEW m \in Heights, Raise(c, m)
    PROVE  /\ dbHeader' \in Heights /\ dbBlock' \in Heights
           /\ dbHeader' >= dbHeader /\ dbBlock' >= dbBlock
           /\ dbHeader' >= m
           /\ op[c] = "blocks" => dbBlock' >= m
BY ChainAssumption DEF ChainType, Raise, Heights

\* The end of a call, with the heads where they were or further.
LEMMA EndKeeps ==
    ASSUME ChainInv, NEW c \in Calls, NEW how \in {"idle", "resolved"}, End(c, how),
           headers' \in Heights \cup {Null}, blocks' \in Heights \cup {Null},
           dbHeader' \in Heights, dbBlock' \in Heights,
           dbHeader' >= dbHeader, dbBlock' >= dbBlock,
           CacheInDatabase'
    PROVE  ChainInv'
<1>1. 0 \in Heights
  BY ChainAssumption DEF Heights
<1>2. ChainType'
  BY <1>1 DEF ChainInv, ChainType, End
<1>3. ReadIsStored'
  BY ChainAssumption DEF ChainInv, ChainType, ReadIsStored, End, Heights
<1>4. PutIsRead'
  <2> SUFFICES ASSUME NEW d \in put' PROVE PutIsRead!(d)'
    BY DEF PutIsRead
  <2>1. /\ d \in put /\ d \in Calls /\ d # c
        /\ step'[d] = step[d] /\ op'[d] = op[d] /\ target'[d] = target[d]
        /\ gotHeader'[d] = gotHeader[d] /\ gotBlock'[d] = gotBlock[d]
    BY DEF End, ChainInv, ChainType
  <2>2. target[d] \in Heights
    BY <2>1 DEF ChainInv, ChainType
  <2> QED
    BY <2>1, <2>2, ChainAssumption DEF ChainInv, ChainType, PutIsRead, Heights
<1>5. EndedOpensOnly'
  BY DEF ChainInv, ChainType, EndedOpensOnly, End
<1> QED
  BY <1>2, <1>3, <1>4, <1>5 DEF ChainInv

\* Every step keeps the invariant.
LEMMA StepChain == ChainInv /\ [Next]_vars => ChainInv'
<1> SUFFICES ASSUME ChainInv, [Next]_vars PROVE ChainInv'
  OBVIOUS
<1> USE DEF ChainInv
<1>0. MaxHeight \in Nat /\ Null \notin Nat /\ Heights \subseteq Nat
  BY ChainAssumption DEF Heights
<1>1. ASSUME NEW c \in Calls, Open(c) PROVE ChainInv'
  BY <1>1 DEF Open, Idle, cacheV, dbV, readV, ChainType, CacheInDatabase,
              ReadIsStored, PutIsRead, EndedOpensOnly
<1>2. ASSUME NEW c \in Calls, Close(c) PROVE ChainInv'
  BY <1>2 DEF Close, Quiet, Idle, dbV, readV, ChainType, CacheInDatabase,
              ReadIsStored, PutIsRead, EndedOpensOnly
<1>3. ASSUME NEW c \in Calls, NEW o \in {"blocks", "headers"}, NEW n \in 1 .. MaxHeight,
             BeginPut(c, o, n)
      PROVE  ChainInv'
  <2>1. n \in Heights
    BY <1>0 DEF Heights
  <2>2. c \notin put
    BY <1>3 DEF BeginPut, Idle, EndedOpensOnly
  <2>3. ChainType'
    BY <1>3, <2>1 DEF BeginPut, cacheV, dbV, readV, ChainType
  <2>4. PutIsRead'
    BY <1>3, <2>2 DEF BeginPut, cacheV, dbV, readV, ChainType, PutIsRead
  <2> QED
    BY <1>3, <2>3, <2>4 DEF BeginPut, cacheV, dbV, readV, ChainType,
       CacheInDatabase, ReadIsStored, EndedOpensOnly
<1>4. ASSUME NEW c \in Calls, Opened(c) PROVE ChainInv'
  BY <1>4 DEF Opened, cacheV, dbV, readV, ChainType, CacheInDatabase,
              ReadIsStored, PutIsRead, EndedOpensOnly
<1>5. ASSUME NEW c \in Calls, PutDone(c) PROVE ChainInv'
  <2>1. target[c] \in Heights
    BY DEF ChainType
  <2>2. Raise(c, target[c])
    BY <1>5 DEF PutDone
  <2>3. /\ dbHeader' \in Heights /\ dbBlock' \in Heights
        /\ dbHeader' >= dbHeader /\ dbBlock' >= dbBlock
        /\ dbHeader' >= target[c]
        /\ op[c] = "blocks" => dbBlock' >= target[c]
    BY <2>1, <2>2, HeadsGrow
  <2>4. ChainType'
    BY <1>5, <2>3 DEF PutDone, cacheV, readV, ChainType
  <2>5. CacheInDatabase'
    BY <1>5, <1>0, <2>3 DEF PutDone, cacheV, ChainType, CacheInDatabase
  <2>6. ReadIsStored'
    <3> SUFFICES ASSUME NEW d \in Calls
                 PROVE  gotHeader[d] <= dbHeader' /\ gotBlock[d] <= dbBlock'
      BY <1>5 DEF PutDone, readV, ReadIsStored
    <3>1. gotHeader[d] \in Nat /\ gotBlock[d] \in Nat
      BY <1>0 DEF ChainType
    <3>2. dbHeader \in Nat /\ dbBlock \in Nat /\ dbHeader' \in Nat /\ dbBlock' \in Nat
      BY <1>0, <2>3 DEF ChainType
    <3> QED
      BY <2>3, <3>1, <3>2 DEF ReadIsStored
  <2>7. PutIsRead'
    <3> SUFFICES ASSUME NEW d \in put' PROVE PutIsRead!(d)'
      BY DEF PutIsRead
    <3>1. /\ d \in Calls /\ op' = op /\ target' = target
          /\ gotHeader' = gotHeader /\ gotBlock' = gotBlock
          /\ target[d] \in Heights
      BY <1>5 DEF PutDone, readV, ChainType
    <3>2. CASE d = c
      BY <1>5, <1>0, <2>3, <3>1, <3>2 DEF PutDone, ChainType
    <3>3. CASE d # c
      <4>1. d \in put /\ step'[d] = step[d]
        BY <1>5, <3>1, <3>3 DEF PutDone, ChainType
      <4>2. /\ target[d] \in Nat
            /\ dbHeader \in Nat /\ dbBlock \in Nat /\ dbHeader' \in Nat /\ dbBlock' \in Nat
        BY <1>0, <2>3, <3>1 DEF ChainType
      <4>3. PutIsRead!(d)
        BY <4>1 DEF PutIsRead
      <4> QED
        BY <2>3, <3>1, <4>1, <4>2, <4>3
    <3> QED
      BY <3>2, <3>3
  <2>8. EndedOpensOnly'
    BY <1>5 DEF PutDone, ChainType, EndedOpensOnly
  <2> QED
    BY <2>4, <2>5, <2>6, <2>7, <2>8
<1>6. ASSUME NEW c \in Calls, PutFailed(c) PROVE ChainInv'
  <2>1. PICK m \in 0 .. target[c] : Raise(c, m)
    BY <1>6 DEF PutFailed
  <2>2. m \in Heights
    BY <2>1, ChainAssumption DEF ChainType, Heights
  <2>3. /\ dbHeader' \in Heights /\ dbBlock' \in Heights
        /\ dbHeader' >= dbHeader /\ dbBlock' >= dbBlock
    BY <2>1, <2>2, HeadsGrow
  <2>4. CacheInDatabase'
    BY <1>6, <1>0, <2>3 DEF PutFailed, cacheV, ChainType, CacheInDatabase
  <2>5. End(c, "idle") /\ headers' = headers /\ blocks' = blocks
    BY <1>6 DEF PutFailed, cacheV
  <2> QED
    BY <2>3, <2>4, <2>5, EndKeeps DEF ChainType
<1>7. ASSUME NEW c \in Calls, ReadHeader(c) PROVE ChainInv'
  <2>1. ChainType' /\ ReadIsStored'
    BY <1>7, <1>0 DEF ReadHeader, cacheV, dbV, ChainType, ReadIsStored
  <2>2. PutIsRead'
    BY <1>7, <1>0 DEF ReadHeader, cacheV, dbV, ChainType, PutIsRead
  <2> QED
    BY <1>7, <2>1, <2>2 DEF ReadHeader, cacheV, dbV, ChainType, CacheInDatabase,
                            EndedOpensOnly
<1>8. ASSUME NEW c \in Calls, ReadBlock(c) PROVE ChainInv'
  <2>1. ChainType' /\ ReadIsStored'
    BY <1>8, <1>0 DEF ReadBlock, cacheV, dbV, ChainType, ReadIsStored
  <2>2. PutIsRead'
    BY <1>8, <1>0 DEF ReadBlock, cacheV, dbV, ChainType, PutIsRead
  <2> QED
    BY <1>8, <2>1, <2>2 DEF ReadBlock, cacheV, dbV, ChainType, CacheInDatabase,
                            EndedOpensOnly
<1>9. ASSUME NEW c \in Calls, Update(c) PROVE ChainInv'
  <2>1. /\ headers' = gotHeader[c] /\ blocks' = gotBlock[c]
        /\ dbHeader' = dbHeader /\ dbBlock' = dbBlock
    BY <1>9 DEF Update, dbV
  <2>2. headers' \in Heights /\ blocks' \in Heights /\ CacheInDatabase'
    BY <2>1 DEF ChainType, ReadIsStored, CacheInDatabase
  <2>3. CASE op[c] # "open" /\ c \notin put
    BY <1>9, <2>1, <2>2, <2>3 DEF Update, AfterUpdate, readV, ChainType,
       ReadIsStored, PutIsRead, EndedOpensOnly
  <2>4. CASE ~(op[c] # "open" /\ c \notin put)
    <3>1. End(c, "resolved")
      BY <1>9, <2>4 DEF Update, AfterUpdate
    <3>2. dbHeader' >= dbHeader /\ dbBlock' >= dbBlock
      BY <1>0, <2>1 DEF ChainType
    <3> QED
      BY <2>1, <2>2, <3>1, <3>2, EndKeeps DEF ChainType
  <2> QED
    BY <2>3, <2>4
<1>10. ASSUME NEW c \in Calls, Closed(c) PROVE ChainInv'
  <2>1. End(c, "resolved") /\ UNCHANGED <<headers, blocks, dbHeader, dbBlock>>
    BY <1>10 DEF Closed, cacheV, dbV
  <2>2. dbHeader' >= dbHeader /\ dbBlock' >= dbBlock
    BY <1>0, <2>1 DEF ChainType
  <2>3. CacheInDatabase'
    BY <2>1 DEF CacheInDatabase
  <2> QED
    BY <2>1, <2>2, <2>3, EndKeeps DEF ChainType
<1>11. ASSUME NEW c \in Calls, Failed(c) PROVE ChainInv'
  <2>1. End(c, "idle") /\ UNCHANGED <<headers, blocks, dbHeader, dbBlock>>
    BY <1>11 DEF Failed, cacheV, dbV
  <2>2. dbHeader' >= dbHeader /\ dbBlock' >= dbBlock
    BY <1>0, <2>1 DEF ChainType
  <2>3. CacheInDatabase'
    BY <2>1 DEF CacheInDatabase
  <2> QED
    BY <2>1, <2>2, <2>3, EndKeeps DEF ChainType
<1>12. CASE UNCHANGED vars
  BY <1>12 DEF vars, cacheV, dbV, callV, readV, ChainType, CacheInDatabase,
               ReadIsStored, PutIsRead, EndedOpensOnly
<1> QED
  BY <1>1, <1>2, <1>3, <1>4, <1>5, <1>6, <1>7, <1>8, <1>9, <1>10, <1>11, <1>12
  DEF Next, Call, Settle

\* Whatever overlaps or fails, the Chain knows no head that is not stored.
THEOREM KnownIsStored == Spec => []CacheInDatabase
<1>1. ChainInv => CacheInDatabase
  BY DEF ChainInv
<1> QED
  BY <1>1, InitChain, StepChain, PTL DEF Spec

\* A put that resolves is known to the Chain at that moment: the update that
\* follows the put reads after it, and writes what it read last of all.
THEOREM ResolvedPutIsKnown == Spec => PutIsVisible
<1> DEFINE Visible(c) ==
        op[c] # "open" /\ step[c] # "resolved" /\ step'[c] = "resolved" =>
            /\ headers' # Null /\ headers' >= target[c]
            /\ op[c] = "blocks" => blocks' # Null /\ blocks' >= target[c]
<1>1. ASSUME ChainInv, [Next]_vars PROVE [\A c \in Calls : Visible(c)]_vars
  <2> SUFFICES ASSUME Next, NEW c \in Calls,
                      op[c] # "open", step[c] # "resolved", step'[c] = "resolved"
               PROVE  /\ headers' # Null /\ headers' >= target[c]
                      /\ op[c] = "blocks" => blocks' # Null /\ blocks' >= target[c]
    BY <1>1
  <2>0. Null \notin Nat /\ Heights \subseteq Nat
    BY ChainAssumption DEF Heights
  <2>1. PICK d \in Calls : Call(d) \/ Settle(d)
    BY DEF Next
  <2>2. Update(c)
    BY <1>1, <2>1 DEF ChainInv, ChainType, EndedOpensOnly, Call, Settle, Open, Close, BeginPut,
       Opened, PutDone, PutFailed, ReadHeader, ReadBlock, Update, AfterUpdate, Closed, Failed, End
  <2>3. c \in put /\ step[c] = "write"
    BY <1>1, <2>2 DEF Update, AfterUpdate, ChainInv, ChainType
  <2>4. target[c] <= gotHeader[c] /\ (op[c] = "blocks" => target[c] <= gotBlock[c])
    BY <1>1, <2>3 DEF ChainInv, PutIsRead
  <2>5. gotHeader[c] \in Nat /\ gotBlock[c] \in Nat /\ target[c] \in Nat
    BY <1>1, <2>0 DEF ChainInv, ChainType
  <2>6. headers' = gotHeader[c] /\ blocks' = gotBlock[c]
    BY <2>2 DEF Update
  <2> QED
    BY <2>0, <2>4, <2>5, <2>6
<1>2. PutIsVisible <=> [][\A c \in Calls : Visible(c)]_vars
  BY DEF PutIsVisible
<1> QED
  BY <1>1, <1>2, InitChain, StepChain, PTL DEF Spec

-----------------------------------------------------------------------------
(* When the cache is out of date.                                          *)

\* Unless a call failed or a put met an update that had read, what updates have
\* read is still what the database has, ...
ReadsFresh ==
    \A c \in Calls :
        /\ step[c] \in {"block", "write"} => gotHeader[c] = dbHeader
        /\ step[c] = "write" => gotBlock[c] = dbBlock

\* ... and an open Chain whose heads are not those of the database is about to
\* update, or closes.
Refreshing == \E c \in Calls : step[c] \in {"header", "block", "write", "closing"}

FreshInv ==
    /\ spoiled \in BOOLEAN
    /\ ~spoiled => ReadsFresh /\ (opened => Exact \/ Refreshing)

\* FreshInv is inductive on top of ChainInv.
LEMMA StepFresh == ChainInv /\ FreshInv /\ [Next]_vars => FreshInv'
<1> SUFFICES ASSUME ChainInv, FreshInv, [Next]_vars PROVE FreshInv'
  OBVIOUS
<1> USE DEF cacheV, dbV, readV
<1>typ. /\ step \in [Calls -> {"idle", "resolved", "opening", "putting", "header",
                               "block", "write", "closing"}]
        /\ gotHeader \in [Calls -> Heights] /\ gotBlock \in [Calls -> Heights]
        /\ spoiled \in BOOLEAN
  BY DEF ChainInv, ChainType, FreshInv
<1>0. ASSUME NEW c \in Calls,
             NEW s \in {"idle", "resolved", "opening", "putting", "header", "closing"},
             step' = [step EXCEPT ![c] = s],
             step[c] \in {"idle", "resolved"} \/ s \in {"header", "closing"},
             opened' => opened \/ s = "header",
             (headers' = headers /\ blocks' = blocks) \/ s = "closing",
             UNCHANGED <<dbHeader, dbBlock, gotHeader, gotBlock, spoiled>>
      PROVE  FreshInv'
  <2>1. \A d \in Calls : step'[d] = IF d = c THEN s ELSE step[d]
    BY <1>typ, <1>0
  <2>2. ReadsFresh => ReadsFresh'
    BY <1>0, <2>1 DEF ReadsFresh
  <2>3. s \in {"header", "closing"} => Refreshing'
    BY <2>1 DEF Refreshing
  <2>4. s \notin {"header", "closing"} /\ Refreshing => Refreshing'
    BY <1>0, <2>1 DEF Refreshing
  <2> QED
    BY <1>0, <1>typ, <2>2, <2>3, <2>4 DEF FreshInv, Exact
<1>1. ASSUME NEW c \in Calls, Open(c) PROVE FreshInv'
  BY <1>0, <1>1 DEF Open, Idle
<1>2. ASSUME NEW c \in Calls, Close(c) PROVE FreshInv'
  BY <1>0, <1>2 DEF Close, Quiet
<1>3. ASSUME NEW c \in Calls, NEW o, NEW n, BeginPut(c, o, n) PROVE FreshInv'
  BY <1>0, <1>3 DEF BeginPut, Idle
<1>4. ASSUME NEW c \in Calls, Opened(c) PROVE FreshInv'
  BY <1>0, <1>4 DEF Opened
<1>5. ASSUME NEW c \in Calls, PutDone(c) PROVE FreshInv'
  <2>1. /\ \A d \in Calls : step'[d] = IF d = c THEN "header" ELSE step[d]
        /\ UNCHANGED <<gotHeader, gotBlock>> /\ spoiled' = (spoiled \/ Reading(c))
    BY <1>5, <1>typ DEF PutDone
  <2>2. spoiled' \in BOOLEAN
    BY <2>1, <1>typ, Zenon
  <2>3. ~spoiled' => \A d \in Calls : step'[d] \notin {"block", "write"}
    BY <2>1 DEF Reading
  <2>4. Refreshing'
    BY <2>1 DEF Refreshing
  <2> QED
    BY <2>2, <2>3, <2>4 DEF FreshInv, ReadsFresh
<1>6. ASSUME NEW c \in Calls, PutFailed(c) PROVE FreshInv'
  BY <1>6 DEF PutFailed, FreshInv
<1>7. ASSUME NEW c \in Calls, ReadHeader(c) PROVE FreshInv'
  <2>1. /\ step[c] = "header" /\ UNCHANGED <<opened, headers, blocks, dbHeader, dbBlock, spoiled>>
        /\ \A d \in Calls : /\ step'[d] = IF d = c THEN "block" ELSE step[d]
                            /\ gotHeader'[d] = IF d = c THEN dbHeader ELSE gotHeader[d]
                            /\ gotBlock'[d] = gotBlock[d]
    BY <1>7, <1>typ DEF ReadHeader
  <2>2. ReadsFresh => ReadsFresh'
    BY <2>1 DEF ReadsFresh
  <2>3. Refreshing'
    BY <2>1 DEF Refreshing
  <2> QED
    BY <2>1, <2>2, <2>3 DEF FreshInv
<1>8. ASSUME NEW c \in Calls, ReadBlock(c) PROVE FreshInv'
  <2>1. /\ step[c] = "block" /\ UNCHANGED <<opened, headers, blocks, dbHeader, dbBlock, spoiled>>
        /\ \A d \in Calls : /\ step'[d] = IF d = c THEN "write" ELSE step[d]
                            /\ gotBlock'[d] = IF d = c THEN dbBlock ELSE gotBlock[d]
                            /\ gotHeader'[d] = gotHeader[d]
    BY <1>8, <1>typ DEF ReadBlock
  <2>2. ReadsFresh => ReadsFresh'
    BY <2>1 DEF ReadsFresh
  <2>3. Refreshing'
    BY <2>1 DEF Refreshing
  <2> QED
    BY <2>1, <2>2, <2>3 DEF FreshInv
<1>9. ASSUME NEW c \in Calls, Update(c) PROVE FreshInv'
  <2> DEFINE clear == headers' = dbHeader /\ blocks' = dbBlock
                      /\ \A d \in Calls : step'[d] \notin {"block", "write"}
  <2>1. /\ step[c] = "write" /\ headers' = gotHeader[c] /\ blocks' = gotBlock[c]
        /\ UNCHANGED <<opened, dbHeader, dbBlock>>
        /\ spoiled' = (spoiled /\ ~clear)
    BY <1>9 DEF Update
  <2>2. spoiled' \in BOOLEAN
    BY <2>1, <1>typ, Zenon
  <2>3. \A d \in Calls : /\ step'[d] \in {"block", "write"} => step'[d] = step[d] /\ d # c
                         /\ d # c => gotHeader'[d] = gotHeader[d] /\ gotBlock'[d] = gotBlock[d]
    BY <1>9, <1>typ DEF Update, AfterUpdate, End
  <2>4. ASSUME ~spoiled PROVE ReadsFresh' /\ Exact'
    <3>1. ReadsFresh
      BY <2>4 DEF FreshInv
    <3> QED
      BY <2>1, <2>3, <3>1 DEF ReadsFresh, Exact
  <2>5. ASSUME clear PROVE ReadsFresh' /\ Exact'
    BY <2>1, <2>5 DEF ReadsFresh, Exact
  <2> QED
    BY <2>1, <2>2, <2>4, <2>5 DEF FreshInv
<1>10. ASSUME NEW c \in Calls, Closed(c) PROVE FreshInv'
  <2>1. /\ opened' = FALSE /\ UNCHANGED <<dbHeader, dbBlock, spoiled>>
        /\ \A d \in Calls : /\ step'[d] \in {"block", "write"} => step'[d] = step[d] /\ d # c
                            /\ d # c => gotHeader'[d] = gotHeader[d] /\ gotBlock'[d] = gotBlock[d]
    BY <1>10, <1>typ DEF Closed, End
  <2> QED
    BY <2>1 DEF FreshInv, ReadsFresh
<1>11. ASSUME NEW c \in Calls, Failed(c) PROVE FreshInv'
  <2>1. /\ step[c] \in {"opening", "header", "block", "write", "closing"}
        /\ UNCHANGED <<opened, headers, blocks, dbHeader, dbBlock>>
        /\ spoiled' = (spoiled \/ (step[c] # "opening" /\ ~Exact))
        /\ \A d \in Calls : d # c => /\ step'[d] = step[d]
                                    /\ gotHeader'[d] = gotHeader[d]
                                    /\ gotBlock'[d] = gotBlock[d]
        /\ step'[c] = "idle"
    BY <1>11, <1>typ DEF Failed, End
  <2>2. spoiled' \in BOOLEAN
    BY <2>1, <1>typ, Zenon
  <2>3. ReadsFresh => ReadsFresh'
    BY <2>1 DEF ReadsFresh
  <2>4. ASSUME step[c] = "opening", Refreshing PROVE Refreshing'
    BY <2>1, <2>4 DEF Refreshing
  <2>5. Exact' <=> Exact
    BY <2>1 DEF Exact
  <2> QED
    BY <2>1, <2>2, <2>3, <2>4, <2>5 DEF FreshInv
<1>12. CASE UNCHANGED vars
  BY <1>12 DEF vars, callV, FreshInv, ReadsFresh, Exact, Refreshing
<1> QED
  BY <1>1, <1>2, <1>3, <1>4, <1>5, <1>6, <1>7, <1>8, <1>9, <1>10, <1>11, <1>12
  DEF Next, Call, Settle

\* Once no call is under way, an open Chain is out of date only after a put, an
\* update or a close that failed, or after updates and puts that overlapped:
\* every other sequence of calls leaves it with the heads of the database.
THEOREM StaleOnlyAfterFailure == Spec => []StaleOnlyIfSpoiled
<1>1. Init => FreshInv
  BY DEF Init, FreshInv, ReadsFresh
<1>2. FreshInv => StaleOnlyIfSpoiled
  BY DEF FreshInv, StaleOnlyIfSpoiled, Refreshing, Quiet, Idle
<1> QED
  BY <1>1, <1>2, InitChain, StepChain, StepFresh, PTL DEF Spec
=============================================================================
