-------------------------------- MODULE Chain --------------------------------
(***************************************************************************)
(* What a node knows of its database: lib/blockchain/chain.ts.  The Chain  *)
(* caches the latest header and the latest block.  update() reads them one *)
(* after the other and writes them together, while other calls may store   *)
(* blocks or update as well.  Blocks are their numbers; the total          *)
(* difficulty of each is read by its hash, and so belongs to it.           *)
(*                                                                         *)
(* close() is called by nothing in lib/.  As in test/blockchain it has the *)
(* Chain for itself; nothing else is under way when it is called.          *)
(***************************************************************************)
EXTENDS Naturals

CONSTANTS
    Calls,     \* bound of the model: calls under way at a time
    Null,      \* latest is null
    MaxHeight  \* bound of the model: number of the last block there is

ASSUME ChainAssumption == Null \notin Nat /\ MaxHeight \in Nat

VARIABLES
    opened,    \* this.opened
    headers,   \* this._headers.latest
    blocks,    \* this._blocks.latest
    dbHeader,  \* latest header of the database
    dbBlock,   \* latest block of the database
    op,        \* call -> "open", "blocks" or "headers": what it does
    step,      \* call -> what it awaits; "resolved", or "idle" after a rejection
    target,    \* call -> number of the last block or header it puts
    put,       \* calls whose blocks or headers are in the database
    gotHeader, \* call -> headers.latest of its update()
    gotBlock,  \* call -> blocks.latest of its update()
    spoiled    \* history: since the cache last was exact, a put, an update or
               \* a close failed, or a put met an update that had read already

cacheV == <<headers, blocks>>
dbV    == <<dbHeader, dbBlock>>
readV  == <<gotHeader, gotBlock>>
callV  == <<op, step, target, put>>
vars   == <<opened, cacheV, dbV, callV, readV, spoiled>>

Idle(c) == step[c] \in {"idle", "resolved"}
Quiet   == \A c \in Calls : Idle(c)
Exact   == headers = dbHeader /\ blocks = dbBlock

Init ==
    /\ opened = FALSE /\ headers = Null /\ blocks = Null
    /\ dbHeader \in 0 .. MaxHeight /\ dbBlock \in 0 .. dbHeader
    /\ op = [c \in Calls |-> "open"] /\ step = [c \in Calls |-> "idle"]
    /\ target = [c \in Calls |-> 0] /\ put = {}
    /\ gotHeader = [c \in Calls |-> 0] /\ gotBlock = [c \in Calls |-> 0]
    /\ spoiled = FALSE

-----------------------------------------------------------------------------

\* open(), also as the first step of a getter: nothing to do when it is open.
Open(c) ==
    /\ ~opened /\ Idle(c) /\ \A d \in Calls : step[d] # "closing"
    /\ step' = [step EXCEPT ![c] = "opening"]
    /\ UNCHANGED <<opened, cacheV, dbV, op, target, put, readV, spoiled>>

\* putBlocks() and putHeaders() up to a block n: they open the Chain first.
BeginPut(c, o, n) ==
    /\ Idle(c) /\ \A d \in Calls : step[d] # "closing"
    /\ op' = [op EXCEPT ![c] = o] /\ target' = [target EXCEPT ![c] = n]
    /\ step' = [step EXCEPT ![c] = IF opened THEN "putting" ELSE "opening"]
    /\ UNCHANGED <<opened, cacheV, dbV, put, readV, spoiled>>

\* The database is open, for whichever call of open() waited for it.  From now
\* on other calls find the Chain opened, though nothing is read yet.
Opened(c) ==
    /\ step[c] = "opening" /\ step' = [step EXCEPT ![c] = "header"]
    /\ opened' = TRUE
    /\ UNCHANGED <<cacheV, dbV, op, target, put, readV, spoiled>>

\* The heads of the database when all up to m is stored.
Raise(c, m) ==
    /\ dbHeader' = IF m > dbHeader THEN m ELSE dbHeader
    /\ dbBlock' = IF op[c] = "blocks" /\ m > dbBlock THEN m ELSE dbBlock

\* Some other update() has read something that a put may outdate.
Reading(c) == \E d \in Calls \ {c} : step[d] \in {"block", "write"}

\* The call is over, and its local variables with it.
End(c, how) ==
    /\ step' = [step EXCEPT ![c] = how] /\ op' = [op EXCEPT ![c] = "open"]
    /\ target' = [target EXCEPT ![c] = 0] /\ put' = put \ {c}
    /\ gotHeader' = [gotHeader EXCEPT ![c] = 0]
    /\ gotBlock' = [gotBlock EXCEPT ![c] = 0]

\* Mutant of PutDone: the caller is told before the update.
PutDoneEarly(c) ==
    /\ step[c] = "putting" /\ End(c, "resolved")
    /\ Raise(c, target[c])
    /\ spoiled' = (spoiled \/ Reading(c))
    /\ UNCHANGED <<opened, cacheV>>

\* The database has stored all: update() begins.
PutDone(c) ==
    /\ step[c] = "putting" /\ step' = [step EXCEPT ![c] = "header"]
    /\ Raise(c, target[c]) /\ put' = put \cup {c}
    /\ spoiled' = (spoiled \/ Reading(c))
    /\ UNCHANGED <<opened, cacheV, op, target, readV>>

\* Mutant of PutFailed: the cache takes the blocks for stored.
PutFailedCached(c) ==
    /\ step[c] = "putting" /\ End(c, "idle")
    /\ \E m \in 0 .. target[c] : Raise(c, m)
    /\ headers' = target[c] /\ blocks' = target[c]
    /\ spoiled' = TRUE
    /\ UNCHANGED opened

\* The database fails at some block: no update.
PutFailed(c) ==
    /\ step[c] = "putting" /\ End(c, "idle")
    /\ \E m \in 0 .. target[c] : Raise(c, m)
    /\ spoiled' = TRUE
    /\ UNCHANGED <<opened, cacheV>>

-----------------------------------------------------------------------------
(* update() *)

\* getLatestHeader()
ReadHeader(c) ==
    /\ step[c] = "header" /\ step' = [step EXCEPT ![c] = "block"]
    /\ gotHeader' = [gotHeader EXCEPT ![c] = dbHeader]
    /\ UNCHANGED <<opened, cacheV, dbV, op, target, put, gotBlock, spoiled>>

\* getLatestBlock()
ReadBlock(c) ==
    /\ step[c] = "block" /\ step' = [step EXCEPT ![c] = "write"]
    /\ gotBlock' = [gotBlock EXCEPT ![c] = dbBlock]
    /\ UNCHANGED <<opened, cacheV, dbV, op, target, put, gotHeader, spoiled>>

\* A put that had to open the Chain goes on; every other call is over.
AfterUpdate(c) ==
    IF op[c] # "open" /\ c \notin put
    THEN step' = [step EXCEPT ![c] = "putting"] /\ UNCHANGED <<op, target, put, readV>>
    ELSE End(c, "resolved")

\* Mutant of Update: the blocks are left as they are.
UpdateHeaders(c) ==
    /\ step[c] = "write" /\ headers' = gotHeader[c]
    /\ blocks' = IF blocks = Null THEN gotBlock[c] ELSE blocks
    /\ AfterUpdate(c)
    /\ spoiled' = (spoiled /\ ~(headers' = dbHeader /\ blocks' = dbBlock
                                /\ \A d \in Calls : step'[d] \notin {"block", "write"}))
    /\ UNCHANGED <<opened, dbV>>

\* The difficulties have been read as well: both heads are written at once.
Update(c) ==
    /\ step[c] = "write" /\ headers' = gotHeader[c] /\ blocks' = gotBlock[c]
    /\ AfterUpdate(c)
    /\ spoiled' = (spoiled /\ ~(headers' = dbHeader /\ blocks' = dbBlock
                                /\ \A d \in Calls : step'[d] \notin {"block", "write"}))
    /\ UNCHANGED <<opened, dbV>>

-----------------------------------------------------------------------------

\* close(): what is known is reset, then the database closes.
Close(c) ==
    /\ opened /\ Quiet
    /\ headers' = Null /\ blocks' = Null
    /\ step' = [step EXCEPT ![c] = "closing"]
    /\ UNCHANGED <<opened, dbV, op, target, put, readV, spoiled>>

Closed(c) ==
    /\ step[c] = "closing" /\ End(c, "resolved")
    /\ opened' = FALSE
    /\ UNCHANGED <<cacheV, dbV, spoiled>>

\* The database fails to open, at a read of an update, or to close.  A put whose
\* update fails has stored all, a Chain whose first update fails is open with
\* no head, and one that fails to close stays so.
Failed(c) ==
    /\ step[c] \in {"opening", "header", "block", "write", "closing"}
    /\ End(c, "idle")
    /\ spoiled' = (spoiled \/ (step[c] # "opening" /\ ~Exact))
    /\ UNCHANGED <<opened, cacheV, dbV>>

Call(c)   == \/ Open(c) \/ Close(c)
             \/ \E o \in {"blocks", "headers"}, n \in 1 .. MaxHeight : BeginPut(c, o, n)
Settle(c) == \/ Opened(c) \/ PutDone(c) \/ PutFailed(c) \/ ReadHeader(c)
             \/ ReadBlock(c) \/ Update(c) \/ Closed(c) \/ Failed(c)

Next == \E c \in Calls : Call(c) \/ Settle(c)

Spec == Init /\ [][Next]_vars

-----------------------------------------------------------------------------
(* Properties *)

TypeOK ==
    /\ opened \in BOOLEAN /\ spoiled \in BOOLEAN /\ put \in SUBSET Calls
    /\ headers \in 0 .. MaxHeight \cup {Null} /\ blocks \in 0 .. MaxHeight \cup {Null}
    /\ dbHeader \in 0 .. MaxHeight /\ dbBlock \in 0 .. MaxHeight
    /\ op \in [Calls -> {"open", "blocks", "headers"}]
    /\ step \in [Calls -> {"idle", "resolved", "opening", "putting", "header",
                        "block", "write", "closing"}]
    /\ target \in [Calls -> 0 .. MaxHeight]
    /\ gotHeader \in [Calls -> 0 .. MaxHeight] /\ gotBlock \in [Calls -> 0 .. MaxHeight]

\* However updates and puts overlap or fail, the Chain never knows a head that
\* the database has not: what a handshake tells, and where a download begins,
\* is stored.
CacheInDatabase ==
    /\ headers # Null => headers <= dbHeader
    /\ blocks # Null => blocks <= dbBlock

\* When putBlocks() or putHeaders() resolves, the Chain knows of all they put,
\* whatever other updates are under way: Synchronizer!StoreDone rests on it.
PutIsVisible ==
    [][\A c \in Calls :
          op[c] # "open" /\ step[c] # "resolved" /\ step'[c] = "resolved" =>
              /\ headers' # Null /\ headers' >= target[c]
              /\ op[c] = "blocks" => blocks' # Null /\ blocks' >= target[c]]_vars

\* The heads the Chain knows are out of date only while calls are under way,
\* after a put, an update or a close that failed, or after updates that
\* overlapped a put, of which the older wrote last.  An update that succeeds
\* with no other call under way makes up for each of them.
StaleOnlyIfSpoiled ==
    Quiet /\ opened /\ ~spoiled => Exact
=============================================================================
