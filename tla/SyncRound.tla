------------------------------ MODULE SyncRound ------------------------------
(***************************************************************************)
(* What one round of synchronization decides: best() of                    *)
(* lib/sync/fullsync.ts and lib/sync/lightsync.ts picks a peer,            *)
(* syncWithPeer() compares heights, and tasks() of                         *)
(* lib/sync/fetcher/blockfetcher.ts cuts the missing blocks into the tasks *)
(* that the module Fetcher knows by their index.  Each step of a loop of   *)
(* the code is an action.                                                  *)
(***************************************************************************)
EXTENDS Integers, Sequences, FiniteSets

CONSTANTS
    NumPeers,      \* bound of the model: members of the pool
    MaxTd,         \* bound of the model: total difficulties
    MaxHeight,     \* bound of the model: height of a chain
    MaxRequest,    \* bound of the model: values of maxPerRequest
    MinPeers       \* config.minPeers

ASSUME SyncRoundAssumption ==
    /\ NumPeers \in Nat /\ MaxTd \in Nat /\ MaxHeight \in Nat /\ MaxRequest \in Nat
    /\ MinPeers \in Nat

VARIABLES
    phase,      \* how far the round is
    td,         \* peer, by its place in the pool -> td of its status
    syncable,   \* peers with the protocol, and for LES those that serve headers
    ownTd,      \* td of our chain
    forceSync,  \* this.forceSync
    i,          \* next peer of the loop in best()
    best,       \* the best peer so far, or 0
    own,        \* height of our chain
    height,     \* height of the best peer
    max,        \* this.maxPerRequest
    first,      \* this.first of the fetcher, which tasks() moves on
    count,      \* this.count of the fetcher, which tasks() brings down
    tasks       \* the list that tasks() returns

inputV == <<td, syncable, ownTd, forceSync, max>>
rangeV == <<own, height>>
splitV == <<first, count, tasks>>
vars   == <<phase, inputV, i, best, rangeV, splitV>>

Peers == 1 .. NumPeers
Task  == [first : Nat, count : Nat]

Init ==
    /\ phase = "choosing" /\ i = 1 /\ best = 0
    /\ td \in [Peers -> 0 .. MaxTd] /\ syncable \in SUBSET Peers
    /\ ownTd \in 0 .. MaxTd /\ forceSync \in BOOLEAN /\ max \in 1 .. MaxRequest
    /\ own = 0 /\ height = 0 /\ first = 0 /\ count = 0 /\ tasks = <<>>

-----------------------------------------------------------------------------
(* best() *)

Enough == Cardinality(syncable) >= MinPeers \/ forceSync

\* Mutant of Better: the comparison with the best peer is the wrong way round.
BetterReversed(p) == IF best = 0 THEN td[p] >= ownTd ELSE td[p] < td[best]

\* The condition in the loop: the first peer must not be behind us, another
\* one must have more than the best so far.
Better(p) == IF best = 0 THEN td[p] >= ownTd ELSE td[best] < td[p]

\* One pass of the loop; peers that are not syncable were filtered out.
Consider ==
    /\ phase = "choosing" /\ Enough /\ i <= NumPeers
    /\ best' = IF i \in syncable /\ Better(i) THEN i ELSE best
    /\ i' = i + 1
    /\ UNCHANGED <<phase, inputV, rangeV, splitV>>

\* best() returns, maybe at once: without a peer the round is over.
Chosen ==
    /\ phase = "choosing" /\ (~Enough \/ i > NumPeers)
    /\ phase' = IF best = 0 THEN "nobody" ELSE "asking"
    /\ UNCHANGED <<inputV, i, best, rangeV, splitV>>

-----------------------------------------------------------------------------
(* syncWithPeer() *)

\* The height h of the peer is known, and ours is h0 by then.
Latest(h, h0) ==
    /\ phase = "asking" /\ height' = h /\ own' = h0
    /\ IF h - h0 <= 0
       THEN phase' = "synced" /\ UNCHANGED <<first, count>>
       ELSE phase' = "splitting" /\ first' = h0 + 1 /\ count' = h - h0
    /\ UNCHANGED <<inputV, i, best, tasks>>

-----------------------------------------------------------------------------
(* tasks() *)

Push(n) == tasks' = Append(tasks, [first |-> first, count |-> n])

\* One pass of the loop.
Whole ==
    /\ phase = "splitting" /\ count >= max
    /\ Push(max) /\ first' = first + max /\ count' = count - max
    /\ UNCHANGED <<phase, inputV, i, best, rangeV>>

\* Mutant of Rest: what is less than a whole task is left out if it is one block.
RestOffByOne ==
    /\ phase = "splitting" /\ count < max /\ phase' = "fetching"
    /\ IF count > 1 THEN Push(count) ELSE UNCHANGED tasks
    /\ UNCHANGED <<inputV, i, best, rangeV, first, count>>

\* What is left makes a last task, with first and count as they are.
Rest ==
    /\ phase = "splitting" /\ count < max /\ phase' = "fetching"
    /\ IF count > 0 THEN Push(count) ELSE UNCHANGED tasks
    /\ UNCHANGED <<inputV, i, best, rangeV, first, count>>

-----------------------------------------------------------------------------

Next == \/ Consider \/ Chosen
        \/ \E h, h0 \in 0 .. MaxHeight : Latest(h, h0)
        \/ Whole \/ Rest

Spec == Init /\ [][Next]_vars

-----------------------------------------------------------------------------
(* Properties *)

\* The peer that is asked is a syncable one with the heaviest chain, not
\* lighter than ours; nobody is asked only if every syncable peer is behind us
\* or there are too few of them and no force.
BestIsHeaviest ==
    /\ phase \in {"asking", "synced", "splitting", "fetching"} =>
          /\ best \in syncable /\ Enough /\ td[best] >= ownTd
          /\ \A p \in syncable : td[p] <= td[best]
    /\ phase = "nobody" => ~Enough \/ \A p \in syncable : td[p] < ownTd

\* The tasks are consecutive ranges of at most max blocks, and in the end they
\* go from the block after ours to that of the peer: what the fetcher stores
\* in the order of its tasks is the missing chain, each block once.
TasksTile ==
    /\ \A k \in 1 .. Len(tasks) : tasks[k].count \in 1 .. max
    /\ \A k \in 1 .. Len(tasks) :
          tasks[k].first = IF k = 1 THEN own + 1 ELSE tasks[k - 1].first + tasks[k - 1].count
    /\ phase = "fetching" =>
          /\ tasks # <<>>
          /\ tasks[Len(tasks)].first + tasks[Len(tasks)].count = height + 1
=============================================================================
