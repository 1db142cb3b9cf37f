-------------------------- MODULE SynchronizerProofs --------------------------
(***************************************************************************)
(* Invariants of Synchronizer, proved for any number of loops, of calls of *)
(* stop() and of fetchers, and for chains of any height.                   *)
(***************************************************************************)
EXTENDS Synchronizer, TLAPS

USE SynchronizerAssumption

-----------------------------------------------------------------------------
(* The blocks and what the Chain knows of them.                            *)

\* The part of TypeOK about blocks.
BlockType ==
    /\ phase \in [Fetchers -> {"free", "running", "aborted", "complete"}]
    /\ next \in [Fetchers -> 1 .. MaxHeight + 1] /\ last \in [Fetchers -> 0 .. MaxHeight]
    /\ storing \in SUBSET Fetchers
    /\ head \in 0 .. MaxHeight /\ height \in 0 .. MaxHeight
    /\ remote \in 0 .. MaxHeight

\* The invariant is NoGap with its types.
BlockInv == BlockType /\ NoGap

\* n more blocks of a fetcher reach the database, which keeps those it had.
LEMMA PutGrows ==
    ASSUME BlockType, NEW f \in Fetchers, NEW n \in Nat, Put(f, n)
    PROVE  /\ next' \in [Fetchers -> 1 .. MaxHeight + 1] /\ head' \in 0 .. MaxHeight
           /\ head' >= head /\ next'[f] <= head' + 1
           /\ \A g \in Fetchers \ {f} : next'[g] = next[g]
<1>1. next[f] \in 1 .. MaxHeight + 1 /\ last[f] \in 0 .. MaxHeight
  BY DEF BlockType
<1>2. next[f] + n \in 1 .. MaxHeight + 1 /\ next' = [next EXCEPT ![f] = next[f] + n]
  BY <1>1 DEF Put
<1>3. head' \in 0 .. MaxHeight /\ head' >= head /\ next[f] + n <= head' + 1
  BY <1>1, <1>2 DEF Put, BlockType
<1> QED
  BY <1>2, <1>3 DEF BlockType

\* A store of a fetcher that is running or stores ends, whatever of it was put,
\* with the Chain where it was or between the fetcher and the database.
LEMMA StoreKeeps ==
    ASSUME BlockInv, NEW f \in storing, NEW n \in Nat, Put(f, n),
           height' = height \/ height' \in next'[f] - 1 .. head',
           phase' \in [Fetchers -> {"free", "running", "aborted", "complete"}],
           \A g \in Fetchers : phase'[g] = "running" => phase[g] = "running",
           storing' = storing \ {f}, UNCHANGED <<last, remote>>
    PROVE  BlockInv'
<1>1. f \in Fetchers
  BY DEF BlockInv, BlockType
<1>2. /\ next' \in [Fetchers -> 1 .. MaxHeight + 1] /\ head' \in 0 .. MaxHeight
      /\ head' >= head /\ next'[f] <= head' + 1
      /\ \A g \in Fetchers \ {f} : next'[g] = next[g]
  BY <1>1, PutGrows DEF BlockInv
<1>3. head \in 0 .. MaxHeight /\ height \in 0 .. MaxHeight /\ height <= head
  BY DEF BlockInv, BlockType, NoGap
<1>4. height' \in 0 .. MaxHeight /\ height' <= head'
  <2>1. next'[f] \in 1 .. MaxHeight + 1
    BY <1>1, <1>2
  <2> QED
    BY <1>2, <1>3, <2>1
<1>5. BlockType'
  BY <1>2, <1>4 DEF BlockInv, BlockType
<1>6. ASSUME NEW g \in Fetchers, phase'[g] = "running" \/ g \in storing'
      PROVE  next'[g] <= head' + 1
  <2>1. CASE g = f
    BY <1>2, <2>1
  <2>2. CASE g # f
    <3>1. next[g] <= head + 1 /\ next[g] \in Nat /\ next'[g] = next[g]
      BY <1>2, <1>6, <2>2 DEF BlockInv, BlockType, NoGap
    <3> QED
      BY <1>2, <1>3, <3>1
  <2> QED
    BY <2>1, <2>2
<1> QED
  BY <1>4, <1>5, <1>6 DEF BlockInv, NoGap

\* BlockInv is inductive.
LEMMA BlockInvariant == Spec => []BlockInv
<1>1. Init => BlockInv
  <2> SUFFICES ASSUME Init PROVE BlockInv
    OBVIOUS
  <2>1. /\ head = 0 /\ height = 0 /\ storing = {}
        /\ \A f \in Fetchers : phase[f] = "free"
    BY DEF Init
  <2>2. BlockType
    BY <2>1 DEF Init, BlockType
  <2> QED
    BY <2>1, <2>2 DEF BlockInv, NoGap
<1>2. BlockInv /\ [Next]_vars => BlockInv'
  <2> SUFFICES ASSUME BlockInv, [Next]_vars PROVE BlockInv'
    OBVIOUS
  <2> USE DEF fetcherV, chainV, netV
  <2>0. ASSUME UNCHANGED <<next, last, head, height, remote>>,
               storing' \in SUBSET Fetchers,
               phase' \in [Fetchers -> {"free", "running", "aborted", "complete"}],
               \A f \in Fetchers : phase'[f] = "running" \/ f \in storing' =>
                  phase[f] = "running" \/ f \in storing
        PROVE  BlockInv'
    BY <2>0 DEF BlockInv, BlockType, NoGap
  <2>1. ASSUME UNCHANGED <<phase, next, last, storing, head, height, remote>>
        PROVE  BlockInv'
    BY <2>1 DEF BlockInv, BlockType, NoGap
  <2>2. ASSUME NEW l \in Loops,
               Start(l) \/ ForceSync(l) \/ LatestFailed(l)
               \/ LatestOld(l, remote) \/ Fetched(l) \/ Wake(l)
        PROVE  BlockInv'
    BY <2>1, <2>2 DEF Start, ForceSync, LatestFailed, LatestOld, Fetched, Wake
  <2>3. ASSUME NEW l \in Loops, LatestNew(l, remote) PROVE BlockInv'
    <3> PICK f \in Fetchers :
            /\ phase' = [phase EXCEPT ![f] = "running"]
            /\ next' = [next EXCEPT ![f] = height + 1]
            /\ last' = [last EXCEPT ![f] = remote]
      BY <2>3 DEF LatestNew
    <3>1. UNCHANGED <<storing, head, height, remote>>
      BY <2>3 DEF LatestNew
    <3>2. height \in 0 .. MaxHeight /\ height + 1 \in 1 .. MaxHeight + 1
      BY DEF BlockInv, BlockType
    <3>3. BlockType'
      BY <3>1, <3>2 DEF BlockInv, BlockType
    <3>4. height + 1 <= head + 1
      BY <3>2 DEF BlockInv, BlockType, NoGap
    <3> QED
      BY <3>1, <3>3, <3>4 DEF BlockInv, BlockType, NoGap
  <2>4. ASSUME NEW s \in Stops, Stop(s) PROVE BlockInv'
    <3>1. UNCHANGED <<next, last, storing, head, height, remote>>
      BY <2>4 DEF Stop
    <3>2. /\ phase' \in [Fetchers -> {"free", "running", "aborted", "complete"}]
          /\ \A f \in Fetchers : phase'[f] = "running" => phase[f] = "running"
      BY <2>4 DEF Stop, BlockInv, BlockType
    <3> QED
      BY <2>0, <3>1, <3>2 DEF BlockInv, BlockType
  <2>5. ASSUME NEW s \in Stops, Stopped(s) PROVE BlockInv'
    BY <2>1, <2>5 DEF Stopped
  <2>6. ASSUME NEW f \in Fetchers, BeginStore(f) PROVE BlockInv'
    BY <2>0, <2>6 DEF BeginStore, BlockInv, BlockType
  <2>7. ASSUME NEW f \in Fetchers, StoreDone(f) PROVE BlockInv'
    <3>1. PICK n \in 1 .. MaxHeight : Put(f, n)
      BY <2>7 DEF StoreDone
    <3> QED
      BY <2>7, <3>1, StoreKeeps DEF StoreDone, BlockInv, BlockType
  <2>8. ASSUME NEW f \in Fetchers, StoreFailed(f) PROVE BlockInv'
    <3>1. PICK n \in 0 .. MaxHeight : Put(f, n)
      BY <2>8 DEF StoreFailed
    <3>2. /\ phase' \in [Fetchers -> {"free", "running", "aborted", "complete"}]
          /\ \A g \in Fetchers : phase'[g] = "running" => phase[g] = "running"
      BY <2>8 DEF StoreFailed, BlockInv, BlockType
    <3> QED
      BY <2>8, <3>1, <3>2, StoreKeeps DEF StoreFailed
  <2>9. ASSUME NEW f \in Fetchers, Complete(f) PROVE BlockInv'
    <3>1. /\ phase' \in [Fetchers -> {"free", "running", "aborted", "complete"}]
          /\ \A g \in Fetchers : phase'[g] = "running" => phase[g] = "running"
      BY <2>9 DEF Complete, BlockInv, BlockType
    <3> QED
      BY <2>0, <2>9, <3>1 DEF Complete, BlockInv, BlockType
  <2>10. CASE Network
    BY <2>10 DEF Network, BlockInv, BlockType, NoGap
  <2>11. CASE UNCHANGED vars
    BY <2>1, <2>11 DEF vars
  <2> QED
    BY <2>2, <2>3, <2>4, <2>5, <2>6, <2>7, <2>8, <2>9, <2>10, <2>11
       DEF Next, Loop, Fetching
<1> QED
  BY <1>1, <1>2, PTL DEF Spec

\* However downloads are stopped, restarted, fail half-way or store at the same
\* time, no block is stored without its parent, and the Chain knows no block
\* that the database has not.
THEOREM NeverAGap == Spec => []NoGap
<1>1. BlockInv => NoGap
  BY DEF BlockInv
<1> QED
  BY <1>1, BlockInvariant, PTL

-----------------------------------------------------------------------------
(* Which fetcher stop() reaches.                                           *)

\* The part of TypeOK about loops and fetchers.
LoopType ==
    /\ overlap \in BOOLEAN
    /\ loop \in [Loops -> {"off", "latest", "fetching", "sleeping"}]
    /\ awaited \in [Loops -> Fetchers \cup {None}]
    /\ \A l \in Loops : loop[l] = "fetching" <=> awaited[l] # None
    /\ current \in Fetchers \cup {None}
    /\ phase \in [Fetchers -> {"free", "running", "aborted", "complete"}]

OneLoop == \A l, m \in Alive : l = m

\* A running fetcher is the current one, and a loop awaits it.
CurrentRuns ==
    \A f \in Fetchers : phase[f] = "running" =>
        current = f /\ \E l \in Loops : awaited[l] = f

\* StopReachesFetcher is kept because the loop that goes on to a new fetcher,
\* or deletes this.blockFetcher, is the only one, and awaits whatever runs.
ReachInv == LoopType /\ (~overlap => OneLoop /\ CurrentRuns)

\* ReachInv is inductive.
LEMMA ReachInvariant == Spec => []ReachInv
<1>1. Init => ReachInv
  BY DEF Init, ReachInv, LoopType, OneLoop, CurrentRuns, Alive
<1>2. ReachInv /\ [Next]_vars => ReachInv'
  <2> SUFFICES ASSUME ReachInv, [Next]_vars PROVE ReachInv'
    OBVIOUS
  <2> USE DEF fetcherV, chainV, netV
  <2>typ. LoopType
    BY DEF ReachInv
  <2>0. ASSUME UNCHANGED <<loop, awaited, current, phase, overlap>>
        PROVE  ReachInv'
    BY <2>0 DEF ReachInv, LoopType, OneLoop, CurrentRuns, Alive
  <2>1. ASSUME NEW l \in Loops, NEW s \in {"off", "latest", "sleeping"},
               loop[l] # "off", loop[l] # "fetching",
               loop' = [loop EXCEPT ![l] = s],
               UNCHANGED <<awaited, current, phase, overlap>>
        PROVE  ReachInv'
    <3>1. LoopType'
      BY <2>1, <2>typ DEF LoopType
    <3>2. Alive' \in SUBSET Alive
      BY <2>1, <2>typ DEF LoopType, Alive
    <3> QED
      BY <2>1, <3>1, <3>2 DEF ReachInv, OneLoop, CurrentRuns
  <2>2. ASSUME NEW l \in Loops, Start(l) PROVE ReachInv'
    <3>1. LoopType'
      BY <2>2, <2>typ DEF Start, Begin, LoopType
    <3>2. ASSUME ~overlap' PROVE OneLoop' /\ CurrentRuns'
      <4>1. ~overlap /\ Alive = {}
        BY <2>2, <3>2 DEF Start
      <4>2. Alive' = {l}
        BY <2>2, <2>typ, <4>1 DEF Start, Begin, LoopType, Alive
      <4> QED
        BY <2>2, <4>1, <4>2 DEF Start, ReachInv, OneLoop, CurrentRuns
    <3> QED
      BY <3>1, <3>2 DEF ReachInv
  <2>3. ASSUME NEW l \in Loops, ForceSync(l) PROVE ReachInv'
    BY <2>0, <2>3 DEF ForceSync
  <2>4. ASSUME NEW l \in Loops,
               LatestFailed(l) \/ LatestOld(l, remote) \/ Wake(l)
        PROVE  ReachInv'
    BY <2>1, <2>4 DEF LatestFailed, LatestOld, Wake, Begin
  <2>5. ASSUME NEW l \in Loops, LatestNew(l, remote) PROVE ReachInv'
    <3> PICK f \in Fetchers :
            /\ phase' = [phase EXCEPT ![f] = "running"]
            /\ current' = f
            /\ awaited' = [awaited EXCEPT ![l] = f]
      BY <2>5 DEF LatestNew
    <3>1. /\ loop[l] = "latest" /\ overlap' = overlap
          /\ loop' = [loop EXCEPT ![l] = "fetching"]
      BY <2>5 DEF LatestNew
    <3>2. LoopType'
      BY <2>typ, <3>1 DEF LoopType
    <3>3. ASSUME ~overlap PROVE OneLoop' /\ CurrentRuns'
      <4>1. l \in Alive /\ Alive' = Alive
        BY <2>typ, <3>1 DEF LoopType, Alive
      <4>2. \A m \in Loops : awaited[m] = None
        BY <2>typ, <3>1, <3>3, <4>1 DEF LoopType, ReachInv, OneLoop, Alive
      <4>3. \A g \in Fetchers : phase[g] # "running"
        BY <3>3, <4>2 DEF ReachInv, CurrentRuns
      <4>4. \A g \in Fetchers : phase'[g] = "running" => g = f
        BY <2>typ, <4>3 DEF LoopType
      <4> QED
        BY <2>typ, <3>3, <4>1, <4>4 DEF LoopType, ReachInv, OneLoop, CurrentRuns
    <3> QED
      BY <3>1, <3>2, <3>3 DEF ReachInv
  <2>6. ASSUME NEW l \in Loops, Fetched(l) PROVE ReachInv'
    <3>1. /\ loop[l] = "fetching" /\ phase[awaited[l]] # "running"
          /\ current' = None /\ UNCHANGED <<phase, overlap>>
          /\ awaited' = [awaited EXCEPT ![l] = None]
          /\ loop' = [loop EXCEPT ![l] = "sleeping"]
      BY <2>6 DEF Fetched
    <3>2. LoopType'
      BY <2>typ, <3>1 DEF LoopType
    <3>3. ASSUME ~overlap PROVE OneLoop' /\ CurrentRuns'
      <4>1. l \in Alive /\ Alive' = Alive
        BY <2>typ, <3>1 DEF LoopType, Alive
      <4>2. \A m \in Loops : m # l => awaited[m] = None
        BY <2>typ, <3>3, <4>1 DEF LoopType, ReachInv, OneLoop, Alive
      <4>3. \A g \in Fetchers : phase[g] # "running"
        BY <3>1, <3>3, <4>2 DEF ReachInv, CurrentRuns
      <4> QED
        BY <3>1, <3>3, <4>1, <4>3 DEF ReachInv, OneLoop, CurrentRuns
    <3> QED
      BY <3>1, <3>2, <3>3 DEF ReachInv
  <2>7. ASSUME NEW s \in Stops, Stop(s) PROVE ReachInv'
    <3>1. /\ current' = None /\ UNCHANGED <<loop, awaited, overlap>>
          /\ phase' = IF current # None /\ phase[current] = "running"
                      THEN [phase EXCEPT ![current] = "aborted"] ELSE phase
      BY <2>7 DEF Stop
    <3>2. LoopType'
      BY <2>typ, <3>1 DEF LoopType
    <3>3. ASSUME ~overlap, NEW f \in Fetchers PROVE phase'[f] # "running"
      BY <2>typ, <3>1, <3>3 DEF LoopType, ReachInv, CurrentRuns
    <3> QED
      BY <3>1, <3>2, <3>3 DEF ReachInv, OneLoop, CurrentRuns, Alive
  <2>8. ASSUME NEW s \in Stops, Stopped(s) PROVE ReachInv'
    BY <2>0, <2>8 DEF Stopped
  <2>9. ASSUME NEW f \in Fetchers, BeginStore(f) \/ StoreDone(f) PROVE ReachInv'
    BY <2>0, <2>9 DEF BeginStore, StoreDone
  <2>10. ASSUME NEW f \in Fetchers, StoreFailed(f) \/ Complete(f) PROVE ReachInv'
    <3>1. /\ UNCHANGED <<loop, awaited, current, overlap>>
          /\ phase' \in [Fetchers -> {"free", "running", "aborted", "complete"}]
          /\ \A g \in Fetchers : phase'[g] = "running" => phase[g] = "running"
      BY <2>10, <2>typ DEF StoreFailed, Complete, LoopType
    <3> QED
      BY <3>1 DEF ReachInv, LoopType, OneLoop, CurrentRuns, Alive
  <2>11. CASE Network
    BY <2>0, <2>11 DEF Network
  <2>12. CASE UNCHANGED vars
    BY <2>0, <2>12 DEF vars
  <2> QED
    BY <2>2, <2>3, <2>4, <2>5, <2>6, <2>7, <2>8, <2>9, <2>10, <2>11, <2>12
       DEF Next, Loop, Fetching
<1> QED
  BY <1>1, <1>2, PTL DEF Spec

\* Unless start() began a loop while another one was alive, the fetcher that
\* runs is the one that stop() destroys, however often it is stopped, started
\* and left to fail.
THEOREM StopAlwaysReaches == Spec => []StopReachesFetcher
<1>1. ReachInv => StopReachesFetcher
  BY DEF ReachInv, CurrentRuns, StopReachesFetcher
<1> QED
  BY <1>1, ReachInvariant, PTL

-----------------------------------------------------------------------------
(* What the loops wait for is there.                                       *)

\* Each running fetcher has the one loop that awaits it, and what a loop awaits
\* was started.
Attended ==
    /\ \A f \in Fetchers : phase[f] = "running" => \E l \in Loops : awaited[l] = f
    /\ \A l, m \in Loops : awaited[l] # None /\ awaited[l] = awaited[m] => l = m
    /\ \A l \in Loops : awaited[l] # None => phase[awaited[l]] # "free"

\* A synchronizer that runs has a loop, and a loop its timer until forceSync is set.
Driven ==
    /\ running => Alive # {}
    /\ \A l \in Alive : force \/ l \in timer

\* The two with the types they need.
AttendInv ==
    /\ LoopType /\ Attended /\ Driven
    /\ timer \in SUBSET Loops

\* A step that leaves the loops and their timers alone, and at most ends fetchers.
LEMMA FetchersEnd ==
    ASSUME AttendInv, UNCHANGED <<loop, awaited, overlap, timer, force>>,
           running' => running, current' \in Fetchers \cup {None},
           phase' \in [Fetchers -> {"free", "running", "aborted", "complete"}],
           \A f \in Fetchers : /\ phase'[f] = "running" => phase[f] = "running"
                               /\ phase'[f] = "free" => phase[f] = "free"
    PROVE  AttendInv'
<1>1. LoopType' /\ Driven' /\ timer' \in SUBSET Loops
  BY DEF AttendInv, LoopType, Driven, Alive
<1>2. Attended'
  BY DEF AttendInv, LoopType, Attended
<1> QED
  BY <1>1, <1>2 DEF AttendInv

\* A loop that awaits nothing goes on, or ends.
LEMMA LoopGoesOn ==
    ASSUME AttendInv, NEW l \in Loops,
           NEW s \in {"off", "latest", "sleeping"},
           loop[l] # "off", loop[l] # "fetching", loop' = [loop EXCEPT ![l] = s],
           s = "off" => ~running,
           timer' = timer \/ (s = "off" /\ timer' = timer \ {l}),
           UNCHANGED <<running, force, awaited, current, phase, overlap>>
    PROVE  AttendInv'
<1>1. LoopType' /\ timer' \in SUBSET Loops
  BY DEF AttendInv, LoopType
<1>2. Attended'
  BY DEF AttendInv, Attended
<1>3. Driven'
  <2>1. \A m \in Loops : m # l => loop'[m] = loop[m]
    BY DEF AttendInv, LoopType
  <2>2. loop'[l] = s
    BY DEF AttendInv, LoopType
  <2>3. running' => Alive' # {}
    BY <2>2 DEF Alive
  <2>4. ASSUME NEW m \in Alive' PROVE force' \/ m \in timer'
    <3>1. m \in Alive /\ (m = l => s # "off")
      BY <2>1, <2>2, <2>4 DEF Alive
    <3> QED
      BY <3>1 DEF AttendInv, Driven
  <2> QED
    BY <2>3, <2>4 DEF Driven
<1> QED
  BY <1>1, <1>2, <1>3 DEF AttendInv

\* AttendInv is inductive.
LEMMA AttendInvariant == Spec => []AttendInv
<1>1. Init => AttendInv
  BY DEF Init, AttendInv, LoopType, Attended, Driven, Alive
<1>2. AttendInv /\ [Next]_vars => AttendInv'
  <2> SUFFICES ASSUME AttendInv, [Next]_vars PROVE AttendInv'
    OBVIOUS
  <2> USE DEF fetcherV, chainV, netV
  <2>typ. LoopType
    BY DEF AttendInv
  <2>0. ASSUME UNCHANGED <<running, force, timer, loop, awaited, current, phase, overlap>>
        PROVE  AttendInv'
    BY <2>0 DEF AttendInv, LoopType, Attended, Driven, Alive
  <2>1. ASSUME NEW l \in Loops, Start(l) PROVE AttendInv'
    <3>1. /\ loop[l] = "off" /\ loop' = [loop EXCEPT ![l] = Begin]
          /\ timer' = timer \cup {l} /\ overlap' \in BOOLEAN
          /\ Begin \in {"latest", "sleeping"}
          /\ UNCHANGED <<force, awaited, current, phase>>
      BY <2>1, <2>typ DEF Start, Begin, LoopType
    <3>2. LoopType' /\ timer' \in SUBSET Loops
      BY <2>typ, <3>1 DEF LoopType, AttendInv
    <3>3. Alive' = Alive \cup {l}
      BY <2>typ, <3>1 DEF LoopType, Alive
    <3>4. Driven'
      BY <3>1, <3>3 DEF AttendInv, Driven
    <3>5. Attended'
      BY <3>1 DEF AttendInv, Attended
    <3> QED
      BY <3>2, <3>4, <3>5 DEF AttendInv
  <2>2. ASSUME NEW l \in Loops, ForceSync(l) PROVE AttendInv'
    BY <2>2 DEF ForceSync, AttendInv, LoopType, Attended, Driven, Alive
  <2>3. ASSUME NEW l \in Loops,
               LatestFailed(l) \/ LatestOld(l, remote) \/ Wake(l)
        PROVE  AttendInv'
    <3> DEFINE s == loop'[l]
    <3>1. /\ loop[l] # "off" /\ loop[l] # "fetching"
          /\ s \in {"off", "latest", "sleeping"}
          /\ loop' = [loop EXCEPT ![l] = s]
          /\ s = "off" => ~running
          /\ timer' = timer \/ (s = "off" /\ timer' = timer \ {l})
          /\ UNCHANGED <<running, force, awaited, current, phase, overlap>>
      BY <2>3, <2>typ DEF LatestFailed, LatestOld, Wake, Begin, LoopType
    <3> HIDE DEF s
    <3> QED
      BY <3>1, LoopGoesOn
  <2>4. ASSUME NEW l \in Loops, LatestNew(l, remote) PROVE AttendInv'
    <3> PICK f \in Fetchers :
            /\ Unused(f)
            /\ phase' = [phase EXCEPT ![f] = "running"]
            /\ current' = f
            /\ awaited' = [awaited EXCEPT ![l] = f]
      BY <2>4 DEF LatestNew
    <3>1. /\ loop[l] = "latest" /\ loop' = [loop EXCEPT ![l] = "fetching"]
          /\ UNCHANGED <<running, force, timer, overlap>>
      BY <2>4 DEF LatestNew
    <3>2. LoopType' /\ awaited[l] = None
      BY <2>typ, <3>1 DEF LoopType
    <3>3. Alive' = Alive
      BY <2>typ, <3>1 DEF LoopType, Alive
    <3>4. Driven'
      BY <3>1, <3>3 DEF AttendInv, Driven
    <3>5. /\ awaited'[l] = f /\ \A m \in Loops \ {l} : awaited'[m] = awaited[m] /\ awaited[m] # f
          /\ phase'[f] = "running" /\ \A g \in Fetchers \ {f} : phase'[g] = phase[g]
      BY <2>typ DEF LoopType, Unused
    <3>6. ASSUME NEW g \in Fetchers, phase'[g] = "running"
          PROVE  \E m \in Loops : awaited'[m] = g
      BY <3>2, <3>5, <3>6 DEF AttendInv, Attended
    <3>7. ASSUME NEW m \in Loops, NEW n \in Loops, awaited'[m] # None, awaited'[m] = awaited'[n]
          PROVE  m = n
      BY <3>5, <3>7 DEF AttendInv, Attended
    <3>8. ASSUME NEW m \in Loops, awaited'[m] # None PROVE phase'[awaited'[m]] # "free"
      <4>1. CASE m = l
        BY <3>5, <4>1
      <4>2. CASE m # l
        BY <2>typ, <3>5, <3>8, <4>2 DEF AttendInv, Attended, LoopType
      <4> QED
        BY <4>1, <4>2
    <3> QED
      BY <3>1, <3>2, <3>4, <3>6, <3>7, <3>8 DEF AttendInv, Attended
  <2>5. ASSUME NEW l \in Loops, Fetched(l) PROVE AttendInv'
    <3>1. /\ loop[l] = "fetching" /\ phase[awaited[l]] # "running"
          /\ current' = None /\ UNCHANGED <<running, force, timer, phase, overlap>>
          /\ awaited' = [awaited EXCEPT ![l] = None]
          /\ loop' = [loop EXCEPT ![l] = "sleeping"]
      BY <2>5 DEF Fetched
    <3>2. LoopType'
      BY <2>typ, <3>1 DEF LoopType
    <3>3. Alive' = Alive
      BY <2>typ, <3>1 DEF LoopType, Alive
    <3>4. Driven'
      BY <3>1, <3>3 DEF AttendInv, Driven
    <3>5. awaited'[l] = None /\ \A m \in Loops \ {l} : awaited'[m] = awaited[m]
      BY <2>typ, <3>1 DEF LoopType
    <3>6. Attended'
      BY <3>1, <3>5 DEF AttendInv, Attended
    <3> QED
      BY <3>1, <3>2, <3>4, <3>6 DEF AttendInv
  <2>6. ASSUME NEW s \in Stops, Stop(s) PROVE AttendInv'
    <3>1. /\ phase' \in [Fetchers -> {"free", "running", "aborted", "complete"}]
          /\ \A f \in Fetchers : /\ phase'[f] = "running" => phase[f] = "running"
                                 /\ phase'[f] = "free" => phase[f] = "free"
      BY <2>6, <2>typ DEF Stop, LoopType
    <3> QED
      BY <2>6, <3>1, FetchersEnd DEF Stop
  <2>7. ASSUME NEW s \in Stops, Stopped(s) PROVE AttendInv'
    BY <2>7 DEF Stopped, AttendInv, LoopType, Attended, Driven, Alive
  <2>8. ASSUME NEW f \in Fetchers, BeginStore(f) \/ StoreDone(f) PROVE AttendInv'
    BY <2>0, <2>8 DEF BeginStore, StoreDone
  <2>9. ASSUME NEW f \in Fetchers, StoreFailed(f) \/ Complete(f) PROVE AttendInv'
    <3>1. /\ UNCHANGED <<running, force, timer, loop, awaited, current, overlap>>
          /\ phase' \in [Fetchers -> {"free", "running", "aborted", "complete"}]
          /\ \A g \in Fetchers : /\ phase'[g] = "running" => phase[g] = "running"
                                 /\ phase'[g] = "free" => phase[g] = "free"
      BY <2>9, <2>typ DEF StoreFailed, Complete, LoopType
    <3> QED
      BY <3>1, <2>typ, FetchersEnd DEF LoopType
  <2>10. CASE Network
    BY <2>0, <2>10 DEF Network
  <2>11. CASE UNCHANGED vars
    BY <2>0, <2>11 DEF vars
  <2> QED
    BY <2>1, <2>2, <2>3, <2>4, <2>5, <2>6, <2>7, <2>8, <2>9, <2>10, <2>11
       DEF Next, Loop, Fetching
<1> QED
  BY <1>1, <1>2, PTL DEF Spec

\* However stops and starts overlap: a running fetcher is awaited by the one loop
\* that started it, so its end lets that loop go on, no fetch() is awaited that
\* was not started, and while the synchronizer runs some loop is alive, which
\* looks for peers in spite of MinPeers or has the timer that makes it so.
THEOREM LoopsGoOn == Spec => [](Attended /\ Driven)
<1>1. AttendInv => Attended /\ Driven
  BY DEF AttendInv
<1> QED
  BY <1>1, AttendInvariant, PTL
=============================================================================
