---------------------------- MODULE FetcherProofs ----------------------------
(***************************************************************************)
(* Invariants of Fetcher, proved for every set of peers, number of tasks,  *)
(* queue length and high water mark.                                       *)
(***************************************************************************)
EXTENDS Fetcher, TLAPS

(* The sequence operators the streams are made of.                         *)

\* A run of consecutive tasks is a sequence of tasks.
LEMMA ChunksType ==
    ASSUME NEW i \in Nat, NEW n \in Nat, i + n <= Total
    PROVE  /\ Chunks(i, n) \in Seq(Tasks)
           /\ Len(Chunks(i, n)) = n
<1>1. \A k \in 1 .. n : i + k - 1 \in Tasks
  BY FetcherAssumption DEF Tasks
<1>2. Chunks(i, n) \in [1 .. n -> Tasks]
  BY <1>1 DEF Chunks
<1> QED
  BY <1>2

\* A handler that calls next() leaves the jobs typed.
LEMMA NextJobType ==
    ASSUME TypeOK, pool' \in SUBSET Peers, processed' \in Nat,
           NEW queue \in SUBSET Tasks, NEW jobs \in SUBSET Job,
           NEW free \in SUBSET Peers, NextJob(queue, jobs, free)
    PROVE  in' \in SUBSET Tasks /\ active' \in SUBSET Job /\ idle' \in SUBSET Peers
<1>1. CASE in' = queue /\ active' = jobs /\ idle' = free
  BY <1>1
<1>2. ASSUME NEW i \in Issuable(queue), NEW p \in pool' \cap free,
             in' = queue \ {i}, active' = jobs \cup {Request(i, p)}, idle' = free \ {p}
      PROVE  in' \in SUBSET Tasks /\ active' \in SUBSET Job /\ idle' \in SUBSET Peers
  <2>1. i \in Tasks
    BY DEF Issuable
  <2>2. Request(i, p) \in Job
    BY <2>1 DEF Request, Job, TypeOK
  <2> QED
    BY <1>2, <2>2
<1> QED
  BY <1>1, <1>2 DEF NextJob

\* What dequeue() does to a heap of tasks that holds none before processed.
LEMMA DequeueType ==
    ASSUME TypeOK, NEW done \in SUBSET Tasks, Dequeue(done)
    PROVE  /\ out' \in SUBSET Tasks
           /\ processed' \in 0 .. Total
           /\ readBuf' \in Seq(Tasks)
<1> PICK n \in 0 .. Total :
        /\ DequeueCount(done, n)
        /\ out' = done \ (processed .. processed + n - 1)
        /\ processed' = processed + n
        /\ readBuf' = IF stream = "open"
                      THEN readBuf \o Chunks(processed, n) ELSE readBuf
  BY DEF Dequeue
<1>1. processed + n <= Total
  <2>1. CASE n = 0
    BY <2>1 DEF TypeOK
  <2>2. CASE n > 0
    <3>1. processed + (n - 1) \in done
      BY <2>2, FetcherAssumption DEF DequeueCount
    <3> QED
      BY <3>1, FetcherAssumption DEF Tasks, TypeOK
  <2> QED
    BY <2>1, <2>2, FetcherAssumption
<1>2. Chunks(processed, n) \in Seq(Tasks)
  BY <1>1, ChunksType, FetcherAssumption DEF TypeOK
<1> QED
  BY <1>1, <1>2, FetcherAssumption DEF TypeOK

\* The loop of fetch() leaves the jobs typed.
LEMMA IterateType ==
    ASSUME TypeOK, NEW queue \in SUBSET Tasks, Iterate(queue)
    PROVE  /\ in' \in SUBSET Tasks /\ active' \in SUBSET Job
           /\ idle' \in SUBSET Peers /\ eof' \in BOOLEAN
           /\ UNCHANGED <<processed, readBuf, pool>>
<1> PICK batch \in SUBSET Issuable(queue) : \E to \in [batch -> pool \cap idle] :
        /\ in' = queue \ batch
        /\ active' = active \cup {Request(i, to[i]) : i \in batch}
        /\ idle' = idle \ {to[i] : i \in batch}
  BY DEF Iterate
<1> PICK to \in [batch -> pool \cap idle] :
        /\ in' = queue \ batch
        /\ active' = active \cup {Request(i, to[i]) : i \in batch}
        /\ idle' = idle \ {to[i] : i \in batch}
  OBVIOUS
<1>1. batch \in SUBSET Tasks
  BY DEF Issuable
<1>2. \A i \in batch : Request(i, to[i]) \in Job
  BY <1>1 DEF Request, Job, TypeOK
<1>3. /\ eof' = (eof \/ (processed = Total /\ stream = "open"))
      /\ UNCHANGED <<processed, readBuf, pool>>
  BY DEF Iterate
<1>4. eof' \in BOOLEAN
  BY <1>3, Zenon
<1>5. in' \in SUBSET Tasks /\ active' \in SUBSET Job /\ idle' \in SUBSET Peers
  BY <1>1, <1>2 DEF TypeOK
<1> QED
  BY <1>3, <1>4, <1>5

\* enqueue() puts a task into the heap.
LEMMA EnqueueType ==
    ASSUME TypeOK, NEW i \in Tasks
    PROVE  Enqueue(in, i) \in SUBSET Tasks
BY DEF Enqueue, TypeOK

\* Who is released is a peer.
LEMMA ReleasedType ==
    ASSUME TypeOK, NEW job \in Job
    PROVE  Released(job) \in SUBSET Peers
BY DEF Released, TypeOK, Job

\* A new fetcher has the types.
LEMMA InitType == Init => TypeOK
<1> SUFFICES ASSUME Init PROVE TypeOK
  OBVIOUS
<1>1. <<>> \in Seq(Tasks)
  OBVIOUS
<1>2. pool \in SUBSET Peers /\ idle \in SUBSET Peers /\ lost \in SUBSET Peers
  BY FetcherAssumption DEF Init, OnePerId
<1>3. /\ readBuf \in Seq(Tasks) /\ wq \in Seq(Tasks)
      /\ writing \in Seq(Tasks) /\ stored \in Seq(Tasks)
  BY <1>1 DEF Init
<1>4. processed \in 0 .. Total
  BY FetcherAssumption DEF Init
<1> QED
  BY <1>2, <1>3, <1>4 DEF Init, TypeOK

\* Every handler keeps the fetcher's state within its types: processed never
\* passes the number of tasks, and no chunk but a task enters the streams.
THEOREM TypeCorrect == Spec => []TypeOK
<1>1. Init => TypeOK
  BY InitType
<1>2. TypeOK /\ [Next]_vars => TypeOK'
  <2> SUFFICES ASSUME TypeOK, [Next]_vars PROVE TypeOK'
    OBVIOUS
  <2> USE DEF stage, sinkV, peersV, past, past
  <2>1. CASE Fetch
    <3>1. Tasks \in SUBSET Tasks
      OBVIOUS
    <3> QED
      BY <2>1, <3>1, IterateType DEF Fetch, TypeOK
  <2>2. CASE LoopWake
    <3>1. in \in SUBSET Tasks
      BY DEF TypeOK
    <3> QED
      BY <2>2, <3>1, IterateType DEF LoopWake, TypeOK
  <2>3. CASE LoopEnd
    BY <2>3 DEF LoopEnd, TypeOK
  <2>4. ASSUME NEW job \in active, SuccessDone(job) PROVE TypeOK'
    <3>1. job \in Job /\ job.index \in Tasks
      BY DEF TypeOK, Job
    <3>2. out' \in SUBSET Tasks /\ processed' \in 0 .. Total /\ readBuf' \in Seq(Tasks)
      BY <2>4, <3>1, DequeueType DEF SuccessDone, TypeOK
    <3>3. in' \in SUBSET Tasks /\ active' \in SUBSET Job /\ idle' \in SUBSET Peers
      <4>1. in \in SUBSET Tasks /\ active \ {job} \in SUBSET Job /\ pool' \in SUBSET Peers
        BY <2>4 DEF TypeOK, SuccessDone
      <4> QED
        BY <2>4, <3>1, <3>2, <4>1, NextJobType, ReleasedType, FetcherAssumption DEF SuccessDone
    <3> QED
      BY <2>4, <3>2, <3>3 DEF SuccessDone, TypeOK
  <2>5. ASSUME NEW job \in active, SuccessRefused(job) PROVE TypeOK'
    <3>1. job \in Job /\ job.index \in Tasks
      BY DEF TypeOK, Job
    <3>2. in' \in SUBSET Tasks /\ active' \in SUBSET Job /\ idle' \in SUBSET Peers
      <4>1. active \ {job} \in SUBSET Job /\ pool' \in SUBSET Peers /\ processed' \in Nat
        BY <2>5, FetcherAssumption DEF TypeOK, SuccessRefused
      <4> QED
        BY <2>5, <3>1, <4>1, NextJobType, ReleasedType, EnqueueType DEF SuccessRefused
    <3> QED
      BY <2>5, <3>2 DEF SuccessRefused, TypeOK
  <2>6. ASSUME NEW job \in active, SuccessNone(job) PROVE TypeOK'
    <3>1. job \in Job /\ job.index \in Tasks /\ job.peer \in Peers
      BY DEF TypeOK, Job
    <3>2. in' \in SUBSET Tasks /\ active' \in SUBSET Job /\ idle' \in SUBSET Peers
      <4>1. /\ active \ {job} \in SUBSET Job /\ idle \in SUBSET Peers
            /\ pool' \in SUBSET Peers /\ processed' \in Nat
        BY <2>6, FetcherAssumption DEF TypeOK, SuccessNone
      <4> QED
        BY <2>6, <3>1, <4>1, NextJobType, EnqueueType DEF SuccessNone
    <3> QED
      BY <2>6, <3>1, <3>2 DEF SuccessNone, TypeOK
  <2>7. ASSUME NEW job \in active, Failure(job) PROVE TypeOK'
    <3>1. job \in Job /\ job.index \in Tasks
      BY DEF TypeOK, Job
    <3>2. in' \in SUBSET Tasks /\ active' \in SUBSET Job /\ idle' \in SUBSET Peers
      <4>1. active \ {job} \in SUBSET Job /\ pool' \in SUBSET Peers /\ processed' \in Nat
        BY <2>7, FetcherAssumption DEF TypeOK, Failure, Banned
      <4> QED
        BY <2>7, <3>1, <4>1, NextJobType, ReleasedType, EnqueueType DEF Failure
    <3> QED
      BY <2>7, <3>2 DEF Failure, TypeOK, Banned
  <2>8. ASSUME NEW job \in active, Expire(job) PROVE TypeOK'
    <3>1. job \in Job /\ job.index \in Tasks /\ job.peer \in Peers
      BY DEF TypeOK, Job
    <3>2. Enqueue(in, job.index) \in SUBSET Tasks
      BY <3>1, EnqueueType
    <3> QED
      BY <2>8, <3>1, <3>2 DEF Expire, TypeOK, Banned
  <2>9. ASSUME NEW job \in expired, LateReply(job) PROVE TypeOK'
    BY <2>9 DEF LateReply, TypeOK
  <2>10. ASSUME NEW p \in Peers, CoolDown(p) PROVE TypeOK'
    BY <2>10 DEF CoolDown, TypeOK
  <2>11. CASE Read
    <3>1. out' \in SUBSET Tasks /\ processed' \in 0 .. Total /\ readBuf' \in Seq(Tasks)
      BY <2>11, DequeueType DEF Read, TypeOK
    <3> QED
      BY <2>11, <3>1 DEF Read, TypeOK
  <2>12. CASE Pipe
    <3>1. Head(readBuf) \in Tasks /\ Tail(readBuf) \in Seq(Tasks)
      BY <2>12 DEF Pipe, TypeOK
    <3>2. <<Head(readBuf)>> \in Seq(Tasks) /\ Append(wq, Head(readBuf)) \in Seq(Tasks)
      BY <3>1 DEF TypeOK
    <3> QED
      BY <2>12, <3>1, <3>2 DEF Pipe, TypeOK
  <2>13. CASE StoreDone
    <3>1. stored \o writing \in Seq(Tasks) /\ <<>> \in Seq(Tasks)
      BY DEF TypeOK
    <3> QED
      BY <2>13, <3>1 DEF StoreDone, TypeOK
  <2>14. CASE StoreFail
    <3>1. \A n \in 0 .. Len(writing) : stored \o SubSeq(writing, 1, n) \in Seq(Tasks)
      BY DEF TypeOK
    <3>2. stored' \in Seq(Tasks) /\ writing' \in Seq(Tasks) /\ writing' = <<>>
      BY <2>14, <3>1 DEF StoreFail
    <3> QED
      BY <2>14, <3>2 DEF StoreFail, TypeOK
  <2>15. CASE Finish
    BY <2>15 DEF Finish, TypeOK
  <2>16. CASE Destroy
    BY <2>16 DEF Destroy, TypeOK
  <2>17. CASE Close
    BY <2>17 DEF Close, TypeOK
  <2>18. ASSUME NEW p \in Peers, Connect(p) PROVE TypeOK'
    BY <2>18, FetcherAssumption DEF Connect, TypeOK
  <2>19. ASSUME NEW p \in Peers, Disconnect(p) PROVE TypeOK'
    BY <2>19 DEF Disconnect, TypeOK
  <2>20. CASE UNCHANGED vars
    BY <2>20 DEF vars, TypeOK
  <2> QED
    BY <2>1, <2>2, <2>3, <2>4, <2>5, <2>6, <2>7, <2>8, <2>9, <2>10, <2>11,
       <2>12, <2>13, <2>14, <2>15, <2>16, <2>17, <2>18, <2>19, <2>20
       DEF Next, Loop, Settle, Flow, Net
<1> QED
  BY <1>1, <1>2, PTL DEF Spec

-----------------------------------------------------------------------------
(* Conservation of the tasks.  Parts and Covered are the two halves of     *)
(* TaskConservation as relations between a queue, a set of jobs, a set of  *)
(* done tasks and a number of processed ones, so that they can be followed *)
(* through the calls of a handler.                                         *)

Index(jobs) == {job.index : job \in jobs}

Parts(queue, jobs, done, n) ==
    /\ queue \cap done = {} /\ queue \cap Index(jobs) = {} /\ done \cap Index(jobs) = {}
    /\ \A j, k \in jobs : j.index = k.index => j = k
    /\ \A i \in queue \cup done \cup Index(jobs) : i >= n

Covered(queue, jobs, done, n) ==
    n .. Total - 1 \subseteq queue \cup done \cup Index(jobs)

\* The invariant adds that nothing is queued before fetch() is called.
ConservationInv ==
    /\ TypeOK
    /\ Parts(in, active, out, processed)
    /\ running => Covered(in, active, out, processed)
    /\ control = "new" => active = {} /\ out = {} /\ processed = 0 /\ ~running

\* next() moves at most one task from the queue to the jobs.
LEMMA NextJobParts ==
    ASSUME NEW queue, NEW jobs, NEW free, NEW done, NEW n,
           NextJob(queue, jobs, free), Parts(queue, jobs, done, n)
    PROVE  /\ Parts(in', active', done, n)
           /\ Covered(queue, jobs, done, n) => Covered(in', active', done, n)
<1>1. CASE in' = queue /\ active' = jobs
  BY <1>1
<1>2. ASSUME NEW i \in Issuable(queue), NEW p, in' = queue \ {i},
             active' = jobs \cup {Request(i, p)}
      PROVE  /\ Parts(in', active', done, n)
             /\ Covered(queue, jobs, done, n) => Covered(in', active', done, n)
  <2>1. i \in queue
    BY DEF Issuable
  <2>0. Request(i, p).index = i
    BY DEF Request
  <2>2. Index(active') = Index(jobs) \cup {i}
    <3>1. \A x : x \in Index(active') <=> x \in Index(jobs) \/ x = i
      BY <1>2, <2>0 DEF Index
    <3> QED
      BY <3>1
  <2>3. i \notin Index(jobs) /\ i \notin done
    BY <2>1 DEF Parts
  <2>4. \A j, k \in active' : j.index = k.index => j = k
    BY <1>2, <2>3 DEF Index, Request, Parts
  <2>5. Parts(in', active', done, n)
    BY <1>2, <2>1, <2>2, <2>3, <2>4 DEF Parts
  <2>6. Covered(queue, jobs, done, n) => Covered(in', active', done, n)
    BY <1>2, <2>1, <2>2 DEF Covered
  <2> QED
    BY <2>5, <2>6
<1> QED
  BY <1>1, <1>2 DEF NextJob

\* dequeue() advances processed over exactly the tasks it takes out.
LEMMA DequeueParts ==
    ASSUME TypeOK, NEW queue \in SUBSET Tasks, NEW jobs \in SUBSET Job,
           NEW done \in SUBSET Tasks, Dequeue(done),
           Parts(queue, jobs, done, processed)
    PROVE  /\ Parts(queue, jobs, out', processed')
           /\ Covered(queue, jobs, done, processed) => Covered(queue, jobs, out', processed')
<1> PICK n \in 0 .. Total :
        /\ DequeueCount(done, n)
        /\ out' = done \ (processed .. processed + n - 1)
        /\ processed' = processed + n
  BY DEF Dequeue
<1>1. \A i \in processed .. processed + n - 1 : i \in done
  <2> SUFFICES ASSUME NEW i \in processed .. processed + n - 1 PROVE i \in done
    OBVIOUS
  <2>1. i - processed \in 0 .. n - 1 /\ processed + (i - processed) = i
    BY FetcherAssumption DEF TypeOK
  <2> QED
    BY <2>1 DEF DequeueCount
<1>2. \A i \in Index(jobs) : i \in Tasks
  BY DEF Index, Job
<1>3. \A i \in queue \cup out' \cup Index(jobs) : i \in Nat /\ i >= processed'
  <2> SUFFICES ASSUME NEW i \in queue \cup out' \cup Index(jobs)
               PROVE  i \in Nat /\ i >= processed'
    OBVIOUS
  <2>1. i \in Nat /\ i >= processed
    BY <1>2, FetcherAssumption DEF Parts, Tasks
  <2>2. i \in out' \/ i \notin done
    BY DEF Parts
  <2>3. i \notin processed .. processed + n - 1
    BY <1>1, <2>2
  <2> QED
    BY <2>1, <2>3, FetcherAssumption DEF TypeOK
<1>4. Parts(queue, jobs, out', processed')
  BY <1>3 DEF Parts
<1>5. Covered(queue, jobs, done, processed) => Covered(queue, jobs, out', processed')
  <2> SUFFICES ASSUME Covered(queue, jobs, done, processed),
                      NEW i \in processed' .. Total - 1
               PROVE  i \in queue \cup out' \cup Index(jobs)
    BY DEF Covered
  <2>1. i \in processed .. Total - 1 /\ i \notin processed .. processed + n - 1
    BY FetcherAssumption DEF TypeOK
  <2> QED
    BY <2>1 DEF Covered
<1> QED
  BY <1>4, <1>5

\* The loop of fetch() moves tasks from the queue to the jobs.
LEMMA IterateParts ==
    ASSUME NEW queue, Iterate(queue), Parts(queue, active, out, processed)
    PROVE  /\ Parts(in', active', out, processed)
           /\ Covered(queue, active, out, processed) => Covered(in', active', out, processed)
<1> PICK batch \in SUBSET Issuable(queue) : \E to \in [batch -> pool \cap idle] :
        /\ in' = queue \ batch
        /\ active' = active \cup {Request(i, to[i]) : i \in batch}
  BY DEF Iterate
<1> PICK to \in [batch -> pool \cap idle] :
        /\ in' = queue \ batch
        /\ active' = active \cup {Request(i, to[i]) : i \in batch}
  OBVIOUS
<1>1. batch \in SUBSET queue
  BY DEF Issuable
<1>2. \A i \in batch : Request(i, to[i]).index = i
  BY DEF Request
<1>3. Index(active') = Index(active) \cup batch
  BY <1>2 DEF Index
<1>4. batch \cap Index(active) = {} /\ batch \cap out = {}
  BY <1>1 DEF Parts
<1>5. \A j, k \in active' : j.index = k.index => j = k
  <2> SUFFICES ASSUME NEW j \in active', NEW k \in active', j.index = k.index PROVE j = k
    OBVIOUS
  <2>1. CASE j \in active /\ k \in active
    BY <2>1 DEF Parts
  <2>2. CASE j \notin active /\ k \notin active
    BY <2>2, <1>2
  <2>3. CASE j \in active /\ k \notin active
    BY <2>3, <1>2, <1>4 DEF Index
  <2>4. CASE j \notin active /\ k \in active
    BY <2>4, <1>2, <1>4 DEF Index
  <2> QED
    BY <2>1, <2>2, <2>3, <2>4
<1>6. Parts(in', active', out, processed)
  BY <1>1, <1>3, <1>4, <1>5 DEF Parts
<1>7. Covered(queue, active, out, processed) => Covered(in', active', out, processed)
  BY <1>1, <1>3 DEF Covered
<1> QED
  BY <1>6, <1>7

\* A job that leaves the active ones and is enqueued again.
LEMMA EnqueueParts ==
    ASSUME ConservationInv, NEW job \in active
    PROVE  /\ Parts(Enqueue(in, job.index), active \ {job}, out, processed)
           /\ running => Covered(Enqueue(in, job.index), active \ {job}, out, processed)
<1>1. Index(active \ {job}) = Index(active) \ {job.index}
  BY DEF ConservationInv, Parts, Index
<1>2. job.index \in Index(active)
  BY DEF Index
<1>3. Enqueue(in, job.index) = in \/ Enqueue(in, job.index) = in \cup {job.index}
  BY DEF Enqueue
<1>4. Parts(Enqueue(in, job.index), active \ {job}, out, processed)
  BY <1>1, <1>2, <1>3 DEF ConservationInv, Parts
<1>5. running => Covered(Enqueue(in, job.index), active \ {job}, out, processed)
  BY <1>1, <1>2 DEF ConservationInv, Covered, Enqueue
<1> QED
  BY <1>4, <1>5

\* ConservationInv is inductive.
LEMMA ConservationInvariant == Spec => []ConservationInv
<1>1. Init => ConservationInv
  <2> SUFFICES ASSUME Init PROVE ConservationInv
    OBVIOUS
  <2>1. TypeOK
    BY InitType
  <2>2. Index(active) = {}
    BY DEF Init, Index
  <2> QED
    BY <2>1, <2>2 DEF Init, ConservationInv, Parts
<1>2. ConservationInv /\ TypeOK' /\ [Next]_vars => ConservationInv'
  <2> SUFFICES ASSUME ConservationInv, TypeOK', [Next]_vars PROVE ConservationInv'
    OBVIOUS
  <2> USE DEF stage, sinkV, peersV, past, past
  <2> DEFINE Same == UNCHANGED <<in, active, out, processed>>
  <2>0. ASSUME Same, running' => running, control' = control \/ control' # "new"
        PROVE  ConservationInv'
    BY <2>0 DEF ConservationInv, Parts, Covered, Index
  <2>1. CASE Fetch
    <3>1. Parts(Tasks, active, out, processed) /\ Covered(Tasks, active, out, processed)
      <4>1. Index(active) = {} /\ out = {} /\ processed = 0
        BY <2>1 DEF Fetch, ConservationInv, Index
      <4> QED
        BY <2>1, <4>1 DEF Fetch, ConservationInv, Parts, Covered, Tasks
    <3>2. Parts(in', active', out, processed) /\ Covered(in', active', out, processed)
      BY <2>1, <3>1, IterateParts DEF Fetch
    <3> QED
      BY <2>1, <3>2 DEF Fetch, Iterate, ConservationInv, Parts, Covered, Index
  <2>2. CASE LoopWake
    <3>1. Parts(in', active', out, processed) /\ Covered(in', active', out, processed)
      BY <2>2, IterateParts DEF LoopWake, ConservationInv
    <3> QED
      BY <2>2, <3>1 DEF LoopWake, Iterate, ConservationInv, Parts, Covered, Index
  <2>3. CASE LoopEnd
    BY <2>3, <2>0 DEF LoopEnd
  <2>4. ASSUME NEW job \in active, SuccessDone(job) PROVE ConservationInv'
    <3> DEFINE done == out \cup {job.index}
               rest == active \ {job}
    <3>1. done \in SUBSET Tasks /\ in \in SUBSET Tasks /\ rest \in SUBSET Job
      BY DEF ConservationInv, TypeOK, Job
    <3>2. Index(active) = Index(rest) \cup {job.index} /\ job.index \notin Index(rest)
      BY DEF Index, ConservationInv, Parts
    <3>3. /\ Parts(in, rest, done, processed)
          /\ running => Covered(in, rest, done, processed)
      <4>1. \A j, k \in rest : j.index = k.index => j = k
        BY DEF ConservationInv, Parts
      <4>2. in \cup done \cup Index(rest) = in \cup out \cup Index(active)
        BY <3>2
      <4>3. in \cap done = {} /\ in \cap Index(rest) = {} /\ done \cap Index(rest) = {}
        BY <3>2 DEF ConservationInv, Parts
      <4>4. \A i \in in \cup done \cup Index(rest) : i >= processed
        BY <4>2 DEF ConservationInv, Parts
      <4>5. Parts(in, rest, done, processed)
        BY <4>1, <4>3, <4>4 DEF Parts
      <4>6. running => Covered(in, rest, done, processed)
        BY <4>2 DEF ConservationInv, Covered
      <4> QED
        BY <4>5, <4>6
    <3>4. /\ Parts(in, rest, out', processed')
          /\ running => Covered(in, rest, out', processed')
      BY <2>4, <3>1, <3>3, DequeueParts DEF ConservationInv, SuccessDone
    <3>5. /\ Parts(in', active', out', processed')
          /\ running => Covered(in', active', out', processed')
      BY <2>4, <3>4, NextJobParts DEF SuccessDone
    <3> QED
      BY <2>4, <3>5 DEF SuccessDone, ConservationInv, Parts, Covered, Index
  <2>5. ASSUME NEW job \in active,
               NextJob(Enqueue(in, job.index), active \ {job}, Released(job))
               \/ NextJob(Enqueue(in, job.index), active \ {job}, idle),
               UNCHANGED <<running, control, out, processed>>
        PROVE  ConservationInv'
    <3>1. /\ Parts(in', active', out, processed)
          /\ running => Covered(in', active', out, processed)
      BY <2>5, EnqueueParts, NextJobParts
    <3> QED
      BY <2>5, <3>1 DEF ConservationInv, Parts, Covered, Index
  <2>6. ASSUME NEW job \in active, SuccessRefused(job) PROVE ConservationInv'
    BY <2>5, <2>6 DEF SuccessRefused
  <2>7. ASSUME NEW job \in active, SuccessNone(job) PROVE ConservationInv'
    BY <2>5, <2>7 DEF SuccessNone
  <2>8. ASSUME NEW job \in active, Failure(job) PROVE ConservationInv'
    BY <2>5, <2>8 DEF Failure
  <2>9. ASSUME NEW job \in active, Expire(job) PROVE ConservationInv'
    <3>1. /\ Parts(in', active', out, processed)
          /\ running => Covered(in', active', out, processed)
      BY <2>9, EnqueueParts DEF Expire
    <3> QED
      BY <2>9, <3>1 DEF Expire, ConservationInv, Parts, Covered, Index
  <2>10. ASSUME NEW job \in expired, LateReply(job) PROVE ConservationInv'
    BY <2>10, <2>0 DEF LateReply
  <2>11. ASSUME NEW p \in Peers, CoolDown(p) PROVE ConservationInv'
    BY <2>11, <2>0 DEF CoolDown
  <2>12. CASE Read
    <3>1. /\ Parts(in, active, out', processed')
          /\ running => Covered(in, active, out', processed')
      BY <2>12, DequeueParts DEF Read, ConservationInv, TypeOK
    <3> QED
      BY <2>12, <3>1 DEF Read, ConservationInv, Parts, Covered, Index
  <2>13. CASE Pipe \/ StoreDone \/ StoreFail \/ Finish \/ Destroy \/ Close
    BY <2>13, <2>0 DEF Pipe, StoreDone, StoreFail, Finish, Destroy, Close
  <2>14. ASSUME NEW p \in Peers, Connect(p) \/ Disconnect(p) PROVE ConservationInv'
    BY <2>14, <2>0 DEF Connect, Disconnect
  <2>15. CASE UNCHANGED vars
    BY <2>15, <2>0 DEF vars
  <2> QED
    BY <2>1, <2>2, <2>3, <2>4, <2>6, <2>7, <2>8, <2>9, <2>10, <2>11, <2>12,
       <2>13, <2>14, <2>15 DEF Next, Loop, Settle, Flow, Net
<1> QED
  BY <1>1, <1>2, TypeCorrect, PTL DEF Spec

\* No handler loses or duplicates a task: timeouts, rejections, refused
\* answers, bans, late answers and the end of the loop included.
THEOREM TasksConserved == Spec => []TaskConservation
<1>1. ConservationInv => TaskConservation
  BY DEF ConservationInv, TaskConservation, Parts, Covered, Index, ActiveTasks
<1> QED
  BY <1>1, ConservationInvariant, PTL

-----------------------------------------------------------------------------
(* Order of the stored tasks.  What store() has stored, what it is storing *)
(* and the two buffers before it are consecutive segments of the tasks.    *)

Segment(s, i) == \A k \in 1 .. Len(s) : s[k] = i + k - 1

PipelineInv ==
    /\ TypeOK
    /\ Segment(stored, 0)
    /\ Segment(writing, Len(stored))
    /\ writer = "open" =>
          /\ Segment(wq, Len(stored) + Len(writing))
          /\ writing = <<>> => wq = <<>>
          /\ stream = "open" =>
                /\ Segment(readBuf, Len(stored) + Len(writing) + Len(wq))
                /\ processed = Len(stored) + Len(writing) + Len(wq) + Len(readBuf)
    /\ eof => processed = Total
    /\ writer = "finished" => Len(stored) = Total /\ writing = <<>> /\ processed = Total

\* Segments that follow each other make one.
LEMMA SegmentConcat ==
    ASSUME NEW s \in Seq(Tasks), NEW t \in Seq(Tasks), NEW i \in Nat,
           Segment(s, i), Segment(t, i + Len(s))
    PROVE  Segment(s \o t, i) /\ Len(s \o t) = Len(s) + Len(t)
<1>1. Len(s) \in Nat /\ Len(t) \in Nat /\ Len(s \o t) = Len(s) + Len(t)
  OBVIOUS
<1>2. \A k \in 1 .. Len(s) + Len(t) :
         (s \o t)[k] = IF k <= Len(s) THEN s[k] ELSE t[k - Len(s)]
  OBVIOUS
<1>3. ASSUME NEW k \in 1 .. Len(s) + Len(t) PROVE (s \o t)[k] = i + k - 1
  <2>1. CASE k <= Len(s)
    BY <1>1, <1>2, <2>1 DEF Segment
  <2>2. CASE k > Len(s)
    <3>1. k - Len(s) \in 1 .. Len(t)
      BY <1>1, <2>2
    <3> QED
      BY <1>1, <1>2, <2>2, <3>1 DEF Segment
  <2> QED
    BY <1>1, <2>1, <2>2
<1> QED
  BY <1>1, <1>3 DEF Segment

\* The first tasks of a segment are one.
LEMMA SegmentPrefix ==
    ASSUME NEW s \in Seq(Tasks), NEW i \in Nat, Segment(s, i), NEW n \in 0 .. Len(s)
    PROVE  /\ SubSeq(s, 1, n) \in Seq(Tasks) /\ Len(SubSeq(s, 1, n)) = n
           /\ Segment(SubSeq(s, 1, n), i)
<1>1. SubSeq(s, 1, n) \in Seq(Tasks) /\ Len(SubSeq(s, 1, n)) = n
  OBVIOUS
<1>2. \A k \in 1 .. n : SubSeq(s, 1, n)[k] = s[k]
  OBVIOUS
<1> QED
  BY <1>1, <1>2 DEF Segment

\* What is left without the first task is a segment.
LEMMA SegmentHead ==
    ASSUME NEW s \in Seq(Tasks), NEW i \in Nat, Segment(s, i), s # <<>>
    PROVE  /\ Head(s) = i /\ Segment(Tail(s), i + 1)
           /\ Tail(s) \in Seq(Tasks) /\ Len(Tail(s)) + 1 = Len(s)
<1>1. Len(s) \in Nat \ {0} /\ Head(s) = s[1]
  OBVIOUS
<1>2. Tail(s) \in Seq(Tasks) /\ Len(Tail(s)) = Len(s) - 1
  OBVIOUS
<1>3. \A k \in 1 .. Len(s) - 1 : Tail(s)[k] = s[k + 1]
  OBVIOUS
<1> QED
  BY <1>1, <1>2, <1>3 DEF Segment

\* The results that dequeue() takes out together are a segment.
LEMMA SegmentChunks ==
    ASSUME NEW i \in Nat, NEW n \in Nat, i + n <= Total
    PROVE  Segment(Chunks(i, n), i)
<1>1. Len(Chunks(i, n)) = n
  BY ChunksType
<1> QED
  BY <1>1 DEF Segment, Chunks

\* dequeue() appends the next tasks to the read buffer of an open stream.
LEMMA DequeuePushes ==
    ASSUME TypeOK, NEW done \in SUBSET Tasks, Dequeue(done),
           NEW i \in Nat, Segment(readBuf, i), processed = i + Len(readBuf),
           stream = "open"
    PROVE  Segment(readBuf', i) /\ processed' = i + Len(readBuf')
<1> PICK n \in 0 .. Total :
        /\ processed' = processed + n
        /\ readBuf' = readBuf \o Chunks(processed, n)
  BY DEF Dequeue
<1>1. processed \in Nat /\ n \in Nat /\ processed + n <= Total
  BY DequeueType, FetcherAssumption DEF TypeOK
<1>2. /\ Chunks(processed, n) \in Seq(Tasks) /\ Len(Chunks(processed, n)) = n
      /\ Segment(Chunks(processed, n), i + Len(readBuf))
  BY <1>1, ChunksType, SegmentChunks
<1>3. readBuf \in Seq(Tasks) /\ Len(readBuf) \in Nat
  BY DEF TypeOK
<1> QED
  BY <1>1, <1>2, <1>3, SegmentConcat

\* dequeue() never goes back.
LEMMA DequeueAdvances ==
    ASSUME TypeOK, NEW done, Dequeue(done)
    PROVE  processed' \in Nat /\ processed' >= processed
BY FetcherAssumption DEF Dequeue, TypeOK

\* A handler that calls dequeue() keeps the pipeline in order.
LEMMA DequeuePipeline ==
    ASSUME PipelineInv, TypeOK', NEW done \in SUBSET Tasks, Dequeue(done),
           UNCHANGED <<stored, writing, wq, writer, stream, eof>>
    PROVE  PipelineInv'
<1>1. processed' \in 0 .. Total /\ processed' >= processed
  BY DequeueAdvances DEF PipelineInv, TypeOK
<1>2. /\ eof' => processed' = Total
      /\ writer' = "finished" => Len(stored') = Total /\ writing' = <<>> /\ processed' = Total
  BY <1>1, FetcherAssumption DEF PipelineInv
<1>3. ASSUME writer = "open", stream = "open"
      PROVE  /\ Segment(readBuf', Len(stored) + Len(writing) + Len(wq))
             /\ processed' = Len(stored) + Len(writing) + Len(wq) + Len(readBuf')
  <2>1. Len(stored) + Len(writing) + Len(wq) \in Nat
    BY DEF PipelineInv, TypeOK
  <2> QED
    BY <1>3, <2>1, DequeuePushes DEF PipelineInv
<1> QED
  BY <1>2, <1>3 DEF PipelineInv, Segment

\* PipelineInv is inductive.
LEMMA PipelineInvariant == Spec => []PipelineInv
<1>1. Init => PipelineInv
  <2> SUFFICES ASSUME Init PROVE PipelineInv
    OBVIOUS
  <2>1. /\ Len(stored) = 0 /\ Len(writing) = 0 /\ Len(wq) = 0 /\ Len(readBuf) = 0
    BY DEF Init
  <2> QED
    BY <2>1, InitType DEF Init, PipelineInv, Segment
<1>2. PipelineInv /\ TypeOK' /\ [Next]_vars => PipelineInv'
  <2> SUFFICES ASSUME PipelineInv, TypeOK', [Next]_vars PROVE PipelineInv'
    OBVIOUS
  <2> USE DEF stage, sinkV, peersV, past, past
  <2>len. /\ Len(stored) \in Nat /\ Len(writing) \in Nat
          /\ Len(wq) \in Nat /\ Len(readBuf) \in Nat
    BY DEF PipelineInv, TypeOK
  <2>0. ASSUME UNCHANGED <<stored, writing, wq, writer, processed, readBuf>>,
               stream' = "open" => stream = "open",
               eof' => eof \/ processed = Total
        PROVE  PipelineInv'
    BY <2>0 DEF PipelineInv, Segment
  <2>1. CASE Fetch
    BY <2>1, <2>0 DEF Fetch, Iterate
  <2>2. CASE LoopWake
    BY <2>2, <2>0 DEF LoopWake, Iterate
  <2>3. CASE LoopEnd
    BY <2>3, <2>0 DEF LoopEnd
  <2>4. ASSUME NEW job \in active, SuccessDone(job) PROVE PipelineInv'
    <3>1. out \cup {job.index} \in SUBSET Tasks
      BY DEF PipelineInv, TypeOK, Job
    <3> QED
      BY <2>4, <3>1, DequeuePipeline DEF SuccessDone
  <2>5. ASSUME NEW job \in active,
               SuccessRefused(job) \/ SuccessNone(job) \/ Failure(job) \/ Expire(job)
        PROVE  PipelineInv'
    BY <2>5, <2>0 DEF SuccessRefused, SuccessNone, Failure, Expire
  <2>6. ASSUME NEW job \in expired, LateReply(job) PROVE PipelineInv'
    BY <2>6, <2>0 DEF LateReply
  <2>7. ASSUME NEW p \in Peers, CoolDown(p) \/ Connect(p) \/ Disconnect(p)
        PROVE  PipelineInv'
    BY <2>7, <2>0 DEF CoolDown, Connect, Disconnect
  <2>8. CASE Read
    BY <2>8, DequeuePipeline DEF Read, PipelineInv, TypeOK
  <2>9. CASE Pipe
    <3> DEFINE i == Len(stored) + Len(writing) + Len(wq)
    <3>1. writer = "open" /\ stream = "open" /\ readBuf # <<>>
      BY <2>9 DEF Pipe
    <3>2. /\ Head(readBuf) = i /\ Segment(Tail(readBuf), i + 1)
          /\ Tail(readBuf) \in Seq(Tasks) /\ Len(Tail(readBuf)) + 1 = Len(readBuf)
      BY <3>1, <2>len, SegmentHead DEF PipelineInv, TypeOK
    <3>3. readBuf' = Tail(readBuf) /\ processed = i + 1 + Len(readBuf')
      BY <2>9, <2>len, <3>1, <3>2 DEF Pipe, PipelineInv
    <3>4. CASE writing = <<>>
      <4>1. writing' = <<Head(readBuf)>> /\ wq' = <<>> /\ Len(writing) = 0 /\ Len(wq) = 0
        BY <2>9, <3>1, <3>4 DEF Pipe, PipelineInv
      <4>2. Len(writing') = 1 /\ writing'[1] = i /\ Len(wq') = 0
        BY <3>2, <4>1
      <4>3. Segment(writing', Len(stored)) /\ Segment(wq', Len(stored) + 1) /\ i = Len(stored)
        BY <4>1, <4>2, <2>len DEF Segment
      <4> QED
        BY <2>9, <2>len, <3>1, <3>2, <3>3, <4>1, <4>2, <4>3 DEF Pipe, PipelineInv
    <3>5. CASE writing # <<>>
      <4>1. wq' = Append(wq, Head(readBuf)) /\ writing' = writing
        BY <2>9, <3>5 DEF Pipe
      <4>2. wq \in Seq(Tasks)
        BY DEF PipelineInv, TypeOK
      <4>3. Len(wq') = Len(wq) + 1 /\ \A k \in 1 .. Len(wq) + 1 :
               wq'[k] = IF k <= Len(wq) THEN wq[k] ELSE Head(readBuf)
        BY <4>1, <4>2
      <4>4. Segment(wq', Len(stored) + Len(writing))
        <5>1. \A k \in 1 .. Len(wq) : wq[k] = Len(stored) + Len(writing) + k - 1
          BY <3>1 DEF PipelineInv, Segment
        <5>2. Head(readBuf) = Len(stored) + Len(writing) + Len(wq)
          BY <3>2
        <5>3. ASSUME NEW k \in 1 .. Len(wq) + 1
              PROVE  wq'[k] = Len(stored) + Len(writing) + k - 1
          <6>1. k \in 1 .. Len(wq) \/ k = Len(wq) + 1
            BY <2>len
          <6> QED
            BY <2>len, <4>3, <5>1, <5>2, <6>1
        <5> QED
          BY <4>3, <5>3 DEF Segment
      <4>5. UNCHANGED <<stored, processed, stream, writer, eof>>
        BY <2>9 DEF Pipe
      <4>6. Len(stored') + Len(writing') + Len(wq') = i + 1 /\ writing' # <<>>
        BY <2>len, <3>5, <4>1, <4>3, <4>5
      <4> QED
        BY <3>1, <3>2, <3>3, <4>1, <4>4, <4>5, <4>6 DEF PipelineInv
    <3> QED
      BY <3>4, <3>5
  <2>10. CASE StoreDone
    <3>1. Segment(stored', 0) /\ Len(stored') = Len(stored) + Len(writing)
      <4>1. Segment(writing, 0 + Len(stored)) /\ stored \in Seq(Tasks) /\ writing \in Seq(Tasks)
        BY <2>len DEF PipelineInv, TypeOK
      <4> QED
        BY <2>10, <4>1, SegmentConcat DEF StoreDone, PipelineInv
    <3>2. CASE writer = "open"
      <4>1. writing' = wq /\ wq' = <<>> /\ Len(wq') = 0
        BY <2>10, <3>2 DEF StoreDone
      <4>2. Segment(wq', Len(stored') + Len(writing'))
        BY <4>1 DEF Segment
      <4>3. Len(stored') + Len(writing') + Len(wq') = Len(stored) + Len(writing) + Len(wq)
        BY <2>len, <3>1, <4>1
      <4>4. Segment(writing', Len(stored'))
        BY <3>1, <3>2, <4>1 DEF PipelineInv
      <4>5. UNCHANGED <<readBuf, processed, stream, writer, eof>>
        BY <2>10 DEF StoreDone
      <4> QED
        BY <3>1, <3>2, <4>1, <4>2, <4>3, <4>4, <4>5 DEF PipelineInv
    <3>3. CASE writer # "open"
      <4>1. writing' = <<>> /\ Len(writing') = 0
        BY <2>10, <3>3 DEF StoreDone
      <4>2. Segment(writing', Len(stored'))
        BY <4>1 DEF Segment
      <4> QED
        BY <2>10, <3>1, <3>3, <4>1, <4>2 DEF StoreDone, PipelineInv
    <3> QED
      BY <3>2, <3>3
  <2>11. CASE StoreFail
    <3>1. PICK n \in 0 .. Len(writing) : stored' = stored \o SubSeq(writing, 1, n)
      BY <2>11 DEF StoreFail
    <3>2. /\ SubSeq(writing, 1, n) \in Seq(Tasks)
          /\ Segment(SubSeq(writing, 1, n), 0 + Len(stored))
      <4>1. n \in 0 .. Len(writing)
        BY <2>len
      <4> QED
        BY <2>len, <4>1, SegmentPrefix DEF PipelineInv, TypeOK
    <3>3. Segment(stored', 0)
      BY <3>1, <3>2, SegmentConcat DEF PipelineInv, TypeOK
    <3>4. writing' = <<>> /\ Len(writing') = 0 /\ writer' # "open" /\ writer' # "finished"
      BY <2>11 DEF StoreFail, PipelineInv
    <3>5. Segment(writing', Len(stored'))
      BY <3>4 DEF Segment
    <3> QED
      BY <2>11, <3>3, <3>4, <3>5 DEF StoreFail, PipelineInv
  <2>12. CASE Finish
    <3>1. Len(writing) = 0 /\ Len(wq) = 0 /\ Len(readBuf) = 0
      BY <2>12 DEF Finish
    <3> QED
      BY <2>12, <2>len, <3>1 DEF Finish, PipelineInv, Segment
  <2>13. CASE Destroy
    BY <2>13, <2>0 DEF Destroy
  <2>14. CASE Close
    BY <2>14 DEF Close, PipelineInv, Segment
  <2>15. CASE UNCHANGED vars
    BY <2>15, <2>0 DEF vars
  <2> QED
    BY <2>1, <2>2, <2>3, <2>4, <2>5, <2>6, <2>7, <2>8, <2>9, <2>10, <2>11,
       <2>12, <2>13, <2>14, <2>15 DEF Next, Loop, Settle, Flow, Net
<1> QED
  BY <1>1, <1>2, TypeCorrect, PTL DEF Spec

\* store() gets the tasks in order and each once, for any number of peers and
\* tasks, and wherever the fetcher fails or is stopped.
THEOREM StoredAlwaysInOrder == Spec => []StoredInOrder
<1>1. PipelineInv => StoredInOrder
  <2> SUFFICES ASSUME PipelineInv PROVE stored = Chunks(0, Len(stored))
    BY DEF StoredInOrder
  <2>1. stored \in Seq(Tasks) /\ Len(stored) \in Nat
    BY DEF PipelineInv, TypeOK
  <2>2. stored = [k \in 1 .. Len(stored) |-> stored[k]]
    BY <2>1
  <2>3. \A k \in 1 .. Len(stored) : stored[k] = 0 + k - 1
    BY DEF PipelineInv, Segment
  <2> QED
    BY <2>2, <2>3 DEF Chunks
<1> QED
  BY <1>1, PipelineInvariant, PTL

\* When the writer finishes, everything is stored and no job is left.
THEOREM FinishedIsComplete == Spec => []FinishedComplete
<1>1. PipelineInv /\ ConservationInv => FinishedComplete
  <2> SUFFICES ASSUME PipelineInv, ConservationInv, writer = "finished"
               PROVE  Len(stored) = Total /\ in = {} /\ active = {} /\ out = {}
    BY DEF FinishedComplete
  <2>1. Len(stored) = Total /\ processed = Total
    BY DEF PipelineInv
  <2>2. \A i \in in \cup out \cup Index(active) : i >= Total /\ i \in Tasks
    BY <2>1 DEF ConservationInv, Parts, TypeOK, Job, Index
  <2>3. \A i \in Tasks : ~(i >= Total)
    BY FetcherAssumption DEF Tasks
  <2> QED
    BY <2>1, <2>2, <2>3 DEF Index
<1> QED
  BY <1>1, PipelineInvariant, ConservationInvariant, PTL

-----------------------------------------------------------------------------
(* The backlog.  Near is BacklogBounded as a relation between the tasks    *)
(* that are active or done, the number of processed ones and the length of *)
(* the read buffer.                                                        *)

Near(tasks, n, waiting) ==
    /\ \A i \in tasks : i <= n + MaxQueue
    /\ stream = "open" =>
          /\ \A i \in tasks : i <= n - waiting + 2 * MaxQueue
          /\ waiting <= 2 * MaxQueue + 1

BacklogInv == TypeOK /\ Near(out \cup Index(active), processed, Len(readBuf))

\* What next() adds to the active jobs was issuable.
LEMMA NextJobIssues ==
    ASSUME NEW queue, NEW jobs, NEW free, NextJob(queue, jobs, free)
    PROVE  Index(active') \subseteq Index(jobs) \cup Issuable(queue)
<1>1. ASSUME NEW i \in Issuable(queue), NEW p, active' = jobs \cup {Request(i, p)}
      PROVE  Index(active') \subseteq Index(jobs) \cup Issuable(queue)
  <2>1. Request(i, p).index = i
    BY DEF Request
  <2> QED
    BY <1>1, <2>1 DEF Index
<1> QED
  BY <1>1 DEF NextJob, Index

\* So is what the loop of fetch() adds.
LEMMA IterateIssues ==
    ASSUME NEW queue, Iterate(queue)
    PROVE  Index(active') \subseteq Index(active) \cup Issuable(queue)
<1> PICK batch \in SUBSET Issuable(queue) : \E to \in [batch -> pool \cap idle] :
        active' = active \cup {Request(i, to[i]) : i \in batch}
  BY DEF Iterate
<1> PICK to \in [batch -> pool \cap idle] :
        active' = active \cup {Request(i, to[i]) : i \in batch}
  OBVIOUS
<1>1. \A i \in batch : Request(i, to[i]).index = i
  BY DEF Request
<1> QED
  BY <1>1 DEF Index

\* A task is issued only near processed, and only while few chunks wait: that
\* keeps it near the first of them.
LEMMA IssuedNear ==
    ASSUME NEW old \in SUBSET Tasks, NEW new \in SUBSET Tasks, NEW queue \in SUBSET Tasks,
           new \subseteq old \cup Issuable(queue),
           processed' \in Nat, Len(readBuf') \in Nat,
           Near(old, processed', Len(readBuf'))
    PROVE  Near(new, processed', Len(readBuf'))
<1>1. MaxQueue \in Nat /\ \A i \in Tasks : i \in Nat
  BY FetcherAssumption DEF Tasks
<1>2. ASSUME NEW i \in new, i \in Issuable(queue)
      PROVE  i <= processed' + MaxQueue /\ i <= processed' - Len(readBuf') + 2 * MaxQueue
  <2>1. i <= processed' + MaxQueue /\ ~(Len(readBuf') > MaxQueue)
    BY <1>2 DEF Issuable
  <2> QED
    BY <1>1, <2>1
<1> QED
  BY <1>1, <1>2 DEF Near

\* dequeue() moves processed and the end of the read buffer by the same number,
\* over tasks that were near the first chunk of the buffer.
LEMMA DequeueNear ==
    ASSUME TypeOK, NEW done \in SUBSET Tasks, NEW jobs \in SUBSET Tasks, Dequeue(done),
           Near(done \cup jobs, processed, Len(readBuf))
    PROVE  /\ Near(out' \cup jobs, processed', Len(readBuf'))
           /\ processed' \in Nat /\ Len(readBuf') \in Nat /\ out' \in SUBSET Tasks
<1> PICK n \in 0 .. Total :
        /\ DequeueCount(done, n)
        /\ out' = done \ (processed .. processed + n - 1)
        /\ processed' = processed + n
        /\ readBuf' = IF stream = "open"
                      THEN readBuf \o Chunks(processed, n) ELSE readBuf
  BY DEF Dequeue
<1>1. /\ MaxQueue \in Nat /\ n \in Nat /\ processed \in Nat /\ Len(readBuf) \in Nat
      /\ \A i \in done \cup jobs : i \in Nat
  BY FetcherAssumption DEF TypeOK, Tasks
<1>2. out' \in SUBSET Tasks /\ readBuf' \in Seq(Tasks) /\ processed + n <= Total
  BY DequeueType, FetcherAssumption
<1>3. processed' \in Nat /\ Len(readBuf') \in Nat
  BY <1>1, <1>2
<1>4. \A i \in out' \cup jobs : i \in done \cup jobs /\ i <= processed' + MaxQueue
  BY <1>1 DEF Near
<1>5. ASSUME stream = "open"
      PROVE  /\ \A i \in out' \cup jobs : i <= processed' - Len(readBuf') + 2 * MaxQueue
             /\ Len(readBuf') <= 2 * MaxQueue + 1
  <2>1. Chunks(processed, n) \in Seq(Tasks) /\ Len(Chunks(processed, n)) = n
    BY <1>1, <1>2, ChunksType
  <2>2. readBuf \in Seq(Tasks) /\ readBuf' = readBuf \o Chunks(processed, n)
    BY <1>5 DEF TypeOK
  <2>3. Len(readBuf') = Len(readBuf) + n
    <3>1. ASSUME NEW s \in Seq(Tasks), NEW t \in Seq(Tasks)
          PROVE  Len(s \o t) = Len(s) + Len(t)
      OBVIOUS
    <3> QED
      BY <2>1, <2>2, <3>1
  <2>4. CASE n = 0
    BY <1>1, <1>4, <1>5, <2>3, <2>4 DEF Near
  <2>5. CASE n > 0
    <3>1. processed + (n - 1) \in done
      BY <1>1, <2>5 DEF DequeueCount
    <3>2. processed + (n - 1) <= processed - Len(readBuf) + 2 * MaxQueue
      BY <1>5, <3>1 DEF Near
    <3> QED
      BY <1>1, <1>4, <1>5, <2>3, <3>2 DEF Near
  <2>6. n = 0 \/ n > 0
    BY <1>1
  <2> QED
    BY <2>4, <2>5, <2>6
<1> QED
  BY <1>2, <1>3, <1>4, <1>5 DEF Near

\* BacklogInv is inductive.
LEMMA BacklogInvariant == Spec => []BacklogInv
<1>1. Init => BacklogInv
  <2> SUFFICES ASSUME Init PROVE BacklogInv
    OBVIOUS
  <2>1. out \cup Index(active) = {} /\ Len(readBuf) = 0
    BY DEF Init, Index
  <2> QED
    BY <2>1, InitType, FetcherAssumption DEF BacklogInv, Near
<1>2. BacklogInv /\ TypeOK' /\ [Next]_vars => BacklogInv'
  <2> SUFFICES ASSUME BacklogInv, TypeOK', [Next]_vars PROVE BacklogInv'
    OBVIOUS
  <2> USE DEF stage, sinkV, peersV, past, past
  <2>nat. /\ MaxQueue \in Nat /\ processed \in Nat /\ processed' \in Nat
          /\ Len(readBuf) \in Nat /\ Len(readBuf') \in Nat
    BY FetcherAssumption DEF BacklogInv, TypeOK
  <2>sub. /\ in \in SUBSET Tasks /\ out \in SUBSET Tasks /\ out' \in SUBSET Tasks
          /\ Index(active) \in SUBSET Tasks /\ Index(active') \in SUBSET Tasks
          /\ \A job \in active : job.index \in Index(active) /\ job.index \in Tasks
    BY DEF BacklogInv, TypeOK, Job, Index
  <2>0. ASSUME out' \cup Index(active') \subseteq out \cup Index(active),
               processed' = processed, Len(readBuf') <= Len(readBuf),
               stream' = "open" => stream = "open"
        PROVE  BacklogInv'
    <3>1. \A i \in out \cup Index(active) : i \in Nat
      BY <2>sub DEF Tasks
    <3>2. Near(out \cup Index(active), processed, Len(readBuf))
      BY DEF BacklogInv
    <3>3. \A i \in out' \cup Index(active') : i <= processed' + MaxQueue
      BY <2>0, <3>2 DEF Near
    <3>4. ASSUME stream' = "open"
          PROVE  /\ \A i \in out' \cup Index(active') :
                       i <= processed' - Len(readBuf') + 2 * MaxQueue
                 /\ Len(readBuf') <= 2 * MaxQueue + 1
      <4>1. /\ \A i \in out' \cup Index(active') :
                  i \in Nat /\ i <= processed - Len(readBuf) + 2 * MaxQueue
            /\ Len(readBuf) <= 2 * MaxQueue + 1
        BY <2>0, <3>1, <3>2, <3>4 DEF Near
      <4> QED
        BY <2>0, <2>nat, <4>1
    <3> QED
      BY <3>3, <3>4 DEF BacklogInv, Near
  <2>1. ASSUME NEW queue \in SUBSET Tasks, Iterate(queue), UNCHANGED <<out, stream>>
        PROVE  BacklogInv'
    <3>1. processed' = processed /\ Len(readBuf') = Len(readBuf)
      BY <2>1 DEF Iterate
    <3>2. Near(out \cup Index(active), processed', Len(readBuf'))
      BY <3>1 DEF BacklogInv
    <3>3. out' \cup Index(active') \subseteq (out \cup Index(active)) \cup Issuable(queue)
      BY <2>1, IterateIssues
    <3>4. out \cup Index(active) \in SUBSET Tasks /\ out' \cup Index(active') \in SUBSET Tasks
      BY <2>sub
    <3>5. Near(out' \cup Index(active'), processed', Len(readBuf'))
      BY <2>nat, <3>2, <3>3, <3>4, IssuedNear
    <3> QED
      BY <2>1, <3>5 DEF BacklogInv, Near
  <2>2. CASE Fetch
    BY <2>1, <2>2 DEF Fetch
  <2>3. CASE LoopWake
    BY <2>1, <2>3, <2>sub DEF LoopWake
  <2>4. CASE LoopEnd
    BY <2>4, <2>0, <2>nat DEF LoopEnd, Index
  <2>5. ASSUME NEW job \in active, SuccessDone(job) PROVE BacklogInv'
    <3> DEFINE jobs == active \ {job}
    <3>1. (out \cup {job.index}) \cup Index(jobs) \subseteq out \cup Index(active)
      BY <2>sub DEF Index
    <3>2. Near((out \cup {job.index}) \cup Index(jobs), processed, Len(readBuf))
      BY <3>1 DEF BacklogInv, Near
    <3>3. out \cup {job.index} \in SUBSET Tasks /\ Index(jobs) \in SUBSET Tasks
      BY <2>sub, <3>1
    <3>4. Dequeue(out \cup {job.index}) /\ NextJob(in, jobs, Released(job)) /\ stream' = stream
      BY <2>5 DEF SuccessDone
    <3>5. Near(out' \cup Index(jobs), processed', Len(readBuf'))
      BY <3>2, <3>3, <3>4, DequeueNear DEF BacklogInv
    <3>6. out' \cup Index(active') \subseteq (out' \cup Index(jobs)) \cup Issuable(in)
      BY <3>4, NextJobIssues
    <3>7. out' \cup Index(jobs) \in SUBSET Tasks /\ out' \cup Index(active') \in SUBSET Tasks
      BY <2>sub, <3>3
    <3>8. Near(out' \cup Index(active'), processed', Len(readBuf'))
      BY <2>nat, <2>sub, <3>5, <3>6, <3>7, IssuedNear
    <3> QED
      BY <3>4, <3>8 DEF BacklogInv, Near
  <2>6. ASSUME NEW job \in active, NEW free,
               NextJob(Enqueue(in, job.index), active \ {job}, free),
               UNCHANGED <<out, processed, readBuf, stream>>
        PROVE  BacklogInv'
    <3>1. Near(out \cup Index(active), processed', Len(readBuf'))
      BY <2>6 DEF BacklogInv
    <3>2. out' \cup Index(active')
             \subseteq (out \cup Index(active)) \cup Issuable(Enqueue(in, job.index))
      BY <2>6, NextJobIssues DEF Index
    <3>3. Enqueue(in, job.index) \in SUBSET Tasks
      BY <2>sub DEF Enqueue
    <3>4. out \cup Index(active) \in SUBSET Tasks /\ out' \cup Index(active') \in SUBSET Tasks
      BY <2>sub
    <3>5. Near(out' \cup Index(active'), processed', Len(readBuf'))
      BY <2>nat, <3>1, <3>2, <3>3, <3>4, IssuedNear
    <3> QED
      BY <2>6, <3>5 DEF BacklogInv, Near
  <2>7. ASSUME NEW job \in active, SuccessRefused(job) \/ SuccessNone(job) \/ Failure(job)
        PROVE  BacklogInv'
    BY <2>6, <2>7 DEF SuccessRefused, SuccessNone, Failure
  <2>8. ASSUME NEW job \in active, Expire(job) PROVE BacklogInv'
    BY <2>8, <2>0, <2>nat DEF Expire, Index
  <2>9. ASSUME NEW job \in expired, LateReply(job) PROVE BacklogInv'
    BY <2>9, <2>0, <2>nat DEF LateReply, Index
  <2>10. ASSUME NEW p \in Peers, CoolDown(p) \/ Connect(p) \/ Disconnect(p)
         PROVE  BacklogInv'
    BY <2>10, <2>0, <2>nat DEF CoolDown, Connect, Disconnect, Index
  <2>11. CASE Read
    <3>1. Near(out' \cup Index(active), processed', Len(readBuf'))
      BY <2>11, <2>sub, DequeueNear DEF Read, BacklogInv
    <3> QED
      BY <2>11, <3>1 DEF Read, BacklogInv, Near, Index
  <2>12. CASE Pipe
    <3>1. readBuf \in Seq(Tasks) /\ readBuf # <<>> /\ readBuf' = Tail(readBuf)
      BY <2>12 DEF Pipe, BacklogInv, TypeOK
    <3>2. Len(readBuf') <= Len(readBuf)
      BY <3>1
    <3> QED
      BY <2>12, <2>0, <3>2 DEF Pipe, Index
  <2>13. CASE StoreDone \/ StoreFail \/ Finish \/ Destroy \/ Close
    BY <2>13, <2>0, <2>nat DEF StoreDone, StoreFail, Finish, Destroy, Close, Index
  <2>14. CASE UNCHANGED vars
    BY <2>14, <2>0, <2>nat DEF vars, Index
  <2> QED
    BY <2>2, <2>3, <2>4, <2>5, <2>7, <2>8, <2>9, <2>10, <2>11, <2>12, <2>13, <2>14
       DEF Next, Loop, Settle, Flow, Net
<1> QED
  BY <1>1, <1>2, TypeCorrect, PTL DEF Spec

\* However slow store() is and whichever peer is late, what was asked for and is
\* not handed on stays within the two windows of next(), for every size of them.
THEOREM BacklogIsBounded == Spec => []BacklogBounded
<1>1. BacklogInv => BacklogBounded
  BY DEF BacklogInv, BacklogBounded, Near, Index, ActiveTasks
<1> QED
  BY <1>1, BacklogInvariant, PTL
-----------------------------------------------------------------------------
(* One request per peer.  Sole is OneRequestPerPeer as a relation between  *)
(* the jobs whose request has not settled, the idle peers and the cooling  *)
(* ones, so that it can be followed through the calls of a handler.        *)

Sole(jobs, free, cool) ==
    /\ \A j, k \in jobs : j.peer = k.peer => j = k
    /\ \A j \in jobs : j.peer \notin free \cup cool
    /\ free \cap cool = {}

\* The invariant adds to OneRequestPerPeer that an expired job keeps its peer
\* busy too, that a job is not both active and expired, and that a peer is not
\* both idle and cooling.
BusyInv == Sole(active \cup expired, idle, cooling) /\ active \cap expired = {}

\* A job that settles frees its peer, or a peer that is freed starts to cool:
\* what the other jobs say of their peers stays true.
LEMMA SettleSole ==
    ASSUME NEW jobs, NEW free, NEW cool, Sole(jobs, free, cool),
           NEW job \in jobs, NEW rest \in SUBSET jobs, job \notin rest
    PROVE  /\ Sole(rest, free, cool)
           /\ Sole(rest, free \cup {job.peer}, cool)
           /\ Sole(rest, free, cool \cup {job.peer})
BY DEF Sole

\* next() gives a job to an idle peer, which has none.
LEMMA NextJobSole ==
    ASSUME NEW queue, NEW jobs, NEW late, NEW free, NEW cool,
           NextJob(queue, jobs, free),
           Sole(jobs \cup late, free, cool), jobs \cap late = {}
    PROVE  Sole(active' \cup late, idle', cool) /\ active' \cap late = {}
<1>1. CASE active' = jobs /\ idle' = free
  BY <1>1
<1>2. ASSUME NEW i \in Issuable(queue), NEW p \in pool' \cap free,
             active' = jobs \cup {Request(i, p)}, idle' = free \ {p}
      PROVE  Sole(active' \cup late, idle', cool) /\ active' \cap late = {}
  <2>1. Request(i, p).peer = p
    BY DEF Request
  <2>2. \A j \in jobs \cup late : j.peer # p
    BY DEF Sole
  <2>3. Request(i, p) \notin jobs \cup late
    BY <2>1, <2>2
  <2>4. \A j, k \in active' \cup late : j.peer = k.peer => j = k
    BY <1>2, <2>1, <2>2 DEF Sole
  <2>5. \A j \in active' \cup late : j.peer \notin idle' \cup cool
    BY <1>2, <2>1 DEF Sole
  <2> QED
    BY <1>2, <2>3, <2>4, <2>5 DEF Sole
<1> QED
  BY <1>1, <1>2 DEF NextJob

\* So does the loop of fetch(), to as many peers as it takes jobs.
LEMMA IterateSole ==
    ASSUME NEW queue, Iterate(queue), BusyInv
    PROVE  Sole(active' \cup expired, idle', cooling) /\ active' \cap expired = {}
<1> PICK batch \in SUBSET Issuable(queue) : \E to \in [batch -> pool \cap idle] :
        /\ \A i, j \in batch : to[i] = to[j] => i = j
        /\ active' = active \cup {Request(i, to[i]) : i \in batch}
        /\ idle' = idle \ {to[i] : i \in batch}
  BY DEF Iterate
<1> PICK to \in [batch -> pool \cap idle] :
        /\ \A i, j \in batch : to[i] = to[j] => i = j
        /\ active' = active \cup {Request(i, to[i]) : i \in batch}
        /\ idle' = idle \ {to[i] : i \in batch}
  OBVIOUS
<1> DEFINE jobs == active \cup expired
           new  == {Request(i, to[i]) : i \in batch}
<1>1. Sole(jobs, idle, cooling)
  BY DEF BusyInv
<1>2. \A i \in batch : Request(i, to[i]).peer = to[i] /\ to[i] \in idle
  BY DEF Request
<1>3. \A j \in jobs, k \in new : j.peer # k.peer
  BY <1>1, <1>2 DEF Sole
<1>4. \A j, k \in new : j.peer = k.peer => j = k
  BY <1>2
<1>5. \A j, k \in jobs \cup new : j.peer = k.peer => j = k
  BY <1>1, <1>3, <1>4 DEF Sole
<1>6. \A j \in jobs \cup new : j.peer \notin idle' \cup cooling
  <2>1. \A j \in new : j.peer \notin idle' /\ j.peer \in idle
    BY <1>2
  <2> QED
    BY <1>1, <2>1 DEF Sole
<1>7. active' \cup expired = jobs \cup new
  OBVIOUS
<1>8. active' \cap expired = {}
  BY <1>3 DEF BusyInv
<1> HIDE DEF jobs, new
<1> QED
  BY <1>1, <1>5, <1>6, <1>7, <1>8 DEF Sole

\* BusyInv is inductive.
LEMMA BusyInvariant == Spec => []BusyInv
<1>1. Init => BusyInv
  <2> SUFFICES ASSUME Init PROVE BusyInv
    OBVIOUS
  <2>1. active \cup expired = {} /\ cooling = {}
    BY DEF Init
  <2> QED
    BY <2>1 DEF BusyInv, Sole
<1>2. BusyInv /\ [Next]_vars => BusyInv'
  <2> SUFFICES ASSUME BusyInv, [Next]_vars PROVE BusyInv'
    OBVIOUS
  <2> USE DEF stage, sinkV, peersV, past
  <2>inv. Sole(active \cup expired, idle, cooling) /\ active \cap expired = {}
    BY DEF BusyInv
  <2>to. ASSUME Sole(active' \cup expired, idle', cooling'), active' \cap expired = {},
                UNCHANGED expired
         PROVE  BusyInv'
    BY <2>to DEF BusyInv
  <2>0. ASSUME UNCHANGED <<active, expired, idle, cooling>> PROVE BusyInv'
    BY <2>0 DEF BusyInv, Sole
  <2>1. CASE Fetch
    BY <2>1, <2>to, IterateSole DEF Fetch
  <2>2. CASE LoopWake
    BY <2>2, <2>to, IterateSole DEF LoopWake
  <2>3. CASE LoopEnd
    BY <2>3, <2>0 DEF LoopEnd
  <2>4. ASSUME NEW job \in active, NEW queue, NextJob(queue, active \ {job}, Released(job)),
               UNCHANGED <<expired, cooling>>
        PROVE  BusyInv'
    <3>1. /\ (active \ {job}) \cup expired \in SUBSET (active \cup expired)
          /\ job \in active \cup expired /\ job \notin (active \ {job}) \cup expired
      BY <2>inv
    <3>2. Sole((active \ {job}) \cup expired, Released(job), cooling)
      BY <2>inv, <3>1, SettleSole DEF Released
    <3>3. (active \ {job}) \cap expired = {}
      BY <2>inv
    <3>4. Sole(active' \cup expired, idle', cooling) /\ active' \cap expired = {}
      BY <2>4, <3>2, <3>3, NextJobSole
    <3> QED
      BY <2>4, <2>to, <3>4
  <2>5. ASSUME NEW job \in active,
               SuccessDone(job) \/ SuccessRefused(job) \/ Failure(job)
        PROVE  BusyInv'
    BY <2>4, <2>5 DEF SuccessDone, SuccessRefused, Failure
  <2>6. ASSUME NEW job \in active, SuccessNone(job) PROVE BusyInv'
    <3>1. /\ (active \ {job}) \cup expired \in SUBSET (active \cup expired)
          /\ job \in active \cup expired /\ job \notin (active \ {job}) \cup expired
      BY <2>inv
    <3>2. Sole((active \ {job}) \cup expired, idle, cooling')
      BY <2>6, <2>inv, <3>1, SettleSole DEF SuccessNone
    <3>3. (active \ {job}) \cap expired = {}
      BY <2>inv
    <3>4. NextJob(Enqueue(in, job.index), active \ {job}, idle) /\ UNCHANGED expired
      BY <2>6 DEF SuccessNone
    <3>5. Sole(active' \cup expired, idle', cooling') /\ active' \cap expired = {}
      BY <3>2, <3>3, <3>4, NextJobSole
    <3> QED
      BY <2>to, <3>4, <3>5
  <2>7. ASSUME NEW job \in active, Expire(job) PROVE BusyInv'
    <3>1. active' \cup expired' = active \cup expired /\ active' \cap expired' = {}
      BY <2>7, <2>inv DEF Expire
    <3> QED
      BY <2>7, <2>inv, <3>1 DEF Expire, BusyInv, Sole
  <2>8. ASSUME NEW job \in expired, LateReply(job) PROVE BusyInv'
    <3>1. /\ active' \cup expired' \in SUBSET (active \cup expired)
          /\ job \in active \cup expired /\ job \notin active' \cup expired'
          /\ active' \cap expired' = {} /\ UNCHANGED <<idle, cooling>>
      BY <2>8, <2>inv DEF LateReply
    <3>2. Sole(active' \cup expired', idle, cooling)
      BY <2>inv, <3>1, SettleSole
    <3> QED
      BY <3>1, <3>2 DEF BusyInv, Sole
  <2>9. ASSUME NEW p \in Peers, CoolDown(p) PROVE BusyInv'
    <3>1. idle' \cup cooling' = idle \cup cooling /\ idle' \cap cooling' = {}
      BY <2>9, <2>inv DEF CoolDown, Sole
    <3>2. UNCHANGED <<active, expired>>
      BY <2>9 DEF CoolDown
    <3> QED
      BY <2>inv, <3>1, <3>2 DEF BusyInv, Sole
  <2>10. CASE Read \/ Pipe \/ StoreDone \/ StoreFail \/ Finish \/ Destroy \/ Close
    BY <2>10, <2>0 DEF Read, Pipe, StoreDone, StoreFail, Finish, Destroy, Close
  <2>11. ASSUME NEW p \in Peers, Connect(p) \/ Disconnect(p) PROVE BusyInv'
    BY <2>11, <2>0 DEF Connect, Disconnect
  <2>12. CASE UNCHANGED vars
    BY <2>12, <2>0 DEF vars
  <2> QED
    BY <2>1, <2>2, <2>3, <2>5, <2>6, <2>7, <2>8, <2>9, <2>10, <2>11, <2>12
       DEF Next, Loop, Settle, Flow, Net
<1> QED
  BY <1>1, <1>2, PTL DEF Spec

\* Peers without a request are free, unless an expired job left them busy: a
\* relation between the active jobs, the idle peers, the cooling ones and those
\* left busy.
Freed(jobs, free, cool, busy) ==
    \A p \in Peers \ busy : p \in free \cup cool \/ \E job \in jobs : job.peer = p

FreedInv == Freed(active, idle, cooling, lost)

\* next() makes a peer busy by the request that it gives to it.
LEMMA NextJobFreed ==
    ASSUME NEW queue, NEW jobs, NEW free, NEW cool, NEW busy,
           NextJob(queue, jobs, free), Freed(jobs, free, cool, busy)
    PROVE  Freed(active', idle', cool, busy)
<1>1. CASE active' = jobs /\ idle' = free
  BY <1>1 DEF Freed
<1>2. ASSUME NEW i, NEW p, active' = jobs \cup {Request(i, p)}, idle' = free \ {p}
      PROVE  Freed(active', idle', cool, busy)
  <2>1. Request(i, p).peer = p
    BY DEF Request
  <2> QED
    BY <1>2, <2>1 DEF Freed
<1> QED
  BY <1>1, <1>2 DEF NextJob

\* A job that settles frees its peer, at once or after wait(), or it expired.
LEMMA SettleFreed ==
    ASSUME NEW job, FreedInv
    PROVE  /\ Freed(active \ {job}, Released(job), cooling, lost)
           /\ Freed(active \ {job}, idle, cooling \cup {job.peer}, lost)
           /\ Freed(active \ {job}, idle, cooling, lost \cup {job.peer})
BY DEF FreedInv, Freed, Released

\* FreedInv is inductive: only expire() ends the request of a peer without
\* freeing it, now or later.
LEMMA FreedInvariant == Spec => []FreedInv
<1>1. Init => FreedInv
  BY DEF Init, FreedInv, Freed
<1>2. FreedInv /\ [Next]_vars => FreedInv'
  <2> SUFFICES ASSUME FreedInv, [Next]_vars PROVE FreedInv'
    OBVIOUS
  <2> USE DEF stage, peersV, past
  <2>1. ASSUME UNCHANGED <<active, idle, cooling, lost>> PROVE FreedInv'
    BY <2>1 DEF FreedInv, Freed
  <2>2. ASSUME Freed(active', idle', cooling', lost') PROVE FreedInv'
    BY <2>2 DEF FreedInv
  <2>3. ASSUME NEW queue, Iterate(queue), UNCHANGED <<cooling, lost>> PROVE FreedInv'
    <3>1. PICK batch \in SUBSET Issuable(queue) : \E to \in [batch -> pool \cap idle] :
              /\ active' = active \cup {Request(i, to[i]) : i \in batch}
              /\ idle' = idle \ {to[i] : i \in batch}
      BY <2>3 DEF Iterate
    <3>2. PICK to \in [batch -> pool \cap idle] :
              /\ active' = active \cup {Request(i, to[i]) : i \in batch}
              /\ idle' = idle \ {to[i] : i \in batch}
      BY <3>1
    <3>3. \A i : Request(i, to[i]).peer = to[i]
      BY DEF Request
    <3> QED
      BY <2>2, <2>3, <3>2, <3>3 DEF FreedInv, Freed
  <2>4. CASE Fetch \/ LoopWake
    BY <2>3, <2>4 DEF Fetch, LoopWake
  <2>5. CASE LoopEnd
    BY <2>1, <2>5 DEF LoopEnd
  <2>6. ASSUME NEW job \in active,
               SuccessDone(job) \/ SuccessRefused(job) \/ SuccessNone(job) \/ Failure(job)
        PROVE  FreedInv'
    <3>1. PICK queue, free :
              /\ NextJob(queue, active \ {job}, free)
              /\ Freed(active \ {job}, free, cooling', lost)
              /\ UNCHANGED lost
      <4>1. CASE SuccessDone(job)
        BY <2>6, <4>1, SettleFreed DEF SuccessDone
      <4>2. CASE SuccessRefused(job)
        BY <2>6, <4>2, SettleFreed DEF SuccessRefused
      <4>3. CASE SuccessNone(job)
        BY <2>6, <4>3, SettleFreed DEF SuccessNone
      <4>4. CASE Failure(job)
        BY <2>6, <4>4, SettleFreed DEF Failure
      <4> QED
        BY <2>6, <4>1, <4>2, <4>3, <4>4
    <3> QED
      BY <2>2, <3>1, NextJobFreed
  <2>7. ASSUME NEW job \in active, Expire(job) PROVE FreedInv'
    <3>1. /\ active' = active \ {job} /\ lost' = lost \cup {job.peer}
          /\ UNCHANGED <<idle, cooling>>
      BY <2>7 DEF Expire
    <3> QED
      BY <2>2, <3>1, SettleFreed
  <2>8. ASSUME NEW job \in expired, LateReply(job) PROVE FreedInv'
    BY <2>1, <2>8 DEF LateReply
  <2>9. ASSUME NEW p \in Peers, CoolDown(p) PROVE FreedInv'
    BY <2>9 DEF CoolDown, FreedInv, Freed
  <2>10. CASE Flow
    BY <2>1, <2>10 DEF Flow, Read, Pipe, StoreDone, StoreFail, Finish, Destroy, Close
  <2>11. ASSUME NEW p \in Peers, Connect(p) \/ Disconnect(p) PROVE FreedInv'
    BY <2>1, <2>11 DEF Connect, Disconnect
  <2>12. CASE UNCHANGED vars
    BY <2>1, <2>12 DEF vars
  <2> QED
    BY <2>4, <2>5, <2>6, <2>7, <2>8, <2>9, <2>10, <2>11, <2>12 DEF Next, Loop, Settle, Net
<1> QED
  BY <1>1, <1>2, PTL DEF Spec

\* Whatever expires, is answered late, refused or retried, and however often its
\* server announces it and the pool drops it, a Peer object never carries two
\* requests of the fetcher, nothing frees one that is still busy with one, and
\* only an expired job leaves one busy without.
THEOREM OneRequestEach == Spec => []OneRequestPerPeer
<1>1. TypeOK /\ BusyInv /\ FreedInv => OneRequestPerPeer
  BY DEF TypeOK, BusyInv, Sole, FreedInv, Freed, OneRequestPerPeer
<1> QED
  BY <1>1, TypeCorrect, BusyInvariant, FreedInvariant, PTL

-----------------------------------------------------------------------------
(* The fetcher implements OrderedDownload: Phase, stored and writing change *)
(* as the actions of Download say, and every other handler is a stutter.    *)

\* The Writable is open exactly until running is cleared, and nothing is in
\* the stream before fetch() is called.
PhaseInv ==
    /\ writer = "open" <=> running \/ control = "new"
    /\ control = "new" => /\ stream = "open" /\ ~eof /\ ~running
                          /\ readBuf = <<>> /\ writing = <<>>

\* PhaseInv is inductive, given that no task is out before fetch() is called.
LEMMA PhaseInvariant == Spec => []PhaseInv
<1>1. Init => PhaseInv
  BY DEF Init, PhaseInv
<1>2. PhaseInv /\ ConservationInv /\ [Next]_vars => PhaseInv'
  <2> SUFFICES ASSUME PhaseInv, ConservationInv, [Next]_vars PROVE PhaseInv'
    OBVIOUS
  <2> USE DEF stage, sinkV, peersV, past, past
  <2>new. control = "new" => active = {} /\ out = {}
    BY DEF ConservationInv
  <2>0. ASSUME UNCHANGED <<control, running, writer>>,
               UNCHANGED <<stream, eof, readBuf, writing>> \/ control # "new"
        PROVE  PhaseInv'
    BY <2>0 DEF PhaseInv
  <2>1. CASE Fetch
    BY <2>1 DEF Fetch, PhaseInv
  <2>2. CASE LoopWake
    BY <2>2, <2>0 DEF LoopWake
  <2>3. CASE LoopEnd
    BY <2>3 DEF LoopEnd, PhaseInv
  <2>4. ASSUME NEW job \in active, SuccessDone(job) PROVE PhaseInv'
    BY <2>4, <2>0, <2>new DEF SuccessDone
  <2>5. ASSUME NEW job \in active,
               SuccessRefused(job) \/ SuccessNone(job) \/ Failure(job) \/ Expire(job)
        PROVE  PhaseInv'
    BY <2>5, <2>0 DEF SuccessRefused, SuccessNone, Failure, Expire
  <2>6. ASSUME NEW job \in expired, LateReply(job) PROVE PhaseInv'
    BY <2>6, <2>0 DEF LateReply
  <2>7. ASSUME NEW p \in Peers, CoolDown(p) \/ Connect(p) \/ Disconnect(p)
        PROVE  PhaseInv'
    BY <2>7, <2>0 DEF CoolDown, Connect, Disconnect
  <2>8. CASE Read
    BY <2>8, <2>0, <2>new DEF Read
  <2>9. CASE Pipe
    BY <2>9 DEF Pipe, PhaseInv
  <2>10. CASE StoreDone \/ StoreFail \/ Finish
    BY <2>10 DEF StoreDone, StoreFail, Finish, PhaseInv
  <2>11. CASE Destroy \/ Close
    BY <2>11 DEF Destroy, Close, PhaseInv
  <2>12. CASE UNCHANGED vars
    BY <2>12, <2>0 DEF vars
  <2> QED
    BY <2>1, <2>2, <2>3, <2>4, <2>5, <2>6, <2>7, <2>8, <2>9, <2>10, <2>11, <2>12
       DEF Next, Loop, Settle, Flow, Net
<1> QED
  BY <1>1, <1>2, ConservationInvariant, PTL DEF Spec

DownloadInv == PipelineInv /\ PhaseInv

\* What is being stored are the next tasks, and there are that many.
LEMMA WritingIsNext ==
    ASSUME PipelineInv
    PROVE  /\ Len(stored) \in Nat /\ Len(writing) \in Nat
           /\ writing = Chunks(Len(stored), Len(writing))
           /\ writing # <<>> => Len(writing) > 0 /\ Len(stored) + Len(writing) <= Total
<1>1. writing \in Seq(Tasks) /\ stored \in Seq(Tasks)
  BY DEF PipelineInv, TypeOK
<1>2. Len(stored) \in Nat /\ Len(writing) \in Nat
  BY <1>1
<1>3. \A k \in 1 .. Len(writing) : writing[k] = Len(stored) + k - 1
  BY DEF PipelineInv, Segment
<1>4. writing = [k \in 1 .. Len(writing) |-> writing[k]]
  BY <1>1
<1>5. ASSUME writing # <<>>
      PROVE  Len(writing) > 0 /\ Len(stored) + Len(writing) <= Total
  <2>1. Len(writing) > 0
    BY <1>1, <1>5
  <2>2. Len(writing) \in 1 .. Len(writing) /\ writing[Len(writing)] \in Tasks
    BY <1>1, <1>2, <2>1
  <2>3. Len(stored) + Len(writing) - 1 \in Tasks
    BY <1>3, <2>2
  <2> QED
    BY <1>2, <2>1, <2>3, FetcherAssumption DEF Tasks
<1> QED
  BY <1>2, <1>3, <1>4, <1>5 DEF Chunks

\* A store in flight belongs to a download that was started and not completed.
LEMMA WritingPhase ==
    ASSUME DownloadInv, writing # <<>>
    PROVE  /\ control # "new" /\ writer # "finished" /\ Len(stored) < Total
           /\ Phase = IF writer = "open" THEN "running" ELSE "aborted"
<1>1. control # "new" /\ writer # "finished"
  BY DEF DownloadInv, PhaseInv, PipelineInv
<1>2. Len(stored) < Total
  BY WritingIsNext, FetcherAssumption DEF DownloadInv
<1> QED
  BY <1>1, <1>2 DEF DownloadInv, PhaseInv, Phase

\* A handler that leaves the fetcher's control and its writer alone is a
\* stutter of the download.
LEMMA DownloadStutter ==
    ASSUME UNCHANGED <<control, running, writer, stored, writing>>
    PROVE  UNCHANGED Download!vars
BY DEF Download!vars, Phase

\* The pipe starts a store when none is in flight.
LEMMA PipeImplements ==
    ASSUME DownloadInv, Pipe
    PROVE  Download!BeginStore \/ UNCHANGED Download!vars
<1>1. UNCHANGED <<control, running, writer, stored>>
  BY DEF Pipe, peersV
<1>2. CASE writing # <<>>
  BY <1>1, <1>2, DownloadStutter DEF Pipe
<1>3. CASE writing = <<>>
  <2>1. writing' = <<Head(readBuf)>> /\ writing' # <<>>
    BY <1>3 DEF Pipe
  <2>2. /\ writer = "open" /\ stream = "open" /\ readBuf # <<>>
        /\ wq = <<>> /\ Len(wq) = 0 /\ Len(writing) = 0
    BY <1>3 DEF Pipe, DownloadInv, PipelineInv
  <2>3. Phase = "running"
    BY <2>2 DEF DownloadInv, PhaseInv, Phase
  <2>4. /\ Segment(readBuf, Len(stored) + Len(writing) + Len(wq))
        /\ readBuf \in Seq(Tasks) /\ stored \in Seq(Tasks)
    BY <2>2 DEF DownloadInv, PipelineInv, TypeOK
  <2>5. Len(stored) \in Nat /\ Segment(readBuf, Len(stored))
    BY <2>2, <2>4
  <2>6. Head(readBuf) = Len(stored) /\ Head(readBuf) \in Tasks
    BY <2>2, <2>4, <2>5, SegmentHead
  <2>7. Len(stored) < Total
    BY <2>5, <2>6, FetcherAssumption DEF Tasks
  <2>8. Phase' = Phase
    BY <1>1 DEF Phase
  <2> QED
    BY <1>1, <1>3, <2>1, <2>3, <2>7, <2>8 DEF Download!BeginStore
<1> QED
  BY <1>2, <1>3

\* A store that completes hands on all its chunks, and what waited is stored
\* next if the writer is still open.
LEMMA StoreDoneImplements ==
    ASSUME DownloadInv, StoreDone, PipelineInv'
    PROVE  Download!EndStore
<1>1. /\ writing # <<>> /\ stored' = stored \o writing
      /\ UNCHANGED <<control, running, writer>>
  BY DEF StoreDone
<1>2. /\ Len(stored) \in Nat /\ Len(writing) \in 1 .. Total
      /\ writing = Chunks(Len(stored), Len(writing))
      /\ Len(stored) + Len(writing) <= Total
  BY <1>1, WritingIsNext, FetcherAssumption DEF DownloadInv
<1>3. Download!Extend(Len(writing))
  BY <1>1, <1>2 DEF Download!Extend, Chunks
<1>4. Phase = IF writer = "open" THEN "running" ELSE "aborted"
  BY <1>1, WritingPhase
<1>5. writing' # <<>> => writer = "open" /\ Len(stored') < Total
  <2>1. writing' # <<>> => writer = "open"
    BY DEF StoreDone
  <2>2. ASSUME writing' # <<>> PROVE Len(stored') < Total
    <3>1. /\ writing' \in Seq(Tasks) /\ stored' \in Seq(Tasks)
          /\ \A k \in 1 .. Len(writing') : writing'[k] = Len(stored') + k - 1
      BY DEF PipelineInv, TypeOK, Segment
    <3>2. 1 \in 1 .. Len(writing') /\ writing'[1] \in Tasks
      BY <2>2, <3>1
    <3>3. Len(stored') \in Nat
      BY <3>1
    <3> QED
      BY <3>1, <3>2, <3>3, FetcherAssumption DEF Tasks
  <2> QED
    BY <2>1, <2>2
<1>6. (writing' # <<>>) \in IF Phase = "running" /\ Len(stored') < Total
                            THEN BOOLEAN ELSE {FALSE}
  BY <1>4, <1>5
<1>7. Phase' = Phase
  BY <1>1 DEF Phase
<1> QED
  BY <1>1, <1>2, <1>3, <1>6, <1>7 DEF Download!EndStore

\* A store that fails may leave some of its chunks, and ends the download.
LEMMA StoreFailImplements ==
    ASSUME DownloadInv, StoreFail
    PROVE  Download!FailStore
<1>1. /\ writing # <<>> /\ writing' = <<>> /\ running' = FALSE /\ control' = control
      /\ writer' = IF writer = "open" THEN "failed" ELSE writer
  BY DEF StoreFail
<1>2. PICK n \in 0 .. Len(writing) : stored' = stored \o SubSeq(writing, 1, n)
  BY DEF StoreFail
<1>3. /\ Len(stored) \in Nat /\ Len(writing) \in 1 .. Total
      /\ writing = Chunks(Len(stored), Len(writing))
      /\ Len(stored) + Len(writing) <= Total
  BY <1>1, WritingIsNext, FetcherAssumption DEF DownloadInv
<1>4. n \in 0 .. Total /\ Len(stored) + n <= Total
  BY <1>3, FetcherAssumption
<1>5. SubSeq(writing, 1, n) = [k \in 1 .. n |-> Len(stored) + k - 1]
  <2>1. writing \in Seq(Tasks) /\ n \in 0 .. Len(writing)
    BY <1>3 DEF DownloadInv, PipelineInv, TypeOK
  <2>2. SubSeq(writing, 1, n) = [k \in 1 .. n |-> writing[k]]
    BY <2>1
  <2>3. \A k \in 1 .. n : writing[k] = Len(stored) + k - 1
    BY <2>1, <1>3 DEF DownloadInv, PipelineInv, Segment
  <2> QED
    BY <2>2, <2>3
<1>6. Download!Extend(n)
  BY <1>2, <1>4, <1>5 DEF Download!Extend
<1>7. Phase \in {"running", "aborted"} /\ Phase' = "aborted"
  BY <1>1, WritingPhase DEF Phase
<1> QED
  BY <1>1, <1>4, <1>6, <1>7 DEF Download!FailStore

\* Every step of the fetcher is a step of the download or a stutter.
LEMMA StepImplements ==
    ASSUME DownloadInv, PipelineInv', [Next]_vars
    PROVE  [Download!Next]_Download!vars
<1> USE DEF stage, sinkV, peersV, past, past
<1>1. CASE Fetch
  <2>1. writer = "open" /\ writing' = writing /\ stored' = stored /\ writer' = writer
    BY <1>1 DEF Fetch, DownloadInv, PhaseInv
  <2>2. Phase = "idle" /\ Phase' = "running"
    BY <1>1, <2>1 DEF Fetch, Phase
  <2> QED
    BY <2>1, <2>2 DEF Download!Next, Download!Start
<1>2. CASE LoopWake
  BY <1>2, DownloadStutter DEF LoopWake
<1>3. CASE LoopEnd
  BY <1>3 DEF LoopEnd, Phase, Download!vars
<1>4. ASSUME NEW job \in active,
             SuccessDone(job) \/ SuccessRefused(job) \/ SuccessNone(job)
             \/ Failure(job) \/ Expire(job)
      PROVE  UNCHANGED Download!vars
  BY <1>4, DownloadStutter DEF SuccessDone, SuccessRefused, SuccessNone, Failure, Expire
<1>5. ASSUME NEW job \in expired, LateReply(job) PROVE UNCHANGED Download!vars
  BY <1>5, DownloadStutter DEF LateReply
<1>6. ASSUME NEW p \in Peers, CoolDown(p) \/ Connect(p) \/ Disconnect(p)
      PROVE  UNCHANGED Download!vars
  BY <1>6, DownloadStutter DEF CoolDown, Connect, Disconnect
<1>7. CASE Read
  BY <1>7, DownloadStutter DEF Read
<1>8. CASE Pipe
  BY <1>8, PipeImplements DEF Download!Next
<1>9. CASE StoreDone
  BY <1>9, StoreDoneImplements DEF Download!Next
<1>10. CASE StoreFail
  BY <1>10, StoreFailImplements DEF Download!Next
<1>11. CASE Finish
  <2>1. /\ writer = "open" /\ eof /\ stream = "open" /\ writing = <<>>
        /\ Len(writing) = 0 /\ Len(wq) = 0 /\ Len(readBuf) = 0
    BY <1>11 DEF Finish
  <2>2. Len(stored) = Total
    <3>1. processed = Total /\ Len(stored) \in Nat
      BY <2>1 DEF DownloadInv, PipelineInv, TypeOK
    <3> QED
      BY <2>1, <3>1 DEF DownloadInv, PipelineInv
  <2>3. Phase = "running" /\ control # "new"
    BY <2>1 DEF DownloadInv, PhaseInv, Phase
  <2>4. Phase' = "complete" /\ UNCHANGED <<stored, writing>>
    BY <1>11, <2>3 DEF Finish, Phase
  <2> QED
    BY <2>1, <2>2, <2>3, <2>4 DEF Download!Next, Download!Complete
<1>12. CASE Destroy
  BY <1>12, DownloadStutter DEF Destroy
<1>13. CASE Close
  <2>1. /\ control # "new" /\ control' = control /\ running' = FALSE
        /\ UNCHANGED <<stored, writing>>
        /\ writer' = IF writer = "open" THEN "destroyed" ELSE writer
    BY <1>13 DEF Close, DownloadInv, PhaseInv
  <2>2. CASE writer = "open"
    <3>1. Phase = "running" /\ Phase' = "aborted"
      BY <2>1, <2>2 DEF DownloadInv, PhaseInv, Phase
    <3> QED
      BY <2>1, <3>1 DEF Download!Next, Download!Abort
  <2>3. CASE writer # "open"
    <3>1. running = FALSE
      BY <2>3 DEF DownloadInv, PhaseInv, PipelineInv, TypeOK
    <3>2. Phase' = Phase
      BY <2>1, <2>3, <3>1 DEF Phase
    <3> QED
      BY <2>1, <3>2 DEF Download!vars
  <2> QED
    BY <2>2, <2>3
<1>14. CASE UNCHANGED vars
  BY <1>14, DownloadStutter DEF vars
<1> QED
  BY <1>1, <1>2, <1>3, <1>4, <1>5, <1>6, <1>7, <1>8, <1>9, <1>10, <1>11, <1>12,
     <1>13, <1>14 DEF Next, Loop, Settle, Flow, Net

\* The fetcher, with its peers, timeouts, buffers and streams, is a download in
\* order that is stored completely or given up, whatever the network does.
THEOREM FetcherDownloads == Spec => ImplementsOrderedDownload
<1>1. Init => Download!Init
  BY DEF Init, Download!Init, Phase
<1>2. PipelineInv /\ PhaseInv /\ PipelineInv' /\ [Next]_vars => [Download!Next]_Download!vars
  BY StepImplements DEF DownloadInv
<1> QED
  BY <1>1, <1>2, PipelineInvariant, PhaseInvariant, PTL
     DEF Spec, ImplementsOrderedDownload, Download!Spec

-----------------------------------------------------------------------------
(* A running fetcher is never stuck.                                       *)

\* The first job that is missing is the one that next() gives to a peer: there is
\* room downstream, and a peer of the pool is idle or becomes so, unless expired
\* jobs left all of them busy.
Askable ==
    /\ processed \in in /\ \A i \in in : processed <= i
    /\ processed < Total /\ Len(readBuf) <= MaxQueue
    /\ pool \ lost # {} => pool \cap (idle \cup cooling) # {}

\* What a running fetcher can wait for: a peer, store(), the pipe, the Readable,
\* next(), or the end of the stream.
GoesOn ==
    \/ active # {}
    \/ writing # <<>>
    \/ readBuf # <<>> /\ Len(writing) + Len(wq) < WriterHWM
    \/ ~eof /\ processed \in out /\ Len(readBuf) < HWM
    \/ Askable
    \/ processed = Total /\ readBuf = <<>> /\ wq = <<>>

\* The windows of next(), the water marks of the streams and the peers never hold
\* each other up: unless the stream was destroyed, a fetcher that runs has an
\* answer to come, something in its streams to move on, or the next task to ask
\* the first free peer for, whatever was retried, late or banned before.  There
\* is such a peer, or will be after a wait(), as soon as the pool has one that no
\* expired job left busy; with only those, it is this that next() waits for.
THEOREM NeverStuck == Spec => [](running /\ stream = "open" => GoesOn)
<1>1. ASSUME ConservationInv, PipelineInv, PhaseInv, FreedInv, running, stream = "open"
      PROVE  GoesOn
  <2>1. SUFFICES ASSUME active = {}, writing = <<>> PROVE GoesOn
    BY DEF GoesOn
  <2>2. wq = <<>> /\ Len(writing) + Len(wq) = 0
    <3>1. wq = <<>>
      BY <1>1, <2>1 DEF PhaseInv, PipelineInv
    <3> QED
      BY <2>1, <3>1
  <2>3. CASE readBuf # <<>>
    BY <2>2, <2>3, FetcherAssumption DEF GoesOn
  <2>4. CASE readBuf = <<>> /\ processed = Total
    BY <2>2, <2>4 DEF GoesOn
  <2>5. CASE readBuf = <<>> /\ processed # Total
    <3>1. processed \in processed .. Total - 1 /\ processed < Total /\ Len(readBuf) = 0
      BY <1>1, <2>5, FetcherAssumption DEF ConservationInv, TypeOK
    <3>2. processed \in in \cup out
      BY <1>1, <2>1, <3>1 DEF ConservationInv, Covered, Index
    <3>3. ASSUME processed \in out PROVE GoesOn
      <4>1. ~eof
        BY <1>1, <2>5 DEF PipelineInv
      <4> QED
        BY <3>1, <3>3, <4>1, FetcherAssumption DEF GoesOn
    <3>4. ASSUME processed \in in PROVE GoesOn
      <4>1. \A i \in in : processed <= i
        BY <1>1 DEF ConservationInv, Parts, TypeOK
      <4>2. pool \ lost # {} => pool \cap (idle \cup cooling) # {}
        BY <1>1, <2>1 DEF ConservationInv, TypeOK, FreedInv, Freed
      <4> QED
        BY <3>1, <3>4, <4>1, <4>2, FetcherAssumption DEF GoesOn, Askable
    <3> QED
      BY <3>2, <3>3, <3>4
  <2> QED
    BY <2>3, <2>4, <2>5
<1> QED
  BY <1>1, ConservationInvariant, PipelineInvariant, PhaseInvariant, FreedInvariant, PTL
=============================================================================
