------------------------------- MODULE Fetcher -------------------------------
(***************************************************************************)
(* The job queue of lib/sync/fetcher/fetcher.ts, which BlockFetcher and    *)
(* HeaderFetcher extend: tasks 0 .. Total-1 are requested from the idle    *)
(* peers of the pool in parallel and out of order, and are handed in task  *)
(* order, through a Readable (the fetcher) piped to a Writable, to         *)
(* store().                                                                *)
(*                                                                         *)
(* JavaScript runs one handler at a time: an action is one handler with    *)
(* everything it calls synchronously, up to its return or to the await of  *)
(* the loop of fetch().                                                    *)
(***************************************************************************)
EXTENDS Naturals, Sequences, FiniteSets

CONSTANTS
    Peers,       \* the Peer objects that the servers make
    Id,          \* the node id of each: several objects may have one id
    Libp2p,      \* the objects a server announces again for every stream
    Total,       \* number of tasks that tasks() returns
    MaxQueue,    \* options.maxQueue
    HWM,         \* highWaterMark of the Readable, in chunks
    WriterHWM    \* highWaterMark of the Writable, in chunks

ASSUME FetcherAssumption ==
    /\ Total \in Nat /\ MaxQueue \in Nat
    /\ HWM \in Nat \ {0} /\ WriterHWM \in Nat \ {0}
    /\ Libp2p \in SUBSET Peers

VARIABLES
    control,    \* fetch(): "new", "waiting" in its loop, "returned"
    running,    \* this.running
    stream,     \* the Readable: "open", "destroyed", 'close' event seen: "closed"
    in,         \* indexes of the jobs of the heap this.in (state 'idle')
    active,     \* jobs of state 'active': request() has not settled
    expired,    \* jobs of state 'expired' whose request() has not settled
    out,        \* indexes of the jobs of the heap this.out
    processed,  \* this.processed
    readBuf,    \* chunks pushed and not read, by task index
    eof,        \* push(null) was called
    wq,         \* chunks buffered by the Writable
    writing,    \* chunks of the store() call in flight
    writer,     \* the Writable: "open", "finished", "failed", "destroyed"
    stored,     \* task indexes in the order in which store() completed them
    pool,       \* the peers in the PeerPool, at most one of an id
    idle,       \* peers with idle = true
    cooling,    \* peers that get idle = true after wait()
    met,        \* peers that a server has announced
    lost        \* history: peers that expire(), here or in an earlier fetcher
                \* of the pool, left with idle = false

stage  == <<in, active, out, processed, readBuf>>
sinkV  == <<wq, writing, writer, stored>>
past   == <<met, lost>>
peersV == <<pool, cooling, past>>
vars   == <<control, running, stream, in, active, expired, out, processed,
            readBuf, eof, wq, writing, writer, stored, pool, idle, cooling,
            met, lost>>

Tasks == 0 .. Total - 1
Job   == [index : Tasks, peer : Peers]

\* The peers of the ids of some peers, and sets that have at most one of an id.
SameId(some) == {p \in Peers : \E q \in some : Id[p] = Id[q]}
OnePerId == {some \in SUBSET Peers : \A p, q \in some : Id[p] = Id[q] => p = q}

Init ==
    /\ control = "new" /\ running = FALSE /\ stream = "open"
    /\ in = {} /\ active = {} /\ expired = {} /\ out = {}
    /\ processed = 0 /\ readBuf = <<>> /\ eof = FALSE
    /\ wq = <<>> /\ writing = <<>> /\ writer = "open" /\ stored = <<>>
    /\ pool \in OnePerId /\ met = pool
    /\ lost \in SUBSET Libp2p /\ idle = Peers \ lost /\ cooling = {}

-----------------------------------------------------------------------------
(* What the handlers are built from.                                       *)

\* enqueue(): a copy of the job goes back to this.in, but only while running.
Enqueue(queue, i) == IF running THEN queue \cup {i} ELSE queue

\* Mutant of Released: peers compared by id instead of object.
ReleasedById(job) == idle \cup SameId({job.peer})

\* job.peer.idle = true: the flag of the object the job was given to, whichever
\* object of its id the pool has by now.
Released(job) == idle \cup {job.peer}

\* pool.ban(job.peer): the pool removes by id, whichever object has it.
Banned(job) == pool \ SameId({job.peer})

\* The chunks i .. i+n-1.
Chunks(i, n) == [k \in 1 .. n |-> i + k - 1]

\* n pushes of dequeue(): the first n jobs of done follow processed, and it
\* stops there because the next one is missing or because push() returned
\* false (buffer full, or stream destroyed).
DequeueCount(done, n) ==
    /\ \A k \in 0 .. n - 1 : processed + k \in done
    /\ n > 1 => stream = "open" /\ Len(readBuf) + n - 1 < HWM
    /\ \/ processed + n \notin done
       \/ n > 0 /\ (stream # "open" \/ Len(readBuf) + n >= HWM)

\* Mutant of Dequeue: the head of the heap is pushed whatever its index is.
DequeueUnordered(done) ==
    \E i \in done :
        /\ \A j \in done : i <= j
        /\ out' = done \ {i}
        /\ processed' = processed + 1
        /\ readBuf' = Append(readBuf, i)

\* dequeue() with the heap this.out equal to done.  A chunk pushed to a
\* destroyed stream is dropped.
Dequeue(done) ==
    \E n \in 0 .. Total :
        /\ DequeueCount(done, n)
        /\ out' = done \ (processed .. processed + n - 1)
        /\ processed' = processed + n
        /\ readBuf' = IF stream = "open"
                      THEN readBuf \o Chunks(processed, n) ELSE readBuf

\* Mutant of Issuable: only the read buffer is looked at.
IssuableAhead(queue) ==
    IF Len(readBuf') > MaxQueue \/ processed' = Total THEN {} ELSE queue

\* The jobs that next() may take from the heap this.in, equal to queue, while
\* there is room downstream of it.  processed and the read buffer are those
\* that the handler has left.
Issuable(queue) ==
    IF Len(readBuf') > MaxQueue \/ processed' = Total
    THEN {} ELSE {i \in queue : i <= processed' + MaxQueue}

Request(i, p) == [index |-> i, peer |-> p]

\* next(): the first job of the queue goes to an idle peer of the pool, if
\* there are both.  jobs are the active jobs, free the peers with idle set.
NextJob(queue, jobs, free) ==
    \/ \E i \in Issuable(queue), p \in pool' \cap free :
           /\ \A j \in queue : i <= j
           /\ in' = queue \ {i}
           /\ active' = jobs \cup {Request(i, p)}
           /\ idle' = free \ {p}
    \/ /\ Issuable(queue) = {} \/ pool' \cap free = {}
       /\ in' = queue /\ active' = jobs /\ idle' = free

-----------------------------------------------------------------------------
(* fetch() *)

\* The iterations of the loop of fetch(): next() until it finds no job or no
\* peer, that is the first jobs of the queue go to as many peers; then, when
\* all is processed, the end of the stream.
Iterate(queue) ==
    /\ UNCHANGED <<processed, readBuf, pool>>
    /\ \E batch \in SUBSET Issuable(queue) : \E to \in [batch -> pool \cap idle] :
           /\ \A i \in batch, j \in queue \ batch : i < j
           /\ \A i, j \in batch : to[i] = to[j] => i = j
           /\ batch = Issuable(queue) \/ \A p \in pool \cap idle : \E i \in batch : to[i] = p
           /\ in' = queue \ batch
           /\ active' = active \cup {Request(i, to[i]) : i \in batch}
           /\ idle' = idle \ {to[i] : i \in batch}
    /\ eof' = (eof \/ (processed = Total /\ stream = "open"))

\* fetch() is called: write() builds the pipe, tasks() fills this.in, and the
\* loop runs to its first wait().
Fetch ==
    /\ control = "new"
    /\ control' = "waiting" /\ running' = TRUE
    /\ Iterate(Tasks)
    /\ UNCHANGED <<stream, expired, out, sinkV, cooling, past>>

\* wait() is over and the loop goes on.
LoopWake ==
    /\ control = "waiting" /\ running
    /\ Iterate(in)
    /\ UNCHANGED <<control, running, stream, expired, out, sinkV, cooling, past>>

\* wait() is over and the loop ends: fetch() destroys the stream and resolves.
LoopEnd ==
    /\ control = "waiting" /\ ~running
    /\ control' = "returned"
    /\ stream' = IF stream = "open" THEN "destroyed" ELSE stream
    /\ UNCHANGED <<running, stage, expired, eof, sinkV, peersV, idle>>

-----------------------------------------------------------------------------
(* Settled requests: success() and failure() *)

\* request() resolved with a result that process() accepts.
SuccessDone(job) ==
    /\ job \in active
    /\ UNCHANGED pool
    /\ Dequeue(out \cup {job.index})
    /\ NextJob(in, active \ {job}, Released(job))
    /\ UNCHANGED <<control, running, stream, expired, eof, sinkV, cooling, past>>

\* request() resolved with a result that process() refuses: asked for again.
SuccessRefused(job) ==
    /\ job \in active
    /\ UNCHANGED <<pool, processed, readBuf>>
    /\ NextJob(Enqueue(in, job.index), active \ {job}, Released(job))
    /\ UNCHANGED <<control, running, stream, expired, out, eof, sinkV, cooling, past>>

\* request() resolved with undefined: the peer stays busy until wait() is over.
SuccessNone(job) ==
    /\ job \in active
    /\ cooling' = cooling \cup {job.peer}
    /\ UNCHANGED <<pool, processed, readBuf>>
    /\ NextJob(Enqueue(in, job.index), active \ {job}, idle)
    /\ UNCHANGED <<control, running, stream, expired, out, eof, sinkV, past>>

\* request() rejected: failure().
Failure(job) ==
    /\ job \in active
    /\ pool' = Banned(job)
    /\ UNCHANGED <<processed, readBuf>>
    /\ NextJob(Enqueue(in, job.index), active \ {job}, Released(job))
    /\ UNCHANGED <<control, running, stream, expired, out, eof, sinkV, cooling, past>>

\* Mutant of LateReply: success() without its test of job.state.
LateReplyAccepted(job) ==
    /\ job \in expired
    /\ expired' = expired \ {job}
    /\ UNCHANGED pool
    /\ Dequeue(out \cup {job.index})
    /\ NextJob(in, active, Released(job))
    /\ UNCHANGED <<control, running, stream, eof, sinkV, cooling, past>>

\* The request of an expired job settles: both handlers return at once.
LateReply(job) ==
    /\ job \in expired
    /\ expired' = expired \ {job}
    /\ UNCHANGED <<control, running, stream, stage, eof, sinkV, peersV, idle>>

\* Mutant of Expire: the job is not put back in the queue.
ExpireDropped(job) ==
    /\ job \in active
    /\ active' = active \ {job} /\ expired' = expired \cup {job}
    /\ pool' = Banned(job) /\ lost' = lost \cup {job.peer}
    /\ UNCHANGED <<control, running, stream, in, out, processed, readBuf, eof,
                   sinkV, idle, cooling, met>>

\* The timer of next() fires: expire().  It does not call next(), and nothing
\* sets idle again on the peer, which keeps its object if it is of libp2p.
Expire(job) ==
    /\ job \in active
    /\ active' = active \ {job} /\ expired' = expired \cup {job}
    /\ pool' = Banned(job) /\ lost' = lost \cup {job.peer}
    /\ in' = Enqueue(in, job.index)
    /\ UNCHANGED <<control, running, stream, out, processed, readBuf, eof,
                   sinkV, idle, cooling, met>>

\* The wait() of success() is over.
CoolDown(p) ==
    /\ p \in cooling
    /\ cooling' = cooling \ {p} /\ idle' = idle \cup {p}
    /\ UNCHANGED <<control, running, stream, stage, expired, eof, sinkV,
                   pool, past>>

-----------------------------------------------------------------------------
(* The stream, the pipe and store().  The parts of Node are modelled from  *)
(* how write() uses them: while writing, the Writable buffers, and then    *)
(* writes all it has buffered with one writev.                             *)

\* The Readable has room and calls _read().
Read ==
    /\ stream = "open" /\ ~eof /\ Len(readBuf) < HWM
    /\ processed \in out
    /\ Dequeue(out)
    /\ UNCHANGED <<control, running, stream, in, active, expired, eof, sinkV,
                   peersV, idle>>

\* The pipe hands one chunk to the writer.
Pipe ==
    /\ stream = "open" /\ writer = "open"
    /\ readBuf # <<>> /\ Len(writing) + Len(wq) < WriterHWM
    /\ readBuf' = Tail(readBuf)
    /\ IF writing = <<>>
       THEN writing' = <<Head(readBuf)>> /\ UNCHANGED wq
       ELSE wq' = Append(wq, Head(readBuf)) /\ UNCHANGED writing
    /\ UNCHANGED <<control, running, stream, in, active, expired, out,
                   processed, eof, writer, stored, peersV, idle>>

\* store() completed: 'fetched', and the callback of the Writable writes what
\* was buffered meanwhile.  A destroyed writer starts no further store().
StoreDone ==
    /\ writing # <<>>
    /\ stored' = stored \o writing
    /\ IF writer = "open"
       THEN writing' = wq /\ wq' = <<>>
       ELSE writing' = <<>> /\ UNCHANGED wq
    /\ UNCHANGED <<control, running, stream, stage, expired, eof, writer,
                   peersV, idle>>

\* store() rejected, with the first n of its chunks stored, or all of them when
\* it was the update() after them that failed: the 'error' handler of the
\* writer stops the fetcher.
StoreFail ==
    /\ writing # <<>>
    /\ \E n \in 0 .. Len(writing) : stored' = stored \o SubSeq(writing, 1, n)
    /\ writing' = <<>>
    /\ writer' = IF writer = "open" THEN "failed" ELSE writer
    /\ running' = FALSE
    /\ UNCHANGED <<control, stream, stage, expired, eof, wq, peersV, idle>>

\* 'end' of the Readable ends the Writable, which has nothing left: 'finish'.
Finish ==
    /\ stream = "open" /\ writer = "open" /\ eof
    /\ readBuf = <<>> /\ wq = <<>> /\ writing = <<>>
    /\ writer' = "finished" /\ running' = FALSE
    /\ UNCHANGED <<control, stream, stage, expired, eof, wq, writing, stored,
                   peersV, idle>>

\* FullSynchronizer.stop() or LightSynchronizer.stop() destroys the fetcher.
Destroy ==
    /\ control # "new" /\ stream = "open"
    /\ stream' = "destroyed"
    /\ UNCHANGED <<control, running, stage, expired, eof, sinkV, peersV, idle>>

\* Mutant of Close: the writer is not destroyed.
CloseWriterKept ==
    /\ stream = "destroyed"
    /\ stream' = "closed" /\ running' = FALSE
    /\ UNCHANGED <<control, stage, expired, eof, sinkV, peersV, idle>>

\* 'close' follows destroy() on a later tick.
Close ==
    /\ stream = "destroyed"
    /\ stream' = "closed" /\ running' = FALSE
    /\ writer' = IF writer = "open" THEN "destroyed" ELSE writer
    /\ UNCHANGED <<control, stage, expired, eof, wq, writing, stored, peersV, idle>>

-----------------------------------------------------------------------------
(* The pool, changed by the servers: PeerPool.connected and disconnected.  *)

\* A server announces a peer, and the pool adds it if it has no peer of its id.
\* RLPx announces an object once, libp2p the same one for every stream that
\* the node opens.  Its idle flag is what it was.
Connect(p) ==
    /\ p \notin SameId(pool) /\ (p \in met => p \in Libp2p)
    /\ pool' = pool \cup {p} /\ met' = met \cup {p}
    /\ UNCHANGED <<control, running, stream, stage, expired, eof, sinkV, idle,
                   cooling, lost>>

\* The pool removes by id here too.
Disconnect(p) ==
    /\ p \in pool
    /\ pool' = pool \ {p}
    /\ UNCHANGED <<control, running, stream, stage, expired, eof, sinkV, idle,
                   cooling, past>>

-----------------------------------------------------------------------------
Loop   == Fetch \/ LoopWake \/ LoopEnd
Settle == \/ \E job \in active : \/ SuccessDone(job) \/ SuccessRefused(job)
                                 \/ SuccessNone(job) \/ Failure(job)
                                 \/ Expire(job)
          \/ \E job \in expired : LateReply(job)
          \/ \E p \in Peers : CoolDown(p)
Flow   == Read \/ Pipe \/ StoreDone \/ StoreFail \/ Finish \/ Destroy \/ Close
Net    == \E p \in Peers : Connect(p) \/ Disconnect(p)

Next == Loop \/ Settle \/ Flow \/ Net

Spec == Init /\ [][Next]_vars

\* Timers fire, promises and streams make progress.  The strong fairness is an
\* assumption on the network: a task that is asked for again and again is
\* answered acceptably once.
Fairness ==
    /\ WF_vars(Loop) /\ WF_vars(Read) /\ WF_vars(Pipe)
    /\ WF_vars(StoreDone \/ StoreFail) /\ WF_vars(Finish) /\ WF_vars(Close)
    /\ \A p \in Peers : WF_vars(CoolDown(p))
    /\ \A i \in Tasks :
         /\ WF_vars(\E job \in active : job.index = i /\ Expire(job))
         /\ SF_vars(\E job \in active : job.index = i /\ SuccessDone(job))

FairSpec == Spec /\ Fairness

-----------------------------------------------------------------------------
(* Properties *)

ActiveTasks == {job.index : job \in active}

TypeOK ==
    /\ control \in {"new", "waiting", "returned"}
    /\ running \in BOOLEAN /\ eof \in BOOLEAN
    /\ stream \in {"open", "destroyed", "closed"}
    /\ writer \in {"open", "finished", "failed", "destroyed"}
    /\ in \in SUBSET Tasks /\ out \in SUBSET Tasks
    /\ active \in SUBSET Job /\ expired \in SUBSET Job
    /\ processed \in 0 .. Total
    /\ readBuf \in Seq(Tasks) /\ wq \in Seq(Tasks)
    /\ writing \in Seq(Tasks) /\ stored \in Seq(Tasks)
    /\ pool \in SUBSET Peers /\ idle \in SUBSET Peers /\ cooling \in SUBSET Peers
    /\ met \in SUBSET Peers /\ lost \in SUBSET Peers

\* Timeouts, rejections, refused answers, bans and answers that come too late
\* neither lose a task nor give it to two jobs: while the fetcher runs, every
\* task not yet processed is in exactly one of this.in, the active jobs and
\* this.out, and no job is left for a task already processed.
TaskConservation ==
    /\ in \cap out = {} /\ in \cap ActiveTasks = {} /\ out \cap ActiveTasks = {}
    /\ \A j, k \in active : j.index = k.index => j = k
    /\ \A i \in in \cup out \cup ActiveTasks : i >= processed
    /\ running => processed .. Total - 1 \subseteq in \cup out \cup ActiveTasks

\* A Peer object carries at most one request of the fetcher, even after the
\* job expired, and while it does it is neither idle nor about to become idle,
\* whatever other objects of its id come, go and settle.  A peer of the pool
\* without a request is idle or becomes idle, but for one that an expired job
\* left busy before its server announced it again: none is lost by failures,
\* empty answers, disconnections or bans.
OneRequestPerPeer ==
    /\ \A j, k \in active \cup expired : j.peer = k.peer => j = k
    /\ \A job \in active : job.peer \notin idle \cup cooling
    /\ \A p \in pool \ lost : p \in idle \cup cooling \/ \E job \in active : job.peer = p

\* store() receives the results in task order, each once, however the peers
\* interleave, whatever is retried, and wherever the fetcher is stopped.
StoredInOrder == stored = Chunks(0, Len(stored))

\* What peers were asked for and what the pipe has not taken is bounded, however
\* slowly store() works and whichever task is late: no task is ahead of
\* processed by more than maxQueue, or by more than twice that of the first
\* chunk that waits to be read.
BacklogBounded ==
    /\ \A i \in out \cup ActiveTasks : i <= processed + MaxQueue
    /\ stream = "open" =>
          /\ \A i \in out \cup ActiveTasks : i <= processed - Len(readBuf) + 2 * MaxQueue
          /\ Len(readBuf) <= 2 * MaxQueue + 1

\* 'finish' means that everything was stored and that no request is left.
FinishedComplete ==
    writer = "finished" =>
        /\ Len(stored) = Total
        /\ in = {} /\ active = {} /\ out = {}

\* The fetcher seen from the synchronizer.
Phase == IF control = "new" THEN "idle"
         ELSE IF writer = "finished" THEN "complete"
         ELSE IF running THEN "running" ELSE "aborted"

Download == INSTANCE OrderedDownload WITH
    Tasks <- Total, phase <- Phase, log <- stored, inFlight <- (writing # <<>>)

\* The fetcher implements an ordered download: after stop() or a failed store
\* at most the store in flight still takes effect, and a download that ended
\* never resumes.
ImplementsOrderedDownload == Download!Spec

\* If the pool keeps some peer that no expired job left busy, fetch() resolves:
\* no task waits for ever on a peer, a timer or a buffer, and the busy peers in
\* the pool do not hold it up.  (With only busy ones it waits for ever.)
FetchResolves == <>[](pool \ lost # {}) => <>(control = "returned")
=============================================================================
