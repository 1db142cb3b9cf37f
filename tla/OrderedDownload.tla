--------------------------- MODULE OrderedDownload ---------------------------
(***************************************************************************)
(* What a fetcher promises to the synchronizer that runs it, without       *)
(* peers, queues or streams: the tasks are stored in order, some at a      *)
(* time, until all are stored or the download is given up.  A store in     *)
(* flight when it is given up may still complete; nothing else happens     *)
(* afterwards.                                                             *)
(***************************************************************************)
EXTENDS Naturals, Sequences

CONSTANT Tasks        \* a natural number: the tasks are 0 .. Tasks - 1

VARIABLES
    phase,     \* "idle", "running", "complete" or "aborted"
    log,       \* the tasks stored, in the order in which they were
    inFlight   \* a store has been started and has not ended

vars == <<phase, log, inFlight>>

Init == phase = "idle" /\ log = <<>> /\ inFlight = FALSE

Start ==
    /\ phase = "idle" /\ phase' = "running"
    /\ UNCHANGED <<log, inFlight>>

BeginStore ==
    /\ phase = "running" /\ ~inFlight /\ Len(log) < Tasks
    /\ inFlight' = TRUE
    /\ UNCHANGED <<phase, log>>

\* The log grows by at most the next n tasks.
Extend(n) ==
    /\ Len(log) + n <= Tasks
    /\ log' = log \o [k \in 1 .. n |-> Len(log) + k - 1]

\* A store ends, and in a running download another may begin at once.
EndStore ==
    /\ inFlight
    /\ \E n \in 1 .. Tasks : Extend(n)
    /\ inFlight' \in IF phase = "running" /\ Len(log') < Tasks THEN BOOLEAN ELSE {FALSE}
    /\ UNCHANGED phase

\* A store fails half-way, and with it the download.
FailStore ==
    /\ inFlight /\ phase \in {"running", "aborted"}
    /\ \E n \in 0 .. Tasks : Extend(n)
    /\ inFlight' = FALSE /\ phase' = "aborted"

Abort ==
    /\ phase = "running" /\ phase' = "aborted"
    /\ UNCHANGED <<log, inFlight>>

Complete ==
    /\ phase = "running" /\ ~inFlight /\ Len(log) = Tasks
    /\ phase' = "complete"
    /\ UNCHANGED <<log, inFlight>>

Next == Start \/ BeginStore \/ EndStore \/ FailStore \/ Abort \/ Complete

Spec == Init /\ [][Next]_vars
=============================================================================
