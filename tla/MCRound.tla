------------------------------- MODULE MCRound -------------------------------
(***************************************************************************)
(* A small instance, for TLC, of the two halves of a round that are plain  *)
(* computation: SyncRound, and the Messages that it is made of.  They      *)
(* share no state, so a behavior is one of the one or one of the other:    *)
(* messages are exchanged beside a single round, which does not begin.     *)
(***************************************************************************)
EXTENDS SyncRound, Messages

NoRound ==
    /\ td = [p \in Peers |-> 0] /\ syncable = {} /\ ownTd = 0 /\ ~forceSync
    /\ max = 1 /\ i = 1 /\ phase = "choosing"

InitBoth == Init /\ InitMessages
NextRound == stage = "idle" /\ Next /\ UNCHANGED messageVars
NextOther == NoRound /\ NextMessage /\ UNCHANGED vars

SpecBoth == InitBoth /\ [][NextRound \/ NextOther]_<<vars, messageVars>>
=============================================================================
