------------------------------ MODULE MCProtocol ------------------------------
(***************************************************************************)
(* A small instance, for TLC, of what two connected nodes keep of each     *)
(* other's messages: the calls of BoundProtocol and the buffers of         *)
(* FlowControl.  They share no state, so a behavior is one of the one or   *)
(* one of the other: the buffers change beside calls that are not made.    *)
(***************************************************************************)
EXTENDS BoundProtocol, FlowControl

CONSTANTS c1, c2, c3, headers, bodies

MCCodes == {headers, bodies}
MCCalls == {c1, c2, c3}

\* No call is made, and the remote node has sent nothing; no time has passed, and
\* the client has not asked.
NoCalls ==
    /\ \A c \in Calls : state[c] = "new" /\ code[c] = headers
    /\ up /\ unsolicited = 0
NoBuffers == now = 0 /\ in.kind = "absent" /\ connected /\ served = 0

InitBoth    == Init /\ InitFlow
NextCalls   == NoBuffers /\ Next /\ UNCHANGED flowVars
NextBuffers == NoCalls /\ NextFlow /\ UNCHANGED vars

\* The fairness is the one of FairSpec.
SpecBoth ==
    /\ InitBoth /\ [][NextCalls \/ NextBuffers]_<<vars, flowVars>>
    /\ WF_vars(Handle) /\ \A c \in Calls : WF_vars(Timeout(c))
=============================================================================
