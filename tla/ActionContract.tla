---------------------------- MODULE ActionContract ----------------------------
(***************************************************************************)
(* What an approval means to the control plane, with no digest, claim,     *)
(* clock, network or restart in it: a request puts the resource into the   *)
(* approved state at most once and under the approved capability, an       *)
(* action has one verdict, which follows its approval, and the verdict     *)
(* says whether the resource was in the approved state when it was read.   *)
(* Others may change the resource at any time, so that a verdict may come  *)
(* before a run, or without one.                                           *)
(***************************************************************************)
CONSTANTS Actions, Tries, Capabilities, Payloads, None

Requests == Actions \X Tries

VARIABLES
    order,     \* what was approved for each action, or None
    under,     \* the capability each request ran under, or None
    resource,  \* the payload the provider's resource is in
    verdict    \* "verified", "failed" or None for each action

vars == <<order, under, resource, verdict>>

Orders == [capability : Capabilities, payload : Payloads]

Init ==
    /\ order = [a \in Actions |-> None]
    /\ under = [r \in Requests |-> None]
    /\ resource \in Payloads
    /\ verdict = [a \in Actions |-> None]

Approve(a) ==
    /\ order[a] = None
    /\ \E o \in Orders : order' = [order EXCEPT ![a] = o]
    /\ UNCHANGED <<under, resource, verdict>>

Run(r) ==
    /\ order[r[1]] # None
    /\ under[r] = None
    /\ under' = [under EXCEPT ![r] = order[r[1]].capability]
    /\ resource' = order[r[1]].payload
    /\ UNCHANGED <<order, verdict>>

Judge(a) ==
    /\ verdict[a] = None
    /\ order[a] # None
    /\ verdict' = [verdict EXCEPT
            ![a] = IF resource = order[a].payload THEN "verified" ELSE "failed"]
    /\ UNCHANGED <<order, under, resource>>

Drift ==
    /\ resource' \in Payloads
    /\ UNCHANGED <<order, under, verdict>>

Next ==
    \/ \E a \in Actions : Approve(a) \/ Judge(a)
    \/ \E r \in Requests : Run(r)
    \/ Drift

Spec == Init /\ [][Next]_vars
=============================================================================
