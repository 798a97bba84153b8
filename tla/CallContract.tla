----------------------------- MODULE CallContract -----------------------------
(***************************************************************************)
(* What the signed exchange promises the control plane about its calls,    *)
(* with no clock, nonce, lock or network in it: one adapter process runs   *)
(* the implementation at most once for a call, a call succeeds only after  *)
(* the implementation ran for it, and it gets one outcome.  A process that *)
(* restarts forgets what it has served.                                    *)
(***************************************************************************)
EXTENDS Integers

CONSTANTS Calls, Workers

VARIABLES
    serving,  \* workers of the running process that ran it, for each call
    served,   \* calls the implementation ever ran for
    result    \* outcome of each call at the client

vars == <<serving, served, result>>

Init ==
    /\ serving = [c \in Calls |-> {}]
    /\ served = {}
    /\ result = [c \in Calls |-> "none"]

Begin(c) ==
    /\ result[c] = "none"
    /\ result' = [result EXCEPT ![c] = "pending"]
    /\ UNCHANGED <<serving, served>>

Run(c, w) ==
    /\ result[c] # "none"
    /\ serving[c] = {}
    /\ serving' = [serving EXCEPT ![c] = {w}]
    /\ served' = served \cup {c}
    /\ UNCHANGED result

Return(c) ==
    /\ result[c] = "pending"
    /\ \/ result' = [result EXCEPT ![c] = "error"]
       \/ c \in served /\ result' = [result EXCEPT ![c] = "ok"]
    /\ UNCHANGED <<serving, served>>

Forget ==
    /\ serving' = [c \in Calls |-> {}]
    /\ UNCHANGED <<served, result>>

Next ==
    \/ \E c \in Calls : Begin(c) \/ Return(c)
    \/ \E c \in Calls, w \in Workers : Run(c, w)
    \/ Forget

Spec == Init /\ [][Next]_vars
=============================================================================
