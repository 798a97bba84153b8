----------------------------- MODULE MCTypedAction -----------------------------
(***************************************************************************)
(* Instances of TypedAction for TLC: payloads that float64 keeps apart and *)
(* payloads that it does not.                                              *)
(***************************************************************************)
EXTENDS TypedAction, TLC

TrySymmetry == Permutations(Tries)

\* Numbers float64 represents.
Exact == [p \in Payloads |-> p]

\* Two large integers, say 2^53 and 2^53 + 1, that become the same float64.
Rounded == [p \in Payloads |-> CHOOSE q \in Payloads : TRUE]
=============================================================================
