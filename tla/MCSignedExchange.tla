--------------------------- MODULE MCSignedExchange ---------------------------
(***************************************************************************)
(* Instances of SignedExchange for TLC.  One unit of time is half a minute *)
(* (a whole minute in the runs with few units), so Window and Retention    *)
(* have the code's ratio of 2 to 3.                                        *)
(***************************************************************************)
EXTENDS SignedExchange, TLC

CONSTANTS m1, m2, m3, r1, r2

\* Copies of a request are interchangeable.
CopySymmetry == Permutations(Copies)

\* Two releases have the same name, and only the digest tells them apart.
NameOf == [m \in Manifests |-> IF m = m3 THEN r2 ELSE r1]
=============================================================================
