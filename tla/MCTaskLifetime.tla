---------------------------- MODULE MCTaskLifetime ----------------------------
(***************************************************************************)
(* Instance of TaskLifetime for TLC: releases without the lifetime         *)
(* protocol, a strict and a more generous one, and releases with it, of    *)
(* this version and of a later one.                                        *)
(***************************************************************************)
EXTENDS TaskLifetime, TLC

JobSymmetry == Permutations(Jobs)

MCCredentials == {[protocol |-> Legacy, ttl |-> 2], [protocol |-> Legacy, ttl |-> 3],
                  [protocol |-> Declared, ttl |-> 3], [protocol |-> "v2", ttl |-> 2]}
=============================================================================
