-------------------------- MODULE MCResourceSelection --------------------------
(***************************************************************************)
(* An instance of ResourceSelection for TLC.  Valid queries: an exact one  *)
(* for each list of identities and searches with two cursors; and one      *)
(* query for each rule of DiscoveryRequest.Validate that it breaks.        *)
(***************************************************************************)
EXTENDS ResourceSelection

CONSTANTS a, b, r1, r2

TwoFifty == Literal(FALSE, <<2, 5, 0>>, 0, 0)  \* 250
MinusZero == Literal(TRUE, <<0, 0>>, 1, 0)     \* -0.0

\* 2.50e2, 25, -250, 250e-1 and 0.
MCSpellings ==
    {Literal(FALSE, <<2, 5, 0>>, 2, 2), Literal(FALSE, <<2, 5>>, 0, 0),
     Literal(TRUE, <<2, 5, 0>>, 0, 0), Literal(FALSE, <<2, 5, 0>>, 0, -1),
     Literal(FALSE, <<0>>, 0, 0)}
MCConfigs == {TwoFifty, MinusZero}

Query(ids, query, cursor, limit) ==
    [ids |-> ids, query |-> query, cursor |-> cursor, limit |-> limit,
     config |-> IF limit = 0 THEN MinusZero ELSE TwoFifty]

\* A search and its continuation; the second request repeats an exact query.
MCQuerySpace ==
    [r \in Requests |->
        IF r = r1
        THEN {Query(<<a>>, FALSE, NoCursor, 2), Query(<<a, b>>, FALSE, NoCursor, 2),
              Query(Absent, TRUE, NoCursor, 1), Query(Absent, TRUE, "next", 1),
              Query(<<a, a>>, FALSE, NoCursor, 2), Query(<<a>>, FALSE, NoCursor, 0)}
        ELSE {Query(<<a>>, FALSE, NoCursor, 2)}]

\* The earliest date that the adapter may accept and the latest.
MCMisdated == {-1, 2}

MCLastAsk == [r \in Requests |-> IF r = r1 THEN 2 ELSE 0]
=============================================================================
