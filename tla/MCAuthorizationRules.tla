------------------------- MODULE MCAuthorizationRules -------------------------
(***************************************************************************)
(* An instance of AuthorizationRules for TLC: two operations, two          *)
(* resources of which one lies under the only prefix, two digests of one   *)
(* reference, two parameter objects, and every kind of valid and malformed *)
(* identity and matcher in the rules.                                      *)
(***************************************************************************)
EXTENDS AuthorizationRules, TLC

CONSTANTS op1, op2, r1, r2, badID, prefix

c1 == [ref |-> "cap", digest |-> "d1"]
c2 == [ref |-> "cap", digest |-> "d2"]
none == [ref |-> "", digest |-> ""]

MCCapabilities == {c1, c2, none}
MCMalformed == {none}
MCUnder == {<<r1, prefix>>, <<r1, "">>, <<r2, "">>}
MCParameters == {"small", "large"}

\* Prefixes and exact resources: none, one of each, and what is malformed.
Selections == {<<{}, Absent>>, <<{prefix}, Absent>>, <<{}, {r2}>>, <<{}, {}>>,
               <<{prefix}, {r2}>>, <<{}, {badID}>>}

\* "i" is every kind of rule, "j" the ceilings that may stand beside it, "" and ""
\* as a matcher the ones that are refused.
MCRuleSpace ==
    {[id |-> "i", effect |-> "allow", operations |-> os, prefixes |-> sel[1], ids |-> sel[2],
      capabilities |-> cs, limits |-> l] :
        os \in {{}, {op1}}, sel \in Selections,
        cs \in {Absent, {}, {c1}, {c1, c2}}, l \in {Absent, {"small"}}}
    \cup
    {[id |-> "i", effect |-> e, operations |-> {}, prefixes |-> {}, ids |-> Absent,
      capabilities |-> Absent, limits |-> l] :
        e \in {"allow", "deny"}, l \in {{}, {"large"}}}
    \cup
    {[id |-> "j", effect |-> "allow", operations |-> os, prefixes |-> sel[1], ids |-> sel[2],
      capabilities |-> cs, limits |-> l] :
        os \in {{}, {op1}}, sel \in {<<{}, Absent>>, <<{prefix}, Absent>>, <<{}, {r2}>>},
        cs \in {Absent, {c1}}, l \in {{"small"}, {"large"}}}
    \cup
    {[id |-> names[1], effect |-> "allow", operations |-> names[2], prefixes |-> names[3],
      ids |-> Absent, capabilities |-> Absent, limits |-> {"small"}] :
        names \in {<<"", {}, {}>>, <<"j", {""}, {}>>, <<"j", {}, {""}>>}}

MCScopeSpace == {Absent, {r1}, {badID}}
=============================================================================
