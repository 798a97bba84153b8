----------------------------- MODULE MCPureChecks -----------------------------
(***************************************************************************)
(* The parts of the SDK that keep no state, for TLC: the rules of an       *)
(* authorization, one parameter ceiling, the assessment of effects, the    *)
(* admission of releases and the content of dispatches.  They share no     *)
(* variable, so a behaviour takes up one subject and the others rest in an *)
(* initial state: their states add up and do not multiply.                 *)
(***************************************************************************)
EXTENDS MCAuthorizationRules, EffectAssessment, ReleaseAdmission, ParameterCeilings,
        DispatchBinding

CONSTANTS key1, key2

VARIABLE subject  \* the part this behaviour is about

-----------------------------------------------------------------------------
(* Ceilings and parameters: one numeric field with every kind of bound, one *)
(* that may be left out, one that is structured.                            *)

One == Literal(FALSE, <<1>>, 0, 0)            \* 1
OnePointZero == Literal(FALSE, <<1, 0>>, 1, 0)  \* 1.0
TenTenths == Literal(FALSE, <<1, 0>>, 0, -1)  \* 10e-1
OneAndHalf == Literal(FALSE, <<1, 5>>, 1, 0)  \* 1.5
Hundred == Literal(FALSE, <<1>>, 0, 2)        \* 1e2
MinusOne == Literal(TRUE, <<1>>, 0, 0)        \* -1
Nought == Literal(FALSE, <<0>>, 0, 0)         \* 0
MinusNought == Literal(TRUE, <<0, 0>>, 1, 0)  \* -0.0
TooLarge == Literal(FALSE, <<1>>, 0, 3)       \* 1e3, past MaxExponent

Str(s) == Text("string", s)
Num(n) == Number(n)
Obj(items) == Structure("object", items)
Arr(values) ==
    Structure("array", [i \in DOMAIN values |-> [key |-> "", value |-> values[i]]])
Garbage == Text("garbage", "")
Pair(k, v) == [key |-> k, value |-> v]

Limit(type, optional, allowed, low, high) ==
    [type |-> type, optional |-> optional, allowed |-> allowed,
     minimum |-> low, maximum |-> high]

CountLimits ==
    {Limit(t, FALSE, Unset, low, high) :
        t \in {"integer", "number"}, low \in {Unset, One, Nought, OneAndHalf},
        high \in {Unset, TenTenths, Hundred, TooLarge}}
    \cup {Limit(t, o, a, Unset, Unset) :
        t \in {"integer", "number", "string"}, o \in BOOLEAN,
        a \in {Unset, <<>>, <<Num(One)>>, <<Num(OnePointZero), Num(Hundred)>>,
               <<Str("x")>>}}

ListLimits ==
    {Limit(t, o, a, Unset, Unset) :
        t \in {"object", "array"}, o \in {TRUE},
        a \in {Unset, <<>>, <<Arr(<<Num(One), Str("x")>>)>>,
               <<Obj(<<Pair("k", Num(One)), Pair("l", Str("x"))>>)>>}}

Count(limit) == [f \in {"count"} |-> limit]
CountAnd(limit, other) == [f \in {"count", "list"} |-> IF f = "count" THEN limit ELSE other]

MCCeilingSpace ==
    {Count(l) : l \in CountLimits}
    \cup {CountAnd(l, o) : o \in ListLimits,
            l \in {Limit("integer", FALSE, Unset, Nought, Unset),
                   Limit("number", TRUE, Unset, Unset, One)}}

CountValues == {Num(n) : n \in {One, OnePointZero, TenTenths, OneAndHalf, Hundred,
                                MinusOne, Nought, MinusNought, TooLarge}}
               \cup {Str("x"), Str("y"), Text("null", "")}

ListValues == {Arr(<<Num(OnePointZero), Str("x")>>), Arr(<<Str("x"), Num(One)>>),
               Obj(<<Pair("l", Str("x")), Pair("k", Num(TenTenths))>>),
               Obj(<<Pair("k", Num(Hundred)), Pair("l", Str("x")), Pair("k", Num(One))>>),
               Obj(<<Pair("k", Num(One))>>)}

MCRawSpace ==
    {Obj(<<>>), Garbage, Arr(<<Num(One)>>), Obj(<<Pair("other", Num(One))>>)}
    \cup {Obj(<<Pair("count", v)>>) : v \in CountValues}
    \cup {Obj(<<Pair("count", v), Pair("count", w)>>) :
            v, w \in {Num(One), Num(Hundred), Num(MinusOne)}}
    \cup {Obj(<<Pair("count", Num(One)), Pair("list", v)>>) : v \in ListValues}
    \cup {Obj(<<Pair("list", v), Pair("count", Num(OnePointZero))>>) : v \in ListValues}

-----------------------------------------------------------------------------
(* Manifests: valid ones that differ in what matters to their users, and one *)
(* for each rule of Manifest.Validate that it breaks.                        *)

Runs(reference, digest) == [reference |-> reference, digest |-> digest]
Acts(ref, discovery) == [ref |-> ref, discovery |-> discovery]
Renders(platform, digest) == [platform |-> platform, digest |-> digest]

Broker(transport, endpoint, artifacts, verification) ==
    [transport |-> transport, endpoint |-> endpoint, artifacts |-> artifacts,
     verification |-> verification]

Outbound(artifacts) == Broker("outbound-pull", FALSE, artifacts, "v1")

Base == [publisher |-> "pub", provider |-> "prov", release |-> "r1",
         malformed |-> FALSE, schema |-> "plain", credential |-> Nil,
         renderer |-> Nil, broker |-> Outbound(<<Runs("a", "d1")>>),
         actions |-> <<Acts("act", TRUE)>>]

Credential == [lifetime |-> "v1", features |-> <<"x", "y">>]
Renderer == [artifacts |-> <<Renders("linux", "d1"), Renders("mac", "d2")>>,
             environment |-> <<"E">>]
WithCredential == [Base EXCEPT !.credential = Credential, !.renderer = Renderer]

Valid ==
    {Base, WithCredential,
     [Base EXCEPT !.broker = Outbound(<<Runs("a", "d2")>>)],
     [Base EXCEPT !.release = "r2",
                  !.actions = <<Acts("act", FALSE), Acts("other", TRUE)>>],
     [Base EXCEPT !.broker = Broker("", TRUE, <<>>, "")],
     [Base EXCEPT !.publisher = "foreign"],
     [Base EXCEPT !.schema = "long"], [Base EXCEPT !.schema = "rounded"]}

Invalid ==
    {[Base EXCEPT !.malformed = TRUE], [Base EXCEPT !.credential = Credential],
     [Base EXCEPT !.actions = <<>>],
     [Base EXCEPT !.actions = <<Acts("act", TRUE), Acts("act", FALSE)>>],
     [Base EXCEPT !.broker = Outbound(<<>>)],
     [Base EXCEPT !.broker = Outbound(<<Runs("a", "d1"), Runs("a", "d2")>>)],
     [Base EXCEPT !.broker.endpoint = TRUE], [Base EXCEPT !.broker.transport = "other"],
     [Base EXCEPT !.broker = Broker("", TRUE, <<>>, "v1")],
     [Base EXCEPT !.broker = Broker("", TRUE, <<Runs("a", "d1")>>, "")],
     [Base EXCEPT !.broker.verification = "v9"],
     [WithCredential EXCEPT !.credential.lifetime = "v9"],
     [WithCredential EXCEPT !.credential.features = <<"x", "x">>],
     [WithCredential EXCEPT !.renderer.artifacts = <<>>],
     [WithCredential EXCEPT !.renderer.artifacts =
        <<Renders("linux", "d1"), Renders("linux", "d2")>>],
     [WithCredential EXCEPT !.renderer.environment = <<"E", "E">>]}

MCManifestSpace == Valid \cup Invalid
MCTrusted == [publisher |-> "pub", key |-> key1]
MCKeys == {key1, key2}
MCFloat == [s \in {"plain", "long", "rounded"} |-> IF s = "long" THEN "rounded" ELSE s]
MCActions == {Acts("act", TRUE), Acts("act", FALSE), Acts("other", TRUE)}

-----------------------------------------------------------------------------
(* Dispatches: two connections, two releases, three kinds, and a number that *)
(* a float64 holds, its other spelling, and one that it rounds to the first. *)

Five == Literal(FALSE, <<5>>, 0, 0)
FiveSpelled == Literal(FALSE, <<5, 0>>, 1, 0)
Long == Literal(FALSE, <<5, 1>>, 1, 0)  \* stands for 5.0000000000000001

Asks(kind, connection, release, config) ==
    [kind |-> kind, connection |-> connection, release |-> release, config |-> config]

Built(release, outbound, declares, intact) ==
    [release |-> release, outbound |-> outbound, declares |-> declares,
     intact |-> intact]

MCConfigs == {Five, FiveSpelled, Long, TooLarge}
MCRounded == [c \in MCConfigs |-> IF c = TooLarge THEN TooLarge ELSE Five]
MCRequestSpace ==
    {Asks("verify_connection", "x", "v1", c) : c \in {Five, Long}}
    \cup {Asks("verify_connection", "y", "v1", Five),
          Asks("verify_connection", "x", "v2", Five),
          Asks("discover_resources", "x", "v1", FiveSpelled),
          Asks("execute_action", "x", "v1", Long)}
MCServices ==
    {Built("v1", TRUE, {"verify_connection", "discover_resources"}, TRUE),
     Built("v2", TRUE, {"discover_resources"}, TRUE),
     Built("v1", FALSE, {"discover_resources"}, TRUE),
     Built("v2", TRUE, {"verify_connection"}, FALSE)}

-----------------------------------------------------------------------------
ruleVars == <<rules, scope, features>>
allVars == <<ruleVars, ceilingVars, effectVars, releaseVars, dispatchVars, subject>>

RulesRest == rules = {} /\ scope = Absent /\ features = {}
EffectsRest == preset = "read_only" /\ semantics = Missing

ChecksInit ==
    /\ CeilingInit /\ ReleaseInit /\ DispatchInit
    /\ \/ subject = "rules" /\ Init /\ EffectsRest
       \/ subject = "effects" /\ RulesRest /\ EffectInit
       \/ subject \in {"ceiling", "release", "dispatch"} /\ RulesRest /\ EffectsRest

RulesStep ==
    /\ subject = "rules" /\ Next
    /\ UNCHANGED <<ceilingVars, effectVars, releaseVars, dispatchVars, subject>>
CeilingStep ==
    /\ subject = "ceiling" /\ CeilingNext
    /\ UNCHANGED <<ruleVars, effectVars, releaseVars, dispatchVars, subject>>
EffectsStep ==
    /\ subject = "effects" /\ EffectNext
    /\ UNCHANGED <<ruleVars, ceilingVars, releaseVars, dispatchVars, subject>>
ReleaseStep ==
    /\ subject = "release" /\ ReleaseNext
    /\ UNCHANGED <<ruleVars, ceilingVars, effectVars, dispatchVars, subject>>

DispatchStep ==
    /\ subject = "dispatch" /\ DispatchNext
    /\ UNCHANGED <<ruleVars, ceilingVars, effectVars, releaseVars, subject>>

ChecksNext == RulesStep \/ CeilingStep \/ EffectsStep \/ ReleaseStep \/ DispatchStep

ChecksSpec == ChecksInit /\ [][ChecksNext]_allVars

=============================================================================
