-------------------------- MODULE AuthorizationRules --------------------------
(***************************************************************************)
(* The authorization ceiling of a credential or an action: its rules'      *)
(* selectors and parameter ceilings (src/constraints.go,                   *)
(* src/capability_selection.go, Authorization of src/protocol.go) and the  *)
(* features an issuer's release must declare to receive it.                *)
(*                                                                         *)
(* A rule is a record of its matchers.  A list whose duplicates are        *)
(* refused is a set here; Absent is a nil slice or pointer, which the code *)
(* tells from an empty one.  A parameter ceiling is the set of parameter   *)
(* objects it admits, the empty set standing for a malformed ceiling.      *)
(*                                                                         *)
(* Around these functions the model puts the author of an authorization,   *)
(* who adds rules one at a time, and the publisher of an issuer's release, *)
(* who declares features.                                                  *)
(***************************************************************************)
CONSTANTS
    Absent,        \* nil
    RuleIDs,       \* identities of rules
    Blank,         \* "", as an identity or a matcher
    Operations,    \* operations of the provider
    Resources,     \* resource identities
    Prefixes,      \* resource prefixes
    Under,         \* pairs <<resource, prefix>> with HasPrefix
    MalformedIDs,  \* identities with stray blanks or control characters
    Capabilities,  \* selectors [ref, digest]
    Malformed,     \* those that are not an exact reference and digest
    NoCapability,  \* CapabilitySelector{}, malformed
    Parameters,    \* parameter objects
    RuleSpace,     \* bound: the rules an author may write
    ScopeSpace     \* bound: the authorization's own exact resources

Features == {"exact_resources", "parameter_limits", "capability_bindings"}

RuleType == [id : RuleIDs \cup {Blank},
             effect : {"allow", "require_typed_capability", "deny"},
             operations : SUBSET (Operations \cup {Blank}),
             prefixes : SUBSET (Prefixes \cup {Blank}),
             ids : {Absent} \cup SUBSET (Resources \cup MalformedIDs),
             capabilities : {Absent} \cup SUBSET Capabilities,
             limits : {Absent} \cup SUBSET Parameters]

ASSUME RuleAssumption ==
    /\ RuleSpace \subseteq RuleType
    /\ ScopeSpace \subseteq {Absent} \cup SUBSET (Resources \cup MalformedIDs)
    /\ NoCapability \in Capabilities \cap Malformed
    /\ MalformedIDs \cap Resources = {}
    /\ Blank \notin RuleIDs \cup Operations \cup Prefixes
    /\ \A r \in Resources : <<r, Blank>> \in Under

-----------------------------------------------------------------------------
(* Validation. *)

\* ValidateResourceSelection.
ValidResources(prefixes, ids) ==
    \/ ids = Absent
    \/ ids # {} /\ prefixes = {} /\ ids \cap MalformedIDs = {}

\* CapabilitySelector.Validate.
ValidCapability(capability) == capability \notin Malformed

\* ValidateCapabilitySelection.
ValidCapabilities(selected) ==
    \/ selected = Absent
    \/ /\ selected # {}
       /\ \A c \in selected : ValidCapability(c)
       /\ \A c, d \in selected : c.ref = d.ref => c = d

\* Authorization.Validate, of one rule.
ValidRule(rule) ==
    /\ ValidCapabilities(rule.capabilities)
    /\ ValidResources(rule.prefixes, rule.ids)
    /\ rule.limits # Absent =>
         /\ rule.effect \in {"allow", "require_typed_capability"}
         /\ rule.limits # {}
    /\ rule.id # Blank
    /\ Blank \notin rule.operations \cup rule.prefixes

\* Authorization.Validate.
ValidAuthorization(rules, ids) ==
    /\ rules # {} /\ ValidResources({}, ids)
    /\ \A r \in rules : ValidRule(r)
    /\ \A r, s \in rules : r.id = s.id => r = s

-----------------------------------------------------------------------------
(* Matching. *)

\* MatchesResources: nil identities fall back on prefixes, and no prefix at all
\* is any resource.
MatchesResources(resource, prefixes, ids) ==
    /\ ValidResources(prefixes, ids)
    /\ IF ids # Absent THEN resource \in ids
       ELSE prefixes = {} \/ \E p \in prefixes : <<resource, p>> \in Under

\* MatchesCapabilities.
MatchesCapabilities(actual, selected) ==
    /\ ValidCapabilities(selected)
    /\ selected = Absent \/ (ValidCapability(actual) /\ actual \in selected)

\* Mutant: a rule with operations also covers requests for others.
MatchesAnyOperation(rule, operation, resource, capability) ==
    /\ MatchesResources(resource, rule.prefixes, rule.ids)
    /\ MatchesCapabilities(capability, rule.capabilities)

\* Mutant: a rule matches only the identities it names, never "any".
MatchesNamedOnly(rule, operation, resource, capability) ==
    /\ operation \in rule.operations
    /\ MatchesResources(resource, rule.prefixes, rule.ids)
    /\ MatchesCapabilities(capability, rule.capabilities)

\* MatchesAuthorizationRule; its provider matcher works as the operations do.
MatchesRule(rule, operation, resource, capability) ==
    /\ rule.operations = {} \/ operation \in rule.operations
    /\ MatchesResources(resource, rule.prefixes, rule.ids)
    /\ MatchesCapabilities(capability, rule.capabilities)

\* Mutant: one matching ceiling that admits the parameters is enough.
WithinSomeRule(rules, operation, resource, capability, parameters) ==
    LET limiting == {r \in rules : /\ r.limits # Absent
                                   /\ MatchesRule(r, operation, resource, capability)}
    IN  limiting = {} \/ \E r \in limiting : parameters \in r.limits

\* ParametersWithinCapabilityRules: every matching ceiling has to admit the
\* parameters; a malformed capability selection fails the whole check.
WithinCapabilityRules(rules, operation, resource, capability, parameters) ==
    \A r \in rules :
        /\ ValidCapabilities(r.capabilities)
        /\ r.capabilities # Absent => ValidCapability(capability)
        /\ (r.limits # Absent /\ MatchesRule(r, operation, resource, capability))
            => parameters \in r.limits

\* Mutant: the legacy entry point does not look for capability selectors.
WithinRulesAnyway(rules, operation, resource, parameters) ==
    \A r \in rules :
        (r.limits # Absent /\ MatchesRule(r, operation, resource, NoCapability))
            => parameters \in r.limits

\* ParametersWithinRules: the entry point older than capability selectors.
WithinRules(rules, operation, resource, parameters) ==
    /\ \A r \in rules : r.capabilities = Absent
    /\ WithinCapabilityRules(rules, operation, resource, NoCapability, parameters)

-----------------------------------------------------------------------------
(* What an issuer's release supports. *)

\* Mutant: exact resources are looked for in the authorization's scope only.
ScopeFeatures(rules, ids) ==
    (IF ids # Absent THEN {"exact_resources"} ELSE {})
    \cup (IF \E r \in rules : r.limits # Absent THEN {"parameter_limits"} ELSE {})
    \cup (IF \E r \in rules : r.capabilities # Absent
          THEN {"capability_bindings"} ELSE {})

\* The features CheckAuthorizationSupport finds in use.
UsedFeatures(rules, ids) ==
    (IF ids # Absent \/ \E r \in rules : r.ids # Absent
     THEN {"exact_resources"} ELSE {})
    \cup (IF \E r \in rules : r.limits # Absent THEN {"parameter_limits"} ELSE {})
    \cup (IF \E r \in rules : r.capabilities # Absent
          THEN {"capability_bindings"} ELSE {})

\* CheckAuthorizationSupport.
Supported(rules, ids, features) ==
    ValidAuthorization(rules, ids) /\ UsedFeatures(rules, ids) \subseteq features

\* External: the rule as an issuer sees it that knows only some features; a
\* field it does not know is not there for it.
SeenBy(rule, features) ==
    [rule EXCEPT
        !.ids = IF "exact_resources" \in features THEN @ ELSE Absent,
        !.limits = IF "parameter_limits" \in features THEN @ ELSE Absent,
        !.capabilities = IF "capability_bindings" \in features THEN @ ELSE Absent]

-----------------------------------------------------------------------------
VARIABLES
    rules,     \* Authorization.Rules
    scope,     \* Authorization.ResourceIDs
    features   \* the authorization features of the issuer's signed release

vars == <<rules, scope, features>>

TypeOK ==
    /\ rules \subseteq RuleSpace
    /\ scope \in ScopeSpace
    /\ features \subseteq Features

Init ==
    /\ rules = {}
    /\ scope \in ScopeSpace
    /\ features = {}

\* The author adds a rule.  Bound: at most two, which every property relates.
AddRule(r) ==
    /\ \A s, t \in rules : s = t
    /\ rules' = rules \cup {r}
    /\ UNCHANGED <<scope, features>>

\* The publisher signs a release that enforces one more feature.
Declare(f) == features' = features \cup {f} /\ UNCHANGED <<rules, scope>>

Next == \/ \E r \in RuleSpace : AddRule(r)
        \/ \E f \in Features : Declare(f)

Spec == Init /\ [][Next]_vars

Within(rs, o, r, c, p) == WithinCapabilityRules(rs, o, r, c, p)

-----------------------------------------------------------------------------
(* Properties. *)

\* Whether a request is in a rule's scope, said without the code's early exits.
InScope(rule, operation, resource, capability) ==
    /\ rule.operations # {} => operation \in rule.operations
    /\ rule.ids # Absent => resource \in rule.ids
    /\ rule.prefixes # {} => \E p \in rule.prefixes : <<resource, p>> \in Under
    /\ rule.capabilities # Absent => capability \in rule.capabilities

\* README: "All matching parameter ceilings intersect.  A broader allow
\* elsewhere cannot" lift one.  In a validated authorization, parameters pass
\* for a known capability exactly if every ceiling in whose scope the request
\* falls admits them.
CeilingsIntersect ==
    ValidAuthorization(rules, scope) =>
        \A o \in Operations, r \in Resources, c \in Capabilities \ Malformed,
           p \in Parameters :
            Within(rules, o, r, c, p) <=>
                \A rule \in rules :
                    (rule.limits # Absent /\ InScope(rule, o, r, c))
                        => p \in rule.limits

\* A rule that is added, valid or not, never lets parameters through that were
\* refused before.
AddedRuleNeverWidens ==
    [][rules \subseteq rules' =>
        \A o \in Operations, r \in Resources, c \in Capabilities, p \in Parameters :
            Within(rules', o, r, c, p) => Within(rules, o, r, c, p)]_vars

\* The legacy entry point admits nothing that the check with the capability
\* would refuse, whichever capability the request turns out to use.
LegacyAgrees ==
    \A o \in Operations, r \in Resources, c \in Capabilities, p \in Parameters :
        WithinRules(rules, o, r, p) => Within(rules, o, r, c, p)

\* An authorization is given to an issuer only if the issuer sees all of it: no
\* constraint disappears because its release is older than the constraint.
NothingDropped ==
    Supported(rules, scope, features) =>
        /\ \A rule \in rules : SeenBy(rule, features) = rule
        /\ scope # Absent => "exact_resources" \in features
=============================================================================
