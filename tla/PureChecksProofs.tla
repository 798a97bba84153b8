---------------------------- MODULE PureChecksProofs ----------------------------
(***************************************************************************)
(* Theorems about the parts of the SDK that keep no state, for every value *)
(* of the constants: the assessment of effects, the rules of an            *)
(* authorization, the admission of releases and the binding of dispatches. *)
(***************************************************************************)
EXTENDS EffectAssessment, AuthorizationRules, ReleaseAdmission, DispatchBinding,
        ExactNumbersProofs, FiniteSetTheorems, TLAPS

-----------------------------------------------------------------------------
(* Effects: the assessment is monotone in the declared effects and in the  *)
(* preset, and every behaviour of EffectAssessment keeps to that.          *)

\* The assessment yields one of the five requirements.
LEMMA AssessType == \A p, s : Assess(p, s) \in Requirements
BY DEF Assess, Requirements

\* Declaring more effects never lowers the requirement.
LEMMA AssessMonotone ==
    ASSUME NEW p \in Presets, NEW s, NEW t,
           ValidSemantics(s), ValidSemantics(t), Covers(t, s)
    PROVE  Rank(Assess(p, s)) <= Rank(Assess(p, t))
<1>1. Unknown(s) => Unknown(t)
  BY DEF Covers, Unknown
<1>2. Changed(s) => Changed(t)
  BY DEF Covers, Changed
<1>3. Consequent(s) => Consequent(t)
  BY DEF Covers, Consequent
<1> QED BY <1>1, <1>2, <1>3 DEF Assess, Rank, Presets

\* Choosing a stricter preset never lowers the requirement.
LEMMA PresetMonotone ==
    ASSUME NEW p \in Presets, NEW q \in Presets, NEW s,
           Strictness(p) <= Strictness(q)
    PROVE  Rank(Assess(p, s)) <= Rank(Assess(q, s))
BY DEF Assess, Rank, Presets, Strictness

LEMMA EffectTypeInv == EffectSpec => []EffectTypeOK
<1>1. EffectInit => EffectTypeOK
  BY DEF EffectInit, EffectTypeOK
<1>2. EffectTypeOK /\ [EffectNext]_effectVars => EffectTypeOK'
  BY DEF EffectTypeOK, EffectNext, Release, Select, effectVars
<1> QED BY <1>1, <1>2, PTL DEF EffectSpec

\* No release escapes a requirement by declaring more.
THEOREM EffectsNeverRelax == EffectSpec => NoRelaxingEffect
<1>1. EffectTypeOK /\ [EffectNext]_effectVars =>
        [ (/\ preset' = preset
           /\ ValidSemantics(semantics) /\ ValidSemantics(semantics')
           /\ Covers(semantics', semantics))
          => Rank(Requirement) <= Rank(Requirement') ]_effectVars
  BY AssessMonotone DEF EffectTypeOK, Requirement
<1> QED BY <1>1, EffectTypeInv, PTL DEF EffectSpec, NoRelaxingEffect

\* No tenant escapes a requirement by choosing a stricter preset.
THEOREM PresetsNeverRelax == EffectSpec => NoRelaxingPreset
<1>1. EffectTypeOK /\ EffectTypeOK' /\ [EffectNext]_effectVars =>
        [ (semantics' = semantics /\ Strictness(preset) <= Strictness(preset'))
          => Rank(Requirement) <= Rank(Requirement') ]_effectVars
  BY PresetMonotone DEF EffectTypeOK, Requirement
<1> QED BY <1>1, EffectTypeInv, PTL DEF EffectSpec, NoRelaxingPreset

\* Missing or unknown semantics never end in an approval.
LEMMA UnknownIsNeverApproved == UnknownNeverApproved
BY DEF UnknownNeverApproved, Requirement, Assess

\* A policy of a released preset reviews at least whatever is more than a declared
\* pure read (SimplePolicy.Assess).
LEMMA SimplePolicyAlwaysReviews == SimplePolicyReviews
<1> SUFFICES ASSUME semantics # Missing, NEW e \in semantics, e # "read"
             PROVE  SimpleAssess(preset, semantics) \in {"review", "resolution", "blocked"}
  BY DEF SimplePolicyReviews
<1>1. CASE preset \in SimplePresets /\ ValidSemantics(semantics)
  <2>1. Unknown(semantics) \/ Changed(semantics)
    BY <1>1 DEF ValidSemantics, Effects, Unknown, Changed
  <2> QED BY <1>1, <2>1 DEF SimpleAssess, SimplePresets, Assess
<1>2. CASE ~ (preset \in SimplePresets /\ ValidSemantics(semantics))
  BY <1>2 DEF SimpleAssess, Assess
<1> QED BY <1>1, <1>2

\* Whatever a release declares and a tenant selects, nothing beyond a declared pure
\* read slips past AssessCapabilityEffects or SimplePolicy.Assess.
THEOREM WatchedAlways == EffectSpec => []NothingSlipsThrough
<1>1. NothingSlipsThrough
  BY UnknownIsNeverApproved, SimplePolicyAlwaysReviews DEF NothingSlipsThrough
<1> QED BY <1>1, PTL

-----------------------------------------------------------------------------
(* Rules: whether parameters pass is a function of the rules alone, so     *)
(* three of the theorems rest on lemmas about the operators; only          *)
(* NothingDropped needs an invariant, that every rule is a record of       *)
(* RuleType.                                                               *)

\* For a valid rule and a well-formed capability, the selectors of the code
\* decide what InScope says without their early exits.
LEMMA ValidMatchIsScope ==
    ASSUME NEW rule, NEW o, NEW r, NEW c,
           ValidRule(rule), ValidCapability(c)
    PROVE  MatchesRule(rule, o, r, c) <=> InScope(rule, o, r, c)
<1>1. ValidResources(rule.prefixes, rule.ids) /\ ValidCapabilities(rule.capabilities)
  BY DEF ValidRule
<1>2. MatchesCapabilities(c, rule.capabilities)
        <=> (rule.capabilities # Absent => c \in rule.capabilities)
  BY <1>1 DEF MatchesCapabilities
<1>3. MatchesResources(r, rule.prefixes, rule.ids)
        <=> /\ rule.ids # Absent => r \in rule.ids
            /\ rule.prefixes # {} => \E p \in rule.prefixes : <<r, p>> \in Under
  <2>1. CASE rule.ids = Absent
    BY <1>1, <2>1 DEF MatchesResources
  <2>2. CASE rule.ids # Absent
    <3>1. rule.prefixes = {}
      BY <1>1, <2>2 DEF ValidResources
    <3> QED BY <1>1, <2>2, <3>1 DEF MatchesResources
  <2> QED BY <2>1, <2>2
<1> QED BY <1>2, <1>3 DEF MatchesRule, InScope

\* In every reachable state of every instance, the code's check of a validated
\* authorization is the intersection of the ceilings in scope.
THEOREM CeilingsAlwaysIntersect == Spec => []CeilingsIntersect
<1>1. CeilingsIntersect
  <2> SUFFICES ASSUME ValidAuthorization(rules, scope),
                      NEW o \in Operations, NEW r \in Resources,
                      NEW c \in Capabilities \ Malformed, NEW p \in Parameters
               PROVE  Within(rules, o, r, c, p) <=>
                        \A rule \in rules :
                          (rule.limits # Absent /\ InScope(rule, o, r, c))
                              => p \in rule.limits
    BY DEF CeilingsIntersect
  <2>1. ValidCapability(c)
    BY DEF ValidCapability
  <2>2. ASSUME NEW rule \in rules
        PROVE  /\ ValidCapabilities(rule.capabilities)
               /\ MatchesRule(rule, o, r, c) <=> InScope(rule, o, r, c)
    <3>1. ValidRule(rule)
      BY DEF ValidAuthorization
    <3> QED BY <2>1, <3>1, ValidMatchIsScope DEF ValidRule
  <2> QED BY <2>1, <2>2 DEF Within, WithinCapabilityRules
<1> QED BY <1>1, PTL

\* More rules never let more parameters through, whatever rules are added and
\* whether or not they are valid.
THEOREM RulesNeverWiden == Spec => AddedRuleNeverWidens
<1>1. ASSUME rules \subseteq rules'
      PROVE  \A o \in Operations, r \in Resources, c \in Capabilities,
                p \in Parameters :
                Within(rules', o, r, c, p) => Within(rules, o, r, c, p)
  BY <1>1 DEF Within, WithinCapabilityRules
<1> QED BY <1>1, PTL DEF AddedRuleNeverWidens

\* The entry point without a capability is never laxer than the one with it.
THEOREM LegacyNeverWider == Spec => []LegacyAgrees
<1>1. LegacyAgrees
  <2> SUFFICES ASSUME NEW o \in Operations, NEW r \in Resources,
                      NEW c \in Capabilities, NEW p \in Parameters,
                      WithinRules(rules, o, r, p),
                      NEW rule \in rules
               PROVE  /\ ValidCapabilities(rule.capabilities)
                      /\ rule.capabilities # Absent => ValidCapability(c)
                      /\ (rule.limits # Absent /\ MatchesRule(rule, o, r, c))
                            => p \in rule.limits
    BY DEF LegacyAgrees, Within, WithinCapabilityRules
  <2>1. rule.capabilities = Absent
    BY DEF WithinRules
  <2>2. MatchesRule(rule, o, r, c) <=> MatchesRule(rule, o, r, NoCapability)
    BY <2>1 DEF MatchesRule, MatchesCapabilities
  <2> QED BY <2>1, <2>2 DEF WithinRules, WithinCapabilityRules
<1> QED BY <1>1, PTL

\* The state stays within its types: the rules are records of RuleSpace.
THEOREM RulesTypeCorrect == Spec => []TypeOK
<1>1. Init => TypeOK
  BY DEF Init, TypeOK
<1>2. TypeOK /\ [Next]_vars => TypeOK'
  <2> SUFFICES ASSUME TypeOK, [Next]_vars PROVE TypeOK'
    OBVIOUS
  <2>1. ASSUME NEW r \in RuleSpace, AddRule(r) PROVE TypeOK'
    BY <2>1 DEF AddRule, TypeOK
  <2>2. ASSUME NEW f \in Features, Declare(f) PROVE TypeOK'
    BY <2>2 DEF Declare, TypeOK
  <2>3. CASE UNCHANGED vars
    BY <2>3 DEF vars, TypeOK
  <2> QED BY <2>1, <2>2, <2>3 DEF Next
<1> QED BY <1>1, <1>2, PTL DEF Spec

\* An authorization the issuer's declared features support reaches it whole.
THEOREM SupportedArriveWhole == Spec => []NothingDropped
<1>1. TypeOK => NothingDropped
  <2> SUFFICES ASSUME TypeOK, Supported(rules, scope, features)
               PROVE  /\ \A rule \in rules : SeenBy(rule, features) = rule
                      /\ scope # Absent => "exact_resources" \in features
    BY DEF NothingDropped
  <2>1. UsedFeatures(rules, scope) \subseteq features
    BY DEF Supported
  <2>2. scope # Absent => "exact_resources" \in features
    BY <2>1 DEF UsedFeatures
  <2>3. ASSUME NEW rule \in rules PROVE SeenBy(rule, features) = rule
    <3>1. rule \in RuleType
      BY RuleAssumption DEF TypeOK
    <3>2. rule.ids # Absent => "exact_resources" \in features
      BY <2>1 DEF UsedFeatures
    <3>3. rule.limits # Absent => "parameter_limits" \in features
      BY <2>1 DEF UsedFeatures
    <3>4. rule.capabilities # Absent => "capability_bindings" \in features
      BY <2>1 DEF UsedFeatures
    <3> QED BY <3>1, <3>2, <3>3, <3>4 DEF SeenBy, RuleType
  <2> QED BY <2>2, <2>3
<1> QED BY <1>1, RulesTypeCorrect, PTL

-----------------------------------------------------------------------------
(* Releases, for every change that decoding may make to a schema, and      *)
(* however manifests, digests, signatures, registrations and services are  *)
(* mixed.                                                                  *)

\* What is pinned was signed by the trusted publisher: Verify says so, and signatures
\* are never withdrawn.  The theorems below need it of the release that was pinned
\* when a runtime registered or a service answered.
AdmittedInv == admitted # Nil => SignedByTrusted(admitted)

\* The inductive invariant.
ReleaseInv == ReleaseTypeOK /\ AdmittedInv /\ RunsSignedArtifact /\ AnswersForOneCapability

\* Validation leaves one action for a reference that has any.
LEMMA OneAction ==
    ASSUME NEW m, ValidManifest(m), NEW i \in DOMAIN m.actions
    PROVE  Cardinality({j \in DOMAIN m.actions : m.actions[j].ref = m.actions[i].ref}) = 1
<1>1. \A j, k \in DOMAIN m.actions :
          m.actions[j].ref = m.actions[k].ref => j = k
  BY DEF ValidManifest, Unique, Names
<1>2. {j \in DOMAIN m.actions : m.actions[j].ref = m.actions[i].ref} = {i}
  BY <1>1
<1> QED BY <1>2, FS_Singleton

\* More signatures keep what was signed signed.
LEMMA SignedStays ==
    ASSUME signed \subseteq signed', NEW m, SignedByTrusted(m)
    PROVE  SignedByTrusted(m)'
BY DEF SignedByTrusted

\* A step that only signs keeps the invariant's parts.
LEMMA SignStep ==
    ASSUME ReleaseInv, NEW key \in SigningKeys, NEW m \in ManifestSpace, Sign(key, m)
    PROVE  ReleaseInv'
<1>1. signed \subseteq signed' /\ UNCHANGED <<admitted, runtime, answer>>
  BY DEF Sign
<1>2. ReleaseTypeOK'
  BY DEF ReleaseInv, ReleaseTypeOK, Sign
<1>3. AdmittedInv'
  BY <1>1, SignedStays DEF ReleaseInv, AdmittedInv
<1>4. RunsSignedArtifact'
  <2>1. CASE runtime = Nil
    BY <2>1, <1>1 DEF RunsSignedArtifact
  <2>2. CASE runtime # Nil
    <3>1. SignedByTrusted(runtime.digest)
      BY <2>2 DEF ReleaseInv, RunsSignedArtifact
    <3>2. <<Trusted.key, runtime'.digest>> \in signed' /\ runtime'.digest.publisher = Trusted.publisher
      BY <3>1, <1>1 DEF SignedByTrusted
    <3> QED BY <3>2, <2>2, <1>1 DEF ReleaseInv, RunsSignedArtifact, SignedByTrusted
  <2> QED BY <2>1, <2>2
<1>5. AnswersForOneCapability'
  <2>1. CASE answer = Nil
    BY <2>1, <1>1 DEF AnswersForOneCapability
  <2>2. CASE answer # Nil
    <3>1. SignedByTrusted(answer.manifest)
      BY <2>2 DEF ReleaseInv, AnswersForOneCapability
    <3>2. <<Trusted.key, answer'.manifest>> \in signed' /\ answer'.manifest.publisher = Trusted.publisher
      BY <3>1, <1>1 DEF SignedByTrusted
    <3> QED BY <3>2, <2>2, <1>1 DEF ReleaseInv, AnswersForOneCapability, SignedByTrusted
  <2> QED BY <2>1, <2>2
<1> QED BY <1>2, <1>3, <1>4, <1>5 DEF ReleaseInv

LEMMA ReleaseInvStep == ReleaseInv /\ [ReleaseNext]_releaseVars => ReleaseInv'
<1> SUFFICES ASSUME ReleaseInv, [ReleaseNext]_releaseVars PROVE ReleaseInv'
  OBVIOUS
<1>1. ASSUME NEW key \in SigningKeys, NEW m \in ManifestSpace, Sign(key, m) PROVE ReleaseInv'
  BY <1>1, SignStep
<1>2. ASSUME NEW m \in ManifestSpace, NEW digest \in ManifestSpace,
             NEW signature \in signed, Admit(m, digest, signature)
      PROVE  ReleaseInv'
  <2> DEFINE pinned == Decoded(m)
  <2>1. /\ pinned.publisher = Trusted.publisher
        /\ <<Trusted.key, pinned>> \in signed
        /\ admitted' = pinned /\ UNCHANGED <<signed, runtime, answer>>
    BY <1>2 DEF Admit, Verify
  <2> HIDE DEF pinned
  <2>2. pinned \in ManifestSpace
    BY <2>1 DEF ReleaseInv, ReleaseTypeOK
  <2>3. ReleaseTypeOK'
    BY <2>1, <2>2 DEF ReleaseInv, ReleaseTypeOK
  <2>4. AdmittedInv'
    BY <2>1 DEF AdmittedInv, SignedByTrusted
  <2>5. RunsSignedArtifact' /\ AnswersForOneCapability'
    BY <2>1 DEF ReleaseInv, RunsSignedArtifact, AnswersForOneCapability, SignedByTrusted
  <2> QED BY <2>3, <2>4, <2>5 DEF ReleaseInv
<1>3. ASSUME NEW registration \in RegistrationType, Register(registration)
      PROVE  ReleaseInv'
  <2>1. /\ admitted # Nil /\ runtime' = registration
        /\ UNCHANGED <<signed, admitted, answer>>
    BY <1>3 DEF Register
  <2>2. SignedByTrusted(registration.digest) /\ registration.digest = admitted
    BY <2>1, <1>3 DEF Register, Registers, ReleaseInv, AdmittedInv
  <2>3. /\ registration.digest.provider = registration.provider
        /\ registration.digest.release = registration.release
        /\ TransportMode(registration.digest.broker) = "outbound-pull"
        /\ \E i \in DOMAIN registration.digest.broker.artifacts :
             registration.digest.broker.artifacts[i].digest = registration.artifact
    BY <2>2, <1>3 DEF Register, Registers
  <2>4. ReleaseTypeOK' /\ AdmittedInv' /\ AnswersForOneCapability'
    BY <2>1, <1>3 DEF ReleaseInv, ReleaseTypeOK, AdmittedInv, AnswersForOneCapability,
                      SignedByTrusted
  <2>5. RunsSignedArtifact'
    BY <2>1, <2>2, <2>3 DEF RunsSignedArtifact, SignedByTrusted
  <2> QED BY <2>4, <2>5 DEF ReleaseInv
<1>4. ASSUME NEW manifest \in ManifestSpace, NEW digest \in ManifestSpace,
             NEW capability \in Actions, Discover(manifest, digest, capability)
      PROVE  ReleaseInv'
  <2>1. /\ admitted # Nil
        /\ answer' = [manifest |-> manifest, capability |-> capability]
        /\ UNCHANGED <<signed, admitted, runtime>>
    BY <1>4 DEF Discover
  <2>2. ValidManifest(manifest) /\ manifest = admitted
    BY <1>4 DEF Discover, ServiceValid
  <2>3. SignedByTrusted(manifest)
    BY <2>1, <2>2 DEF ReleaseInv, AdmittedInv
  <2>4. PICK i \in DOMAIN manifest.actions : manifest.actions[i].ref = capability.ref
    BY <1>4 DEF Discover
  <2>5. Cardinality({j \in DOMAIN manifest.actions :
                        manifest.actions[j].ref = capability.ref}) = 1
    BY <2>2, <2>4, OneAction
  <2>6. ReleaseTypeOK' /\ AdmittedInv' /\ RunsSignedArtifact'
    BY <2>1 DEF ReleaseInv, ReleaseTypeOK, AdmittedInv, RunsSignedArtifact, SignedByTrusted
  <2>7. AnswersForOneCapability'
    BY <2>1, <2>3, <2>5 DEF AnswersForOneCapability, SignedByTrusted
  <2> QED BY <2>6, <2>7 DEF ReleaseInv
<1>5. CASE UNCHANGED releaseVars
  BY <1>5 DEF releaseVars, ReleaseInv, ReleaseTypeOK, AdmittedInv, RunsSignedArtifact,
              AnswersForOneCapability, SignedByTrusted
<1> QED BY <1>1, <1>2, <1>3, <1>4, <1>5 DEF ReleaseNext

LEMMA ReleaseInvAlways == ReleaseSpec => []ReleaseInv
<1>1. ReleaseInit => ReleaseInv
  BY DEF ReleaseInit, ReleaseInv, ReleaseTypeOK, AdmittedInv, RunsSignedArtifact,
         AnswersForOneCapability
<1> QED BY <1>1, ReleaseInvStep, PTL DEF ReleaseSpec

\* A registered runtime runs an artifact of the signed outbound release it names
\* (RuntimeRegistration.Validate).
THEOREM RuntimesAreSigned == ReleaseSpec => []RunsSignedArtifact
<1>1. ReleaseInv => RunsSignedArtifact
  BY DEF ReleaseInv
<1> QED BY <1>1, ReleaseInvAlways, PTL

\* Discovery is answered for the one capability of a signed manifest that the
\* request can mean (DiscoveryService.DiscoverResources looks for the first).
THEOREM OneCapabilityAnswers == ReleaseSpec => []AnswersForOneCapability
<1>1. ReleaseInv => AnswersForOneCapability
  BY DEF ReleaseInv
<1> QED BY <1>1, ReleaseInvAlways, PTL

-----------------------------------------------------------------------------
(* Dispatches: a digest names its phase, and for the phases the SDK serves it *)
(* names the number exactly, so what passes the checks was made as one piece. *)

AnyRequest == [kind : Phases, connection : STRING, release : STRING, config : Configs]

\* What the control plane makes, Validate's rules for what is served, and where a
\* pulled dispatch has its parts from.
MadeInv ==
    \A d \in made :
        /\ d.request \in RequestSpace
        /\ d.phase = d.request.kind
        /\ d.connection = d.request.connection
        /\ d.digest = DispatchRequestDigest(d.phase, d.request)
        /\ d \in DispatchType

HeldInv ==
    held # Nothing =>
        /\ held \in DispatchType
        /\ \E f \in made : held.digest = f.digest

WorkInv ==
    work # Nothing =>
        /\ work \in WorkType
        /\ held # Nothing
        /\ work.request = held.request
        /\ held.phase \in Precise
        /\ held.request.kind = held.phase
        /\ held.request.connection = held.connection
        /\ held.digest = DispatchRequestDigest(held.phase, held.request)
        /\ ServiceAccepts(work.service, held.request)

DoneInv ==
    done # Nothing =>
        done \in [dispatch : DispatchType, work : WorkType, of : RequestType]

DispatchInv == MadeInv /\ HeldInv /\ WorkInv /\ DoneInv /\ WorkAsDispatched

\* A request respelled is a request, and respelling it again forgets the first
\* spelling.
LEMMA Respelled ==
    ASSUME NEW r \in RequestType
    PROVE  r \in AnyRequest /\ \A c \in Configs : Spelled(r, c) \in RequestType
<1>1. PICK q \in RequestSpace, b \in Configs : r = Spelled(q, b)
  BY DEF RequestType
<1>2. q \in AnyRequest
  BY DispatchAssumption DEF AnyRequest
<1>3. r \in AnyRequest
  BY <1>1, <1>2 DEF AnyRequest, Spelled
<1>4. \A c \in Configs : Spelled(r, c) = Spelled(q, c)
  BY <1>1, <1>2 DEF AnyRequest, Spelled
<1> QED BY <1>3, <1>4 DEF RequestType

LEMMA MadeRequests ==
    ASSUME NEW q \in RequestSpace
    PROVE  q \in AnyRequest /\ q \in RequestType
<1>1. q \in AnyRequest
  BY DispatchAssumption DEF AnyRequest
<1>2. q = Spelled(q, q.config) /\ q.config \in Configs
  BY <1>1 DEF AnyRequest, Spelled
<1> QED BY <1>1, <1>2 DEF RequestType

\* The digests of a phase with exact numbers and of what a result is for agree with
\* that of a dispatch as it was made only if the two requests are the same.
LEMMA DigestsBind ==
    ASSUME NEW d \in RequestSpace, NEW w \in RequestType, NEW q \in RequestType,
           NEW phase \in Precise, w.kind = phase,
           DispatchRequestDigest(phase, w) = DispatchRequestDigest(d.kind, d),
           ResultDigest(q) = ResultDigest(w)
    PROVE  /\ d.kind = phase /\ d.connection = w.connection /\ d.release = w.release
           /\ Same(d, q)
<1>1. d \in AnyRequest /\ w \in AnyRequest /\ q \in AnyRequest
  BY MadeRequests, Respelled
<1>2. d.kind = w.kind /\ d.connection = w.connection /\ d.release = w.release
  BY DEF DispatchRequestDigest, ContentDigest
<1>3. Canonical(w.config) = Canonical(d.config)
  BY <1>2 DEF DispatchRequestDigest, ContentDigest
<1>4. /\ q.kind = w.kind /\ q.connection = w.connection /\ q.release = w.release
      /\ Canonical(q.config) = Canonical(w.config)
  BY DEF ResultDigest, ContentDigest
<1>5. Compare(d.config, q.config) = 0
  <2>1. d.config \in Literals /\ q.config \in Literals
    BY <1>1, DispatchAssumption DEF AnyRequest
  <2> QED BY <2>1, <1>3, <1>4, SameSpellingSameNumber
<1>6. Spelled(d, q.config) = q
  BY <1>1, <1>2, <1>4 DEF AnyRequest, Spelled
<1> QED BY <1>2, <1>5, <1>6 DEF Same

LEMMA MakeStep ==
    ASSUME DispatchInv, NEW q \in RequestSpace, Make(q)
    PROVE  DispatchInv'
<1> DEFINE new == [connection |-> q.connection, phase |-> q.kind, request |-> q,
                   digest |-> DispatchRequestDigest(q.kind, q)]
<1>1. made' = made \cup {new} /\ UNCHANGED <<held, work, done>>
  BY DEF Make
<1>2. new \in DispatchType
  <2>1. q \in AnyRequest /\ q \in RequestType
    BY MadeRequests
  <2>2. new.digest \in DigestType
    BY <2>1 DEF DispatchRequestDigest, DigestType, ContentDigest, AnyRequest
  <2> QED BY <2>1, <2>2 DEF DispatchType, AnyRequest
<1>3. MadeInv'
  BY <1>1, <1>2 DEF DispatchInv, MadeInv
<1>4. HeldInv'
  BY <1>1 DEF DispatchInv, HeldInv
<1>5. WorkInv' /\ DoneInv'
  BY <1>1 DEF DispatchInv, WorkInv, DoneInv
<1>6. WorkAsDispatched'
  BY <1>1 DEF DispatchInv, WorkAsDispatched
<1> QED BY <1>3, <1>4, <1>5, <1>6 DEF DispatchInv

LEMMA PullStep ==
    ASSUME DispatchInv, NEW d \in made, NEW e \in made, NEW f \in made,
           NEW c \in Configs, Pull(d, e, f, c)
    PROVE  DispatchInv'
<1>1. /\ held' = [connection |-> d.connection, phase |-> d.phase,
                  request |-> Spelled(e.request, c), digest |-> f.digest]
      /\ work' = Nothing /\ UNCHANGED <<made, done>>
  BY DEF Pull
<1>2. d \in DispatchType /\ e \in DispatchType /\ f \in DispatchType
  BY DEF DispatchInv, MadeInv
<1>3. Spelled(e.request, c) \in RequestType
  BY <1>2, Respelled DEF DispatchType
<1>4. held' \in DispatchType
  BY <1>1, <1>2, <1>3 DEF DispatchType
<1>5. HeldInv'
  BY <1>1, <1>4 DEF HeldInv
<1>6. WorkInv' /\ MadeInv' /\ DoneInv' /\ WorkAsDispatched'
  BY <1>1 DEF DispatchInv, WorkInv, MadeInv, DoneInv, WorkAsDispatched
<1> QED BY <1>5, <1>6 DEF DispatchInv

LEMMA ServeStep ==
    ASSUME DispatchInv, NEW phase \in Precise, NEW service \in Services,
           Serve(phase, service)
    PROVE  DispatchInv'
<1>1. /\ held # Nothing /\ ValidDispatch(held)
      /\ held.phase = phase /\ held.request.kind = phase
      /\ held.request.connection = held.connection
      /\ ServiceAccepts(service, held.request)
      /\ work' = [request |-> held.request, service |-> service]
      /\ UNCHANGED <<made, held, done>>
  BY DEF Serve
<1>2. WorkInv'
  <2>1. work' \in WorkType
    BY <1>1 DEF DispatchInv, HeldInv, DispatchType, WorkType
  <2> QED BY <2>1, <1>1 DEF WorkInv, ValidDispatch
<1>3. MadeInv' /\ HeldInv' /\ DoneInv' /\ WorkAsDispatched'
  BY <1>1 DEF DispatchInv, MadeInv, HeldInv, DoneInv, WorkAsDispatched
<1> QED BY <1>2, <1>3 DEF DispatchInv

LEMMA FinishStep ==
    ASSUME DispatchInv, NEW e \in made, NEW c \in Configs,
           Finish(Spelled(e.request, c))
    PROVE  DispatchInv'
<1> DEFINE q == Spelled(e.request, c)
<1>1. /\ work # Nothing /\ ResultDigest(q) = ResultDigest(work.request)
      /\ done' = [dispatch |-> held, work |-> work, of |-> q]
      /\ work' = Nothing /\ UNCHANGED <<made, held>>
  BY DEF Finish
<1>2. q \in RequestType
  BY Respelled DEF DispatchInv, MadeInv, DispatchType
<1>3. /\ held # Nothing /\ held \in DispatchType
      /\ work.request = held.request /\ work \in WorkType
      /\ held.phase \in Precise /\ held.request.kind = held.phase
      /\ held.request.connection = held.connection
      /\ held.digest = DispatchRequestDigest(held.phase, held.request)
      /\ ServiceAccepts(work.service, held.request)
  BY <1>1 DEF DispatchInv, WorkInv, HeldInv
<1>4. PICK d \in made : held.digest = d.digest
  BY <1>3 DEF DispatchInv, HeldInv
<1>5. /\ d.request \in RequestSpace /\ d.phase = d.request.kind
      /\ d.connection = d.request.connection
      /\ d.digest = DispatchRequestDigest(d.request.kind, d.request)
  BY DEF DispatchInv, MadeInv
<1> HIDE DEF q
<1>6. /\ d.request.kind = held.phase
      /\ d.request.connection = held.request.connection
      /\ d.request.release = held.request.release
      /\ Same(d.request, q)
  <2>1. held.request \in RequestType
    BY <1>3 DEF DispatchType
  <2>2. DispatchRequestDigest(held.phase, held.request)
            = DispatchRequestDigest(d.request.kind, d.request)
    BY <1>3, <1>4, <1>5
  <2>3. ResultDigest(q) = ResultDigest(held.request)
    BY <1>1, <1>3
  <2>4. held.phase \in Precise /\ held.request.kind = held.phase
    BY <1>3
  <2>5. d.request \in RequestSpace
    BY <1>5
  <2> QED BY <2>1, <2>2, <2>3, <2>4, <2>5, <1>2, DigestsBind
<1>7. WorkAsDispatched'
  <2>1. d \in made'
    BY <1>1
  <2>2. /\ Same(d.request, done'.of) /\ d.phase = done'.dispatch.phase
        /\ d.connection = done'.dispatch.connection
        /\ d.request.release = done'.work.service.release
        /\ d.phase \in done'.work.service.declares
    BY <1>1, <1>3, <1>5, <1>6 DEF ServiceAccepts
  <2> QED BY <2>1, <2>2 DEF WorkAsDispatched
<1>8. DoneInv'
  BY <1>1, <1>2, <1>3 DEF DoneInv, WorkType, DispatchType
<1>9. MadeInv' /\ HeldInv' /\ WorkInv'
  BY <1>1 DEF DispatchInv, MadeInv, HeldInv, WorkInv
<1> QED BY <1>7, <1>8, <1>9 DEF DispatchInv

LEMMA DispatchInvAlways == DispatchSpec => []DispatchInv
<1>1. DispatchInit => DispatchInv
  BY DEF DispatchInit, DispatchInv, MadeInv, HeldInv, WorkInv, DoneInv, WorkAsDispatched
<1>2. DispatchInv /\ [DispatchNext]_dispatchVars => DispatchInv'
  <2> SUFFICES ASSUME DispatchInv, [DispatchNext]_dispatchVars PROVE DispatchInv'
    OBVIOUS
  <2>1. CASE UNCHANGED dispatchVars
    BY <2>1 DEF dispatchVars, DispatchInv, MadeInv, HeldInv, WorkInv, DoneInv,
                WorkAsDispatched
  <2> QED BY <2>1, MakeStep, PullStep, ServeStep, FinishStep DEF DispatchNext
<1> QED BY <1>1, <1>2, PTL DEF DispatchSpec

\* The state of dispatches keeps its types.
THEOREM DispatchTypeCorrect == DispatchSpec => []DispatchTypeOK
<1>1. DispatchInv => DispatchTypeOK
  BY DEF DispatchInv, MadeInv, HeldInv, WorkInv, DoneInv, DispatchTypeOK
<1> QED BY <1>1, DispatchInvAlways, PTL

\* What a runtime's result is accepted for was found for a request that the control
\* plane made for this phase, connection and release, with its numbers exact,
\* however the parts of stored dispatches were mixed and their numbers respelled
\* (Dispatch.Validate, the two services and their comparison of digests).
THEOREM ResultsAreForDispatches == DispatchSpec => []WorkAsDispatched
<1>1. DispatchInv => WorkAsDispatched
  BY DEF DispatchInv
<1> QED BY <1>1, DispatchInvAlways, PTL
===============================================================================
