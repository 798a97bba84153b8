SPECIFICATION ChecksSpec
CONSTANTS
    Absent = Absent
    Unset = Unset
    Nothing = Nothing
    CeilingSpace <- MCCeilingSpace
    RawSpace <- MCRawSpace
    Configs <- MCConfigs
    Rounded <- MCRounded
    RequestSpace <- MCRequestSpace
    Services <- MCServices
    op1 = op1
    op2 = op2
    r1 = r1
    r2 = r2
    badID = badID
    prefix = prefix
    Operations = {op1, op2}
    Resources = {r1, r2}
    Prefixes = {prefix}
    RuleIDs = {"i", "j"}
    Blank = ""
    MalformedIDs = {badID}
    Under <- MCUnder
    Capabilities <- MCCapabilities
    Malformed <- MCMalformed
    NoCapability <- none
    Parameters <- MCParameters
    RuleSpace <- MCRuleSpace
    ScopeSpace <- MCScopeSpace
    Missing = Missing
    MaxExponent = 2
    Precision = 2
    key1 = key1
    key2 = key2
    Nil = Nil
    SigningKeys <- MCKeys
    Trusted <- MCTrusted
    ManifestSpace <- MCManifestSpace
    Float <- MCFloat
    Providers = {"prov"}
    Releases = {"r1", "r2"}
    Artifacts = {"d1", "d2"}
    Actions <- MCActions
CHECK_DEADLOCK FALSE
INVARIANTS CeilingsIntersect LegacyAgrees NothingDropped EveryReaderBelow RunsSignedArtifact AnswersForOneCapability WorkAsDispatched NothingSlipsThrough
PROPERTIES AddedRuleNeverWidens SpellingStable NarrowingHolds NoRelaxingEffect NoRelaxingPreset
