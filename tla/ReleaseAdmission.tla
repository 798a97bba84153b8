---------------------------- MODULE ReleaseAdmission ----------------------------
(***************************************************************************)
(* From a publisher's signature to what runs (src/manifest.go,             *)
(* RuntimeRegistration of src/outbound.go, the release checks of           *)
(* DiscoveryService in src/discovery_transport.go).                        *)
(*                                                                         *)
(* Publishers sign manifests; a distribution that nobody trusts offers     *)
(* manifests, digests and signatures in any combination; the control plane *)
(* admits what it can verify and pins it; outbound runtimes register for   *)
(* the pinned release, and a discovery service answers for it.             *)
(*                                                                         *)
(* A manifest is a record of what its validation and its users tell apart; *)
(* "malformed" stands for every name, URL, digest or schema of the wrong   *)
(* form.  Its digest is the manifest itself and a signature the pair of    *)
(* key and manifest.  Schemas are decoded into interfaces, so their        *)
(* numbers become float64 on the way (Float).                              *)
(***************************************************************************)
EXTENDS Integers, Sequences, FiniteSets

CONSTANTS
    Nil,            \* nil
    SigningKeys,    \* publishers' keys
    Trusted,        \* the publisher the tenant trusts: [publisher, key]
    ManifestSpace,  \* bound: manifests
    Float,          \* what becomes of each schema when it is decoded
    Providers, Releases, Artifacts, Actions  \* what registrations and requests name

-----------------------------------------------------------------------------
(* Manifests. *)

\* The maps that Validate uses to refuse what it has seen before.
Unique(names) == \A i, j \in DOMAIN names : names[i] = names[j] => i = j

\* The names that a field of a list's entries holds.  (A runtime artifact's name is
\* its kind and reference, a renderer artifact's its operating system and
\* architecture; "reference" and "platform" stand for the pairs.)
Names(entries, field) == [i \in DOMAIN entries |-> entries[i][field]]

\* Broker.TransportMode.
TransportMode(broker) ==
    IF broker.transport = "" THEN "inbound-https" ELSE broker.transport

ValidBroker(broker) ==
    /\ broker.verification \in {"", "v1"}
    /\ broker.verification # "" => TransportMode(broker) = "outbound-pull"
    /\ \/ /\ TransportMode(broker) = "inbound-https"
          /\ broker.endpoint /\ broker.artifacts = <<>>
       \/ /\ TransportMode(broker) = "outbound-pull"
          /\ ~ broker.endpoint /\ broker.artifacts # <<>>
          /\ Unique(Names(broker.artifacts, "reference"))

ValidCredential(credential, renderer) ==
    /\ credential.lifetime \in {"", "v1"}
    /\ Unique(credential.features)
    /\ renderer.artifacts # <<>>
    /\ Unique(Names(renderer.artifacts, "platform"))
    /\ Unique(renderer.environment)

\* Mutant: actions are told apart by all they say, not by their reference.
ValidManifestLoose(m) ==
    /\ ~ m.malformed
    /\ (m.credential = Nil) = (m.renderer = Nil)
    /\ m.credential # Nil => ValidCredential(m.credential, m.renderer)
    /\ ValidBroker(m.broker)
    /\ Unique(m.actions)
    /\ m.credential # Nil \/ m.actions # <<>>

\* Manifest.Validate.
ValidManifest(m) ==
    /\ ~ m.malformed
    /\ (m.credential = Nil) = (m.renderer = Nil)
    /\ m.credential # Nil => ValidCredential(m.credential, m.renderer)
    /\ ValidBroker(m.broker)
    /\ Unique(Names(m.actions, "ref"))
    /\ m.credential # Nil \/ m.actions # <<>>

\* json.Unmarshal of a manifest.
Decoded(m) == [m EXCEPT !.schema = Float[@]]

\* Verify, of a decoded SignedManifest.
Verify(manifest, digest, signature) ==
    /\ manifest.publisher = Trusted.publisher
    /\ ValidManifest(manifest)
    /\ digest = manifest
    /\ signature = <<Trusted.key, manifest>>

-----------------------------------------------------------------------------
(* Users of an admitted manifest. *)

\* Mutant: a registration is matched by provider and release name.
RegistersByName(registration, manifest, digest) ==
    /\ TransportMode(manifest.broker) = "outbound-pull"
    /\ registration.provider = manifest.provider
    /\ registration.release = manifest.release
    /\ \E i \in DOMAIN manifest.broker.artifacts :
         manifest.broker.artifacts[i].digest = registration.artifact

\* RuntimeRegistration.Validate.
Registers(registration, manifest, digest) ==
    /\ TransportMode(manifest.broker) = "outbound-pull"
    /\ registration.provider = manifest.provider
    /\ registration.release = manifest.release
    /\ registration.digest = digest
    /\ \E i \in DOMAIN manifest.broker.artifacts :
         manifest.broker.artifacts[i].digest = registration.artifact

\* DiscoveryService.Validate, of a service made from a manifest and the digest of
\* its enrollment.
ServiceValid(manifest, digest) ==
    /\ ValidManifest(manifest) /\ digest = manifest
    /\ \E i \in DOMAIN manifest.actions : manifest.actions[i].discovery

\* The first action with the reference, where DiscoverResources ends its search.
Found(manifest, ref) ==
    CHOOSE i \in DOMAIN manifest.actions :
        /\ manifest.actions[i].ref = ref
        /\ \A j \in 1..(i - 1) : manifest.actions[j].ref # ref

-----------------------------------------------------------------------------
VARIABLES
    signed,    \* the signatures publishers have made
    admitted,  \* the manifest the control plane has pinned
    runtime,   \* the registration it last accepted
    answer     \* the manifest and the capability of the last discovery

releaseVars == <<signed, admitted, runtime, answer>>

RegistrationType ==
    [provider : Providers, release : Releases, digest : ManifestSpace,
     artifact : Artifacts]

ReleaseTypeOK ==
    /\ signed \subseteq SigningKeys \X ManifestSpace
    /\ admitted \in ManifestSpace \cup {Nil}
    /\ runtime \in RegistrationType \cup {Nil}
    /\ answer \in [manifest : ManifestSpace, capability : Actions] \cup {Nil}

ReleaseInit == signed = {} /\ admitted = Nil /\ runtime = Nil /\ answer = Nil

\* Sign.  Bound: two signatures.
Sign(key, m) ==
    /\ \A s, t \in signed : s = t
    /\ ValidManifest(m)
    /\ signed' = signed \cup {<<key, m>>}
    /\ UNCHANGED <<admitted, runtime, answer>>

\* The control plane gets a signed manifest in whatever state, decodes and verifies
\* it.
Admit(m, digest, signature) ==
    /\ Verify(Decoded(m), digest, signature)
    /\ admitted' = Decoded(m)
    /\ UNCHANGED <<signed, runtime, answer>>

\* A runtime registers with the control plane.
Register(registration) ==
    /\ admitted # Nil
    /\ Registers(registration, admitted, admitted)
    /\ runtime' = registration
    /\ UNCHANGED <<signed, admitted, answer>>

\* A service that may have been made from any manifest and digest is asked for a
\* capability of the pinned release: the release checks of
\* DiscoveryService.DiscoverResources and, of DiscoveryRequest.Validate, those of
\* the capability's digest and its discovery.
Discover(manifest, digest, capability) ==
    /\ admitted # Nil
    /\ \E i \in DOMAIN admitted.actions : admitted.actions[i] = capability
    /\ ServiceValid(manifest, digest)
    /\ admitted.provider = manifest.provider
    /\ admitted.release = manifest.release
    /\ admitted = digest
    /\ \E i \in DOMAIN manifest.actions : manifest.actions[i].ref = capability.ref
    /\ manifest.actions[Found(manifest, capability.ref)] = capability
    /\ capability.discovery
    /\ answer' = [manifest |-> manifest, capability |-> capability]
    /\ UNCHANGED <<signed, admitted, runtime>>

ReleaseNext ==
    \/ \E key \in SigningKeys, m \in ManifestSpace : Sign(key, m)
    \/ \E m, digest \in ManifestSpace, signature \in signed : Admit(m, digest, signature)
    \/ \E registration \in RegistrationType : Register(registration)
    \/ \E manifest, digest \in ManifestSpace, capability \in Actions :
         Discover(manifest, digest, capability)

ReleaseSpec == ReleaseInit /\ [][ReleaseNext]_releaseVars

-----------------------------------------------------------------------------
(* Properties. *)

SignedByTrusted(m) ==
    /\ <<Trusted.key, m>> \in signed
    /\ m.publisher = Trusted.publisher

\* RuntimeArtifact: the control plane "accepts registration only for an exact signed
\* digest".  A registered runtime, also one that has outlived a change of the pinned
\* release, runs an artifact of the signed outbound release it names.
RunsSignedArtifact ==
    runtime # Nil =>
        /\ SignedByTrusted(runtime.digest)
        /\ runtime.digest.provider = runtime.provider
        /\ runtime.digest.release = runtime.release
        /\ TransportMode(runtime.digest.broker) = "outbound-pull"
        /\ \E i \in DOMAIN runtime.digest.broker.artifacts :
             runtime.digest.broker.artifacts[i].digest = runtime.artifact

\* Discovery is answered by a service whose manifest was signed, and by the one
\* capability of that manifest that the request can mean.
AnswersForOneCapability ==
    answer # Nil =>
        /\ SignedByTrusted(answer.manifest)
        /\ Cardinality({i \in DOMAIN answer.manifest.actions :
                          answer.manifest.actions[i].ref = answer.capability.ref}) = 1
=============================================================================
