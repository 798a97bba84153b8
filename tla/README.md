# TLA+ models of the Misconfig provider adapter SDK

The SDK is the library on both sides of the line between a control plane, which
governs agent sessions, and an adapter, which acts on a provider for it. It has
no main loop of its own. What makes it hard is what its callers may rely on when
messages are lost, copied or late, when two clocks differ, when an adapter is
restarted with another release, and when requests and rules were not built the
way the author of a check expected. This project states those promises in TLA+,
checks them with TLC on small instances and proves the ones that matter with
TLAPS for all sizes and all clock differences.

## 1. The system

| Component (source) | State it keeps | Operations | Module |
|---|---|---|---|
| Signed HTTP exchange (`http.go`, `Signature`, `VerifySignature`) | `HTTPHandler.seen` under `mu`; client and handler configuration | `HTTPClient.call`; `authenticate`, the handlers, `respond` | `SignedExchange`, `CallContract` |
| Typed actions (`protocol.go`) | none in the SDK; the authority travels with the request | `ActionDigest`, the `Validate` methods of the authority, both requests and both answers | `TypedAction`, `ActionContract` |
| Outbound dispatches, connection verification (`outbound.go`, `discovery_transport.go`, `connection_verification.go`) | the dispatch in hand; contexts and timers of one call | `Dispatch.Validate`, `DispatchRequestDigest`, `Dispatch.DiscoverResources`, `Dispatch.VerifyConnection` and the two services | `OutboundRuntime` (times), `DispatchBinding` (contents) |
| Discovery requests and pages (`discovery.go`) | none; the control plane retains the request | validation, digests with canonical numbers, page checks | `ResourceSelection`, `ExactNumbers` |
| Credential lifetimes (`credential_lifetime.go`) | none; the deadline travels with the request | checks before and after issuance, at both ends | `TaskLifetime` |
| Signed manifests, runtime registration (`manifest.go`, `outbound.go`) | the pinned manifest | `Manifest.Validate`, `Sign`, `Verify`, `RuntimeRegistration.Validate`, the release checks of `DiscoveryService` | `ReleaseAdmission` |
| Authorization rules (`constraints.go`, `capability_selection.go`, `Authorization`) | none (pure) | selector matching, intersection of ceilings, `CheckAuthorizationSupport` | `AuthorizationRules` |
| Parameter ceilings (`constraints.go`) | none (pure) | strict decoding, `ParameterLimits.Validate` and `Matches` | `ParameterCeilings`, `ExactNumbers` |
| Effect assessment (`assessment.go`, `policy_binding.go`) | none (pure) | `AssessCapabilityEffects`, `SimplePolicy.Assess` | `EffectAssessment` |
| Dispatch results (`outbound.go`) | none | field checks | not modelled |
| Renderer protocol (`protocol.go`) | none | data types | not modelled |

How they interact: a control plane calls `HTTPClient`, whose requests reach the
adapter's `HTTPHandler`; each request is authenticated and handed to the
adapter's implementation, which calls the `Validate` methods of the request. An
adapter that cannot be reached pulls dispatches instead and calls
`Dispatch.DiscoverResources` or `Dispatch.VerifyConnection` itself. A manifest's
release name and digest pin all of this: the headers, the bodies, the
capability digests and the discovery service name them. Signatures cover the
bodies, which carry the name; the headers, which carry both, travel unsigned.
Authorizations and
assessments are evaluated by both sides on values they have received.

Where the difficulty lies, and what is asked of each component:

- *Exchange.* One goroutine per request shares `seen`; the signature check reads
  the clock before the lock. The network loses, copies, delays and reorders.
  Correct means: a nonce is usable once per process, an old copy is of no use,
  memory is bounded, a call only accepts its own answer from a release of the
  name it signed, a request that was turned away can still be made, everybody
  gets out.
- *Typed actions.* Retries, upgrades and read-backs interleave. Correct means:
  only the approved payload runs, only while its authority lives, and a read-back
  with the approval's digest looks for that payload and no other.
- *Outbound dispatches.* A deadline is computed from a time argument, a
  monotonic clock and two timers that are started at different moments; what is
  stored as a dispatch may be put together from several. Correct means: nothing
  is accepted after lease, request or evidence have gone stale, and nothing that
  was not asked for.
- *Discovery.* The request a page is checked against has been through a
  database; the provider works from old readings, or badly. Correct means: a
  page is accepted only for its own request, an exact revalidation leaves no
  identity out and says nothing twice, and what is reported was so lately.
- *Credential lifetimes.* Time passes while a credential is minted, requests are
  sent again, issuers and pinned releases change, each with its own longest life.
  Correct means: no credential outlives its task.
- *Releases.* Manifests, digests and signatures arrive in any combination, and
  decoding changes numbers. Correct means: what is pinned, registered for and
  answered from is what the trusted publisher signed.
- *Rules, ceilings, assessment.* No concurrency; the hazard is an order of early
  returns, an absent field, a repeated key or a spelling of a number that makes
  something more permissive.

## 2. The modules

`SignedExchange` is the core. A call is its nonce (`randomNonce` draws a fresh
one), an *attempt* `<<c, k>>` is copy `k` of its request with the goroutine
that serves it. The clock `now` is the handler's; the client's is anywhere in
`now - Behind .. now + Ahead` at each read. The timestamp, the nonce and the body
of a copy are what its client signed (`Signature` covers nothing else). The
headers with the release's name and digest are not: `Arrive` picks the headers of
each copy and `Receive` the digest on a response freely, so that a changed one
may pass as well as an unchanged one. A manifest digest and a release name are
two values, and several digests may share a name, as nothing forbids. Its actions:

| Action | Code |
|---|---|
| `Send` | `HTTPClient.call` up to `client.Do`; the timestamp loses its fraction (`Wire`) |
| `Arrive` | `authenticate` before the lock: the copy's identity headers, then `VerifySignature` |
| `Check` | lock, purge of entries older than `Retention`, lookup (a replay unlocks and is refused) |
| `Record` | the second clock read, `seen[nonce] = now`, unlock |
| `Refuse`, `Perform`, `AdapterFails`, `Respond` | the handler after `authenticate`; the routes differ in whether they validate the value (`ActionCalls`) |
| `Receive`, `Fail` | what `call` makes of a response, of a timeout or of an error status |
| `Restart` | the process ends and `Handler()` starts with an empty map, maybe as another release |
| `Tick` | time; a goroutine that passed its signature check reaches the map within `MaxPause` |

`Check` and `Record` are apart because the code reads the clock twice and other
goroutines may send, arrive or finish in between; the lock is what keeps a
second `Check` out. `CallContract` is what a caller needs to know: at most one
run per process and call, success only after a run, one outcome. The refinement
maps attempts of the running process that ran the implementation to its workers.

`TypedAction` models an approval, its authority, the requests made with it and
the read-back. A request's fields are chosen freely, since the checks exist to
compare them; a digest is the tuple it is computed from, with the payload passed
through `Float` because `ActionDigest` decodes numbers to float64. The exchange
appears only by the promise `AdmissionTimely`: admission within `MaxDelay`.
A read-back (`Verify`) is bound by nothing but its own fields, as in
`VerifyActionRequest.Validate`: its caller picks payload and digest, may ask
before the approval or without any run, and the receipt need only be well formed.
So `ProofOfApproved` speaks of read-backs that carry the approval's digest, and
does not say that the action ran: somebody else may have brought the state about.
`ActionContract` is what is left of it for the control plane: no request has
another effect than the approved one, none has it twice, and a verdict, which is
a read-back with the approval's digest, says "verified" exactly if the approved
state was there when it was read. The refinement forgets the claims, the clock and
the stages; retries, upgrades, refusals and read-backs of something else are its
stutters.

`OutboundRuntime` follows one dispatch from the claim to acceptance. `base` is
the argument `now`, `startedAt` the monotonic clock's start, `deadline` the
earlier of the two timers. Both phases share it; the result checks differ in
`ResultTimely`. The context is looked at before the provider's call (in `Call`) and
after it (`CheckContext`). Evidence dates are arbitrary.

`DispatchBinding` is about the content of a dispatch. `Make` is the control
plane; `Pull` hands a runtime a dispatch whose phase, request, number and digest
may come from different ones; `Serve` is either method of `Dispatch` up to the
call of the provider, with the release checks of its service; `Finish` is the
comparison of digests when the provider returns something, maybe for another
request.

`ResourceSelection` follows discovery requests from the control plane to the
provider and back:

| Action | Code |
|---|---|
| `Ask` | the control plane makes and retains a request; `HTTPClient.DiscoverResources` validates it |
| `Take` | `handleDiscoverResources` reads the clock, the service calls `ValidateAt` |
| `AnswerHonestly`, `AnswerAnything` | the provider, which works from some reading of its inventory or is faulty; the service's `DiscoveryPage.Validate` lets the page go |
| `Accept` | the control plane's `DiscoveryPage.Validate`, against the request as the database gives it back |
| `Change`, `Tick` | the provider's resources; time |

Whether the provider is faulty is chosen at the start; a faulty one also dates its
pages as it likes. The request's configuration is one
number of `ExactNumbers`, which has literals as JSON spells them, the exact
comparison of `constraints.go` and the canonical spelling of `discovery.go`.

`TaskLifetime` follows sendings ("jobs") of issue requests. `Ask` is what the
source tree's README requires of a control plane: carry the deadline if the
pinned release declares the protocol, else ask only while the longest lease
fits. `Start` is `ValidateIssueLifetime` at the issuer, `Mint` the provider,
`Issue` and `Accept` are `ValidateIssuedLifetime` at both ends; `Install`
replaces the issuer, `Pin` the pinned release. A release is what its manifest's
`Credential` declares, a protocol and a `maximum_ttl_seconds`; the pinned one and
the issuer's may differ in both, and each end checks with its own. `handleIssue`
also compares release names; that check is left out because outbound issuers do
not pass it and a name does not determine what a release declares. What follows is
in `EndsWithTask`: without a deadline in the request, an issuer more generous than
the pinned release hands out what outlives the task, and only the control plane's
own check ("must still check the actual returned expiry") keeps it from use.

`ReleaseAdmission` has publishers that sign, a distribution that offers any
manifest with any digest and signature, a control plane that pins what `Verify`
accepts, runtimes that register and discovery services built from any manifest
and digest. A manifest is a record of what its validation and its users tell
apart. Its schema goes through `Float`, since decoding makes numbers float64.

`AuthorizationRules`, `ParameterCeilings` and `EffectAssessment` translate pure
functions and put around them the actors that change their arguments, so that a
property can compare before and after: an author who adds rules or edits a
ceiling, an agent that sends parameters, a publisher who declares features or
effects, a tenant who selects a preset. In `AuthorizationRules` a ceiling is the
set of objects it admits; `ParameterCeilings` looks inside one, over JSON texts
that keep what a decoder may refuse (repeated keys, exponents, spellings), and
states its properties with a meaning that uses none of the code's comparisons.

`MC...` modules give values to constants, `...Proofs` modules hold the proofs.
`MCPureChecks` joins the parts that have no clock and no process in one
behaviour space: `subject` picks the part a behaviour is about and the others
rest, so that their states add up and do not multiply.

## 3. The runs

| Run | Question | Result |
|---|---|---|
| `exchange_replay` | two copies with any headers, clock difference, pause, upgrade: `AtMostOnce`, `NonceRemembered`, `PinnedRelease`, `AdmissionTimely`, `OnlyReplaysRefused`, `ImplementsContract` | holds |
| `exchange_two_calls` | two calls of two copies: `SeenBounded`, `AnswerBinding`; `CopiesFinish` under `FairSpec` | holds |
| `exchange_retention` | `AtMostOnce` when the client's clock is two minutes ahead | violated, finding 1 |
| `exchange_restart` | `ReplayFailsClosed`, as the README states it | violated, finding 2 |
| `action_binding` | `RunsWhatWasApproved`, `ProofOfApproved`, `ImplementsActionContract` with upgrades, retries, drift and read-backs of anything | holds |
| `action_times` | `ExpiryRespected`, `UsableOnlyLate` with clock difference and delays | holds |
| `action_digest` | `RunsWhatWasApproved` when two numbers are one float64 | violated, finding 3 |
| `action_expiry` | `ExpiryRespected` when a request is sent again unchanged | violated, finding 4 |
| `runtime_deadlines` | `LeaseRespected`, `RequestStillFresh`, `EvidenceCurrent`, `CallBounded` | holds |
| `resource_selection` | two requests, a provider that works from old readings or returns anything, respelled configurations: `ExactlyClassified`, `OwnAnswer`, `StorageKeepsIdentity`, `ReportedLately` | holds |
| `task_lifetime` | one request sent twice, replaced issuers and releases with lives of their own: `EndsWithTask`, `LifeBounded`, `IssuedWhileFresh` | holds |
| `pure_checks` | rules: `CeilingsIntersect`, `AddedRuleNeverWidens`, `LegacyAgrees`, `NothingDropped`; ceilings: `EveryReaderBelow`, `SpellingStable`, `NarrowingHolds`; effects: `NoRelaxingEffect`, `NoRelaxingPreset`, `NothingSlipsThrough`; releases: `RunsSignedArtifact`, `AnswersForOneCapability`; dispatches: `WorkAsDispatched` | holds |

Every property of a passing run has a mutant: an operator next to the one it
replaces, with a plausible mistake in it (a purge that is too eager, a lookup
outside the lock, a return without unlock, a nonce noted too early),
under which TLC finds the property violated.

### Bounds

- *exchange_replay.* Half-minute units: window 4, retention 6 as in the code,
  clocks one unit apart, a pause of one unit, timestamps rounded to two units,
  time up to 7, which is past the end of the window and of the retention of what
  is sent at 0. One call and two copies suffice for replay: nonces only meet in
  the map when they are equal. Two lives give one upgrade at any point; of three
  manifests two share their release name. Copies are symmetric.
- *exchange_two_calls.* Two calls of two copies compete for the lock, and their
  responses can be swapped; one call goes to a validating route, one to another.
  Time has two instants and window and retention are 0: what happens in one
  instant is simultaneous, and in the next everything has expired, so the purge
  and the refusal of an old timestamp both occur. There is one manifest and no
  restart; bodies may name another release.
- *exchange_retention, exchange_restart.* Minute units (window 2, retention 3).
  The counterexamples need the clock to run to 5 and one restart respectively.
- *action_binding.* Two releases, two payloads, two requests and one read-back for
  one action, all fields and digests free, in one instant. *action_times.* One release and payload, lifetimes up to
  nearly twice the accepted maximum, all delays one unit, time past every expiry.
- *runtime_deadlines.* One dispatch (they share nothing), leases and ages of 2
  or 3 units, evidence dated anywhere from before the start to after the end.
- *resource_selection.* Two requests, because a page can be delivered to the
  wrong one: the first asks about one identity or two, or searches with or
  without a cursor, the second repeats the question about one identity. The first
  is made up to time 2, the second at 0, time ends at 3, pages live for 2 units.
  One resource comes or goes once. The adapter's clock is up to one unit ahead and
  not behind; the proof covers every difference. A faulty page has up to two
  identities in each list and the earliest or the latest date that can pass. Configurations are 250 and -0.0, and the database may
  make of them 2.50e2, 25, -250, 250e-1 or 0.
- *task_lifetime.* One request (requests share nothing but the deadline), two
  sendings, four releases: two without the protocol, of longest lives 2 and 3, one
  with it, of 3, and one with a newer one, of 2. Credentials live up to 4, requests are fresh for 2, time ends at 4 and
  both clocks are one unit apart either way, so that every limit is reached.
- *pure_checks.* Effects: no bound, every set of the eight effects, a word that
  is none, and a missing declaration. Rules: pairs, since each property compares
  one rule with the rest or one list with a longer one; wildcard and named
  operations, every form of resource selection, four capability selections, three
  kinds of ceiling, blank and repeated identities of rules. Ceilings: one field with every kind of bound and allowed
  value, a second one that is structured, nine spellings of six numbers, keys
  that repeat. Releases: eight valid manifests and one or more for every rule of
  `Manifest.Validate`, two signatures. Dispatches: two at a time out of six
  requests, and four services.

`CHECK_DEADLOCK FALSE` appears where the system may stop: when every call has
ended, every dispatch is settled or the clock has reached its bound.

### Fairness

Liveness is claimed only for the exchange. `FairSpec` assumes that a goroutine
whose next step is enabled takes it (the Go scheduler and `sync.Mutex`, whose
starvation mode serves waiters in turn; the adapter's implementation gets the
request's context and is assumed to return). Arrival of copies, the return of
calls (a client that its caller supplies may have no timeout), restarts and the
clock are not assumed to happen.

## 4. What is proved

| Theorem | Establishes | Assumes |
|---|---|---|
| `SignedExchangeProofs`: `TypeCorrect`, `AdmittedInTime`, `SeenStaysBounded`, `ReleasePinned`, `AnswerBound`, `ReplaysOnly` | the properties of the same subject | constants as declared |
| `NonceServedOnce`, `NonceStaysKnown`, `ContractImplemented` | `AtMostOnce`, `NonceRemembered`, `ImplementsContract` | `RetentionCovers`: `Window + Ahead + MaxPause <= Retention` |
| `TypedActionProofs`: `ApprovedRuns`, `ProofMeansApproved`, `ActionsImplementContract` | `RunsWhatWasApproved`, `ProofOfApproved`, `ImplementsActionContract` | `ExactNumbers`: `Float` is injective |
| `ExpiryHolds`; `LateUse` | `ExpiryRespected`; `UsableOnlyLate` | requests are not sent again unchanged; nothing |
| `OutboundRuntimeProofs`: `LeaseHolds`, `RequestFreshness`, `EvidenceFreshness`, `CallTime` | the four deadline properties | constants as declared |
| `ExactNumbersProofs`: `SameSpellingSameNumber`, `SameNumberSameSpelling`; `ComparisonOrders` | `Canonical` gives two literals one spelling exactly if `Compare` finds them equal; `Compare` is a total order | nothing |
| `ResourceSelectionProofs`: `PartitionsRequest`, `PagesAreOwn`, `StorageIsHarmless`, `ReportsAreLate` | `ExactlyClassified`, `OwnAnswer`, `StorageKeepsIdentity`, `ReportedLately` | constants as declared |
| `TaskLifetimeProofs`: `CredentialsEndWithTask`, `LivesAreBounded`, `FreshAtIssue` | `EndsWithTask`, `LifeBounded`, `IssuedWhileFresh` | constants as declared |
| `ParameterCeilingsProofs`: `ReadersStayBelow`, `SpellingIsStable`, `NarrowingIsSound` | `EveryReaderBelow`, `SpellingStable`, `NarrowingHolds` | constants as declared |
| `PureChecksProofs`: `RuntimesAreSigned`, `OneCapabilityAnswers` | `RunsSignedArtifact`, `AnswersForOneCapability` | ideal digests and signatures |
| `ResultsAreForDispatches` | `WorkAsDispatched` | ideal digests |
| `CeilingsAlwaysIntersect`, `RulesNeverWiden`, `LegacyNeverWider`, `SupportedArriveWhole`; `EffectsNeverRelax`, `PresetsNeverRelax`, `WatchedAlways` | the properties of `AuthorizationRules` and `EffectAssessment` | constants as declared |

`RetentionCovers` is the result of the exchange's proof: with the code's two and
three minutes it leaves one minute for the client's lead and the pauses.
`exchange_retention` shows that a greater lead breaks the property.

*The exchange's invariant.* `AtMostOnce` is not inductive: it says nothing of
the map. The strengthening relates every admitted attempt of the running process
to the map (`MemoryInv`: its nonce is there, or its timestamp has left the window
for good), an entry of the map to the time its request was sent (`SeenInv`), that
to the timestamp the request carries (`StampInv`), and a signature check to the
clock (`PauseInv`). A goroutine between lookup and record is alone (`LockInv`) and
is the first of its nonce (`FirstInv`), so what it admits keeps `OnceInv`, which
is `AtMostOnce` over pairs of attempts. The purge step is the one that needs
`RetentionCovers`: what it removes is older than any timestamp a goroutine that
is still on its way can have been checked with. The refinement proof maps
`Perform` to `Run`, `Restart` to `Forget`, `Receive` and `Fail` to `Return`, and
uses the invariant to show that no other attempt has run before. `ReleasePinned`
and `AnswerBound` rest on `ServedInv`: a goroutine past its checks came with the
headers of the process that serves it, whoever wrote them; that its body names
the same release is the guard of `Perform`. `ReplaysOnly` needs only `NonceInv`: every
nonce in the map was admitted by the running process.

*Typed actions.* `RunningInv` says what a running request has been validated
against, which holds while the process that validated it lives; `RanInv` keeps
of it what stays true afterwards. The three delays add up along sending,
validation and run. For the refinement, `Execute` maps to `Run` because the
request was validated by the release that still runs. `Verify` maps to `Judge` if
the read-back carries the approval's digest, because digests tell payloads apart
(`ReadsTheApproved`), and to a stutter if not; a read-back taken before the
approval stays none of its verdicts.

*Outbound dispatches.* The invariant bounds, stage by stage, the distance of
`base`, `startedAt` and `deadline` from `now` by the pauses made so far.

*Discovery.* `DiscoveryPage.Validate` counts distinct identities and looks for
each requested one among them. `CoversExactly` shows that this makes the page a
partition of the request: the distinct identities of a list without repetitions
are as many as it is long, and a set that contains another of the same
cardinality is that set. `PageInv` and `AcceptedInv` carry what the digest binds
from a page to the request it is accepted for. `ReportsAreLate` needs
`HonestInv`, that a page's date is at most `Ahead` after a time at which the
provider had what the page says, and that histories only grow.

*Credential lifetimes.* `AskedInv` is the point of the two modes: a request
either carries the task's deadline or the pinned release's whole lease fits before
it. `ExpiryInv` carries along the check after issuance, with the issuer's longest
life, and the one at acceptance, with the pinned release's, and `JobInv` bounds the time between
request and minting from below, whence `LifeBounded`.

*Releases.* The invariant is the two properties together with what `Verify` says
of the pinned manifest (`AdmittedInv`): what is registered for and answered from
was pinned when it was, and signatures are never withdrawn.

*Dispatches.* The invariant says where each part of a pulled dispatch comes from
and what was checked before the provider was called. The digest carries the kind
of the request it was made for, and a request's kind is the phase, so a digest
that matches in a phase with exact numbers was itself made with exact numbers,
although other phases round theirs. From there `Canonical` is the link from the
result to the dispatch as it was made.

*Numbers.* What the functions over digits and powers of ten compute for every
literal takes an induction. The library's induction theorems cannot be used with
the installed provers, so `Descent` replaces them: a set of natural numbers in
which every member has a smaller one is empty, which follows from the
well-foundedness of `<`. `Recursion` derives from it that a function defined by
recursion over an interval exists and obeys its equation. `MantissaTyped`,
`CompareInUnits` (comparison does not depend on the unit) and
`CanonicalInUnits` (the canonical spelling has the same value) give one
direction, `DigitsUnique` (digits are determined by the number they spell) and
`NormalScale` (two canonical spellings of one number have the same exponent) the
other. The theorem is about integers: exponents that `readParameterValue` lets
through stay far from the bounds of Go's `int`.

*Ceilings.* A value's meaning uses none of the code's comparisons: numbers are
counts of a unit that no literal is finer than. `Admits` is shown to depend on
the meaning of its arguments only. For objects this needs that one whose keys do
not repeat has as many keys as members (`CountKeys`), since `parameterEqual`
compares lengths and then looks for each key of one object in the other.

*Only model-checked.* `CopiesFinish`: liveness under fairness is outside the
prover's reach. Every other property of a passing run is proved.

## 5. Findings

1. *Nonces are forgotten too early* (`http.go:242`). Timestamps are accepted
   over four minutes, from two before to two after the handler's clock; nonces
   are kept for three. A client more than one minute ahead can have a delayed
   copy of its request served twice. Keeping nonces for `2 * Window` plus the
   pause would close the gap whatever the client's clock.
2. *Restarts* (`http.go:160`). The README's "replayed nonces ... fail closed"
   is true of one process, not of an adapter that restarts within the window.
3. *Action digests round numbers* (`protocol.go:40`). Parameters that differ by
   less than a float64 can tell share a digest; the comment above the function
   rules substitution out. `DispatchRequestDigest` keeps numbers exact.
4. *Expiry by the request's own clock* (`protocol.go:278`). Nothing compares an
   action request's `Now` with the adapter's clock, so an old request stays
   valid after its authority has expired.

## 6. What is not modelled

SHA-256, HMAC and Ed25519 are assumed free of collisions and forgeries: a digest
is the value it is computed from. The form of names, URLs, dates and texts, sizes
in bytes, limits on counts and on depth and the schema language are left out, or
are one flag ("malformed"); JSON texts appear only where a property is about them.

`DispatchResult.Validate` checks the fields of one message, and nothing in the
source compares a result with the dispatch or the claim it is for: claims, their
expiry and their replacement are the control plane's. The renderer protocol is
data types without code that runs on them. An adapter's use of an authority's ID
is the adapter's: no line says what it has to remember. That a read-back's receipt
belongs to a run is nobody's check in the source. A search of resources may
run in circles, since only an immediate repetition of a cursor is refused;
nothing promises that it ends.

The control plane, the provider, the database, the network and the distribution
of releases are not in this repository; where the models need them they are
actions that may do anything their interface allows.

## 7. Plan

1. Proofs: an abstract specification of discovery, from question to accepted
   page, that `ResourceSelection` implements.
2. `ParameterCeilings` composed with `AuthorizationRules`: the ceilings of rules
   as ceilings, and their intersection over parameter texts.
3. Composition of `TypedAction` with the exchange: `MaxDelay` taken from
   `AdmissionTimely`, and retries that share an authority.
