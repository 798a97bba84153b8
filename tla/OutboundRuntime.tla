---------------------------- MODULE OutboundRuntime ----------------------------
(***************************************************************************)
(* An outbound adapter runtime works on dispatches it has pulled from the  *)
(* control plane (src/outbound.go): Dispatch.DiscoverResources with        *)
(* DiscoveryService (src/discovery_transport.go, src/discovery.go) and     *)
(* Dispatch.VerifyConnection with ConnectionVerificationService            *)
(* (src/connection_verification.go).                                       *)
(*                                                                         *)
(* Both take the current time as an argument, check the dispatch and the   *)
(* request against it, turn what is left of the dispatch's lease and of    *)
(* the request's age into timers of the provider's context, call the       *)
(* provider, look at the context and validate the result at the argument   *)
(* plus the time since the call.  The model keeps the moments at which     *)
(* these clocks are read apart.                                            *)
(*                                                                         *)
(* Time is the runtime's clock; the control plane's differs by at most     *)
(* Ahead or Behind, and a provider's observation time is anything at all.  *)
(***************************************************************************)
EXTENDS Integers

CONSTANTS
    Dispatches,   \* dispatches the runtime claims
    MaxLease,     \* bound: longest ExpiresAt - ClaimedAt the control plane gives
    DiscoveryAge, \* capability.Discovery.MaximumAgeSeconds
    VerifyAge,    \* connectionVerificationAge (one minute)
    Slack,        \* accepted clock difference (30 seconds)
    Ahead,        \* how far the control plane's clock may be ahead
    Behind,       \* how far it may be behind
    MaxPause,     \* longest pause of the goroutine between two clock reads
    MaxTime       \* bound: the clock stops here

ASSUME LimitAssumption ==
    /\ MaxLease \in Nat /\ DiscoveryAge \in Nat /\ VerifyAge \in Nat
    /\ Slack \in Nat /\ Ahead \in Nat /\ Behind \in Nat
    /\ MaxPause \in Nat /\ MaxTime \in Nat

Stages == {"queued",    \* not claimed yet
           "claimed",   \* the runtime holds the dispatch
           "valid",     \* dispatch and request passed their checks
           "calling",   \* the provider's implementation runs
           "returned",  \* it returned a result
           "inTime",    \* the provider's context had not expired
           "accepted",  \* the result was returned to the caller
           "refused"}   \* an error was

VARIABLES
    now,         \* the runtime's clock
    pc,          \* stage of each dispatch
    phase,       \* Dispatch.Phase
    requestedAt, \* request.Now, by the control plane's clock
    expiresAt,   \* Dispatch.ExpiresAt, by the control plane's clock
    base,        \* the argument now of Dispatch.DiscoverResources
    startedAt,   \* started := time.Now()
    deadline,    \* when the context given to the provider expires
    seenAt,      \* last time the goroutine looked at a clock or timer
    observedAt,  \* page.ObservedAt or result.VerifiedAt
    acceptedAt   \* when the result was accepted (history)

requestVars == <<phase, requestedAt, expiresAt>>
callVars    == <<startedAt, deadline>>
vars == <<now, pc, requestVars, base, callVars, seenAt, observedAt, acceptedAt>>

\* The phases the two services work on; each refuses the other's.
Phases == {"discover_resources", "verify_connection"}

Discovers(d) == phase[d] = "discover_resources"

Age(d) == IF Discovers(d) THEN DiscoveryAge ELSE VerifyAge

TypeOK ==
    /\ now \in Nat
    /\ pc \in [Dispatches -> Stages]
    /\ phase \in [Dispatches -> Phases]
    /\ requestedAt \in [Dispatches -> Int]
    /\ expiresAt \in [Dispatches -> Int]
    /\ base \in [Dispatches -> Nat]
    /\ startedAt \in [Dispatches -> Nat]
    /\ deadline \in [Dispatches -> Int]
    /\ seenAt \in [Dispatches -> Nat]
    /\ observedAt \in [Dispatches -> Int]
    /\ acceptedAt \in [Dispatches -> Nat]

Init ==
    LET zero == [d \in Dispatches |-> 0]
    IN  /\ now = 0
        /\ pc = [d \in Dispatches |-> "queued"]
        /\ phase \in [Dispatches -> Phases]
        /\ requestedAt = zero /\ expiresAt = zero /\ base = zero
        /\ startedAt = zero /\ deadline = zero /\ seenAt = zero
        /\ observedAt = zero /\ acceptedAt = zero

Goto(d, stage) == pc' = [pc EXCEPT ![d] = stage]

\* The control plane makes the request and hands out the claim; both times are
\* its own, and the request may have waited before it was claimed.
Claim(d) ==
    /\ pc[d] = "queued"
    /\ \E t \in (now - Behind) .. (now + Ahead), lease \in 0 .. MaxLease,
          wait \in 0 .. Age(d) :
        /\ requestedAt' = [requestedAt EXCEPT ![d] = t - wait]
        /\ expiresAt' = [expiresAt EXCEPT ![d] = t + lease]
    /\ Goto(d, "claimed")
    /\ UNCHANGED <<now, phase, base, callVars, seenAt, observedAt, acceptedAt>>

\* Dispatch.Validate's lifetime check.
Unexpired(d, t) == expiresAt[d] > t

\* Mutant: requests dated in the future are accepted.
FreshOrFuture(d, t) == requestedAt[d] + Age(d) > t

\* The time checks of DiscoveryRequest.ValidateAt and of
\* ValidateConnectionVerificationRequest.
Fresh(d, t) == requestedAt[d] <= t + Slack /\ requestedAt[d] + Age(d) > t

\* The caller reads the clock; every check that follows uses that value.
Validate(d) ==
    /\ pc[d] = "claimed"
    /\ Goto(d, IF Unexpired(d, now) /\ Fresh(d, now) THEN "valid" ELSE "refused")
    /\ base' = [base EXCEPT ![d] = now]
    /\ seenAt' = [seenAt EXCEPT ![d] = now]
    /\ UNCHANGED <<now, requestVars, callVars, observedAt, acceptedAt>>

\* What is left, as of base, of the lease and of the request's age.
LeaseLeft(d) == expiresAt[d] - base[d]
AgeLeft(d) == requestedAt[d] + Age(d) - base[d]

Earlier(s, t) == IF s < t THEN s ELSE t

\* Dispatch.DiscoverResources starts the timer of the lease; the service looks at
\* the context (looked), reads the clock (started), starts the timer of the
\* request's age and calls the provider with a context that ends with the earlier
\* of the two.
Call(d) ==
    /\ pc[d] = "valid"
    /\ \E lease \in base[d] .. now : \E looked \in lease .. now :
        IF looked < lease + LeaseLeft(d)
        THEN /\ Goto(d, "calling")
             /\ \E started \in looked .. now : startedAt' = [startedAt EXCEPT ![d] = started]
             /\ deadline' = [deadline EXCEPT
                     ![d] = Earlier(lease + LeaseLeft(d), now + AgeLeft(d))]
        ELSE Goto(d, "refused") /\ UNCHANGED callVars
    /\ UNCHANGED <<now, requestVars, base, seenAt, observedAt, acceptedAt>>

\* The provider returns a result that binds the request, dated as it likes.
\* Nothing forces it to return before its context expires.
Return(d) ==
    /\ pc[d] = "calling"
    /\ \E t \in -Slack .. (MaxTime + Slack + 1) :
        observedAt' = [observedAt EXCEPT ![d] = t]
    /\ Goto(d, "returned")
    /\ UNCHANGED <<now, requestVars, base, callVars, seenAt, acceptedAt>>

\* The provider returns an error, or the caller's own context is cancelled and
\* one of the two looks at it finds that.
ProviderFails(d) ==
    /\ pc[d] \in {"valid", "calling", "returned"}
    /\ Goto(d, "refused")
    /\ UNCHANGED <<now, requestVars, base, callVars, seenAt, observedAt, acceptedAt>>

\* Mutant: the context is not looked at after the call.
CheckNothing(d) ==
    /\ pc[d] = "returned"
    /\ Goto(d, "inTime")
    /\ seenAt' = [seenAt EXCEPT ![d] = now]
    /\ UNCHANGED <<now, requestVars, base, callVars, observedAt, acceptedAt>>

\* ctx.Err() after the call.
CheckContext(d) ==
    /\ pc[d] = "returned"
    /\ Goto(d, IF now < deadline[d] THEN "inTime" ELSE "refused")
    /\ seenAt' = [seenAt EXCEPT ![d] = now]
    /\ UNCHANGED <<now, requestVars, base, callVars, observedAt, acceptedAt>>

\* Mutant: the result is validated at the time the request was.
ResultClockStopped(d) == base[d]

\* now.Add(time.Since(started)): the argument moved on by a monotonic clock.
ResultClock(d) == base[d] + (now - startedAt[d])

\* Mutant: only the request's age is checked, not the evidence's.
RequestTimely(d, t) ==
    observedAt[d] <= t + Slack /\ requestedAt[d] + Age(d) > t

\* The time checks of DiscoveryPage.Validate and of
\* ConnectionVerificationResult.Validate.
ResultTimely(d, t) ==
    /\ observedAt[d] <= t + Slack
    /\ requestedAt[d] + Age(d) > t
    /\ IF Discovers(d)
       THEN requestedAt[d] <= t + Slack /\ observedAt[d] + Age(d) > t
       ELSE observedAt[d] >= requestedAt[d] - Slack

Accept(d) ==
    /\ pc[d] = "inTime"
    /\ IF ResultTimely(d, ResultClock(d))
       THEN Goto(d, "accepted") /\ acceptedAt' = [acceptedAt EXCEPT ![d] = now]
       ELSE Goto(d, "refused") /\ UNCHANGED acceptedAt
    /\ UNCHANGED <<now, requestVars, base, callVars, seenAt, observedAt>>

\* Between two looks at a clock or timer a goroutine computes, for at most
\* MaxPause; while it waits for the provider it may wait forever.
Computing(d) == pc[d] \in {"valid", "inTime"}

Tick ==
    /\ now < MaxTime
    /\ \A d \in Dispatches : Computing(d) => now < seenAt[d] + MaxPause
    /\ now' = now + 1
    /\ UNCHANGED <<pc, requestVars, base, callVars, seenAt, observedAt, acceptedAt>>

Next ==
    \/ \E d \in Dispatches :
        \/ Claim(d) \/ Validate(d) \/ Call(d) \/ Return(d) \/ ProviderFails(d)
        \/ CheckContext(d) \/ Accept(d)
    \/ Tick

Spec == Init /\ [][Next]_vars

-----------------------------------------------------------------------------
(* Properties. *)

\* A result is accepted before the dispatch's lease ends, up to the pauses the
\* goroutine makes: one between reading the argument and starting the timers,
\* one after its last look at the context.  Later, the claim may be another
\* runtime's.
LeaseRespected ==
    \A d \in Dispatches : pc[d] = "accepted" =>
        acceptedAt[d] < expiresAt[d] + 2 * MaxPause

\* A result is accepted while its request is fresh.  Here only the first pause
\* counts, because the result's own validation repeats the check.
RequestStillFresh ==
    \A d \in Dispatches : pc[d] = "accepted" =>
        acceptedAt[d] < requestedAt[d] + Age(d) + MaxPause

\* Accepted evidence is about the present: a page not older than the signed
\* maximum age, a verification not older than its request, neither from the
\* future, each up to the accepted clock difference.
EvidenceCurrent ==
    \A d \in Dispatches : pc[d] = "accepted" =>
        /\ observedAt[d] <= acceptedAt[d] + Slack
        /\ IF Discovers(d)
           THEN observedAt[d] + DiscoveryAge + MaxPause > acceptedAt[d]
           ELSE observedAt[d] + VerifyAge + Slack + MaxPause > acceptedAt[d]

\* The provider's context is bounded by the request's age, even when the
\* control plane's clock is ahead, and had time left when the checks were made.
CallBounded ==
    \A d \in Dispatches : pc[d] = "calling" =>
        /\ base[d] < deadline[d]
        /\ deadline[d] <= startedAt[d] + MaxPause + Age(d) + Slack
=============================================================================
