------------------------------ MODULE TypedAction ------------------------------
(***************************************************************************)
(* One approved action: ActionDigest, ActionAuthority.Validate,            *)
(* ExecuteActionRequest.Validate, VerifyActionRequest.Validate and the     *)
(* validation of their answers (src/protocol.go), as an adapter uses them  *)
(* behind HTTPHandler's two action routes (src/http.go).                   *)
(*                                                                         *)
(* An operator approves a payload (resource, environment and parameters)   *)
(* under one capability; the authority that results binds their digest and *)
(* two times.  The control plane sends it with a request, again when an    *)
(* answer is lost.  A read-back carries no authority and may be asked for  *)
(* at any time, also for an action that never ran: all that ties it to an  *)
(* approval is the digest it carries.                                      *)
(* SignedExchange, which carries the requests, appears here only by its    *)
(* promise: a request is admitted within MaxDelay of being sent, if ever.  *)
(*                                                                         *)
(* A digest is what it is computed from (SHA-256 has no collisions), but   *)
(* the parameters pass through float64 on the way: Float says to what.     *)
(* Time is the adapter's clock; the control plane's differs by at most     *)
(* Ahead or Behind.                                                        *)
(***************************************************************************)
EXTENDS Integers

CONSTANTS
    Actions,       \* approved actions, each with one authority
    Tries,         \* requests the control plane makes for one action
    Capabilities,  \* capability digests; a release has one for the operation
    Payloads,      \* resource, environment and parameters
    Float,         \* a payload with its numbers rounded to float64
    None,          \* stands for "none yet"
    MaxTTL,        \* capability.MaximumTTLSeconds
    Grace,         \* one second of tolerance
    MaxLife,       \* bound: longest ExpiresAt - ApprovedAt an authority gets
    Ahead,         \* how far the control plane's clock may be ahead
    Behind,        \* how far it may be behind
    MaxDelay,      \* longest time from sending to admission
    MaxPause,      \* longest time from validation to the provider's call
    Reuses,        \* whether a retry sends the same request, Now included
    MaxTime        \* bound: the clock stops here

ASSUME ActionAssumption ==
    /\ Float \in [Payloads -> Payloads]
    /\ MaxTTL \in Nat /\ Grace \in Nat /\ MaxLife \in Nat
    /\ Ahead \in Nat /\ Behind \in Nat
    /\ MaxDelay \in Nat /\ MaxPause \in Nat /\ MaxTime \in Nat
    /\ Reuses \in BOOLEAN

Requests == Actions \X Tries

ActionOf(r) == r[1]

\* ActionDigest.
Digest(capability, payload) == <<capability, Float[payload]>>

Digests == Capabilities \X Payloads

Stages == {"unsent",
           "sent",      \* on its way to the adapter
           "running",   \* validated, about to call the provider
           "executed",  \* the provider did it
           "answered",  \* the control plane has the receipt
           "ended"}     \* refused, failed or unanswered

VARIABLES
    now,        \* the adapter's clock
    installed,  \* digest of the capability in the adapter's release
    approval,   \* per action: the approval and its authority, or None
    request,    \* per request: what it claims, None before it is sent
    pc,         \* stage of each request
    sentAt,     \* when it was sent
    seenAt,     \* when it was validated
    ranAt,      \* when the provider ran it, or None (history)
    ranUnder,   \* the capability it ran under (history)
    target,     \* the payload the provider's resource is in
    proof       \* per action: the read-back of it and what its request carried

flightVars == <<request, sentAt>>
runVars    == <<seenAt, ranAt, ranUnder>>
vars == <<now, installed, approval, flightVars, pc, runVars, target, proof>>

Approvals == [capability : Capabilities, payload : Payloads,
              approvedAt : Int, expiresAt : Int]

Claims == [capability : Capabilities, payload : Payloads,
           digest : Digests, at : Int]

Proofs == [state : {"verified", "failed"}, payload : Payloads,
           digest : Digests,       \* request.ActionDigest
           under : Capabilities,   \* capability of the release that read
           known : BOOLEAN]        \* whether the action was approved by then

Orders == [capability : Capabilities, payload : Payloads]

ASSUME NoneAssumption ==
    /\ None \notin Nat \cup Approvals \cup Claims \cup Proofs
    /\ None \notin Capabilities \cup Orders \cup {"verified", "failed"}

TypeOK ==
    /\ now \in Nat
    /\ installed \in Capabilities
    /\ approval \in [Actions -> Approvals \cup {None}]
    /\ request \in [Requests -> Claims \cup {None}]
    /\ pc \in [Requests -> Stages]
    /\ sentAt \in [Requests -> Nat]
    /\ seenAt \in [Requests -> Nat]
    /\ ranAt \in [Requests -> Nat \cup {None}]
    /\ ranUnder \in [Requests -> Capabilities \cup {None}]
    /\ target \in Payloads
    /\ proof \in [Actions -> Proofs \cup {None}]

Init ==
    /\ now = 0
    /\ installed \in Capabilities
    /\ approval = [a \in Actions |-> None]
    /\ request = [r \in Requests |-> None]
    /\ pc = [r \in Requests |-> "unsent"]
    /\ sentAt = [r \in Requests |-> 0]
    /\ seenAt = [r \in Requests |-> 0]
    /\ ranAt = [r \in Requests |-> None]
    /\ ranUnder = [r \in Requests |-> None]
    /\ target \in Payloads
    /\ proof = [a \in Actions |-> None]

Goto(r, stage) == pc' = [pc EXCEPT ![r] = stage]

-----------------------------------------------------------------------------
(* The control plane. *)

Clock == (now - Behind) .. (now + Ahead)

\* An operator approves; the authority's lifetime is the control plane's choice.
Approve(a) ==
    /\ approval[a] = None
    /\ \E k \in Capabilities, p \in Payloads, t \in Clock, life \in 0 .. MaxLife :
        approval' = [approval EXCEPT
            ![a] = [capability |-> k, payload |-> p,
                    approvedAt |-> t, expiresAt |-> t + life]]
    /\ UNCHANGED <<now, installed, flightVars, pc, runVars, target, proof>>

\* The times a request for action a may carry: the clock's, or those of an
\* earlier request that is sent again.
RequestTimes(a) ==
    Clock \cup (IF Reuses
                THEN {request[r].at : r \in {s \in Requests :
                                    ActionOf(s) = a /\ request[s] # None}}
                ELSE {})

\* A request goes out with the action's authority.  Its other fields are the
\* caller's, who may have changed any of them since the approval.
Submit(r) ==
    /\ pc[r] = "unsent"
    /\ approval[ActionOf(r)] # None
    /\ \E k \in Capabilities, p \in Payloads, d \in Digests,
          t \in RequestTimes(ActionOf(r)) :
        request' = [request EXCEPT
            ![r] = [capability |-> k, payload |-> p, digest |-> d, at |-> t]]
    /\ sentAt' = [sentAt EXCEPT ![r] = now]
    /\ Goto(r, "sent")
    /\ UNCHANGED <<now, installed, approval, runVars, target, proof>>

-----------------------------------------------------------------------------
(* The adapter. *)

\* Mutant: the action digest is not computed again from the request.
BoundUnchecked(claim) == claim.capability = installed

\* The capability binding that both action requests check.
Bound(claim) ==
    /\ claim.capability = installed
    /\ claim.digest = Digest(claim.capability, claim.payload)

\* Mutants of the authority's check: no expiry; any remaining lifetime.
AuthorizedForever(a, claim) ==
    /\ Digest(approval[a].capability, approval[a].payload) = claim.digest
    /\ approval[a].capability = claim.capability
    /\ approval[a].expiresAt <= claim.at + MaxTTL + Grace
AuthorizedAnyTTL(a, claim) ==
    /\ Digest(approval[a].capability, approval[a].payload) = claim.digest
    /\ approval[a].capability = claim.capability
    /\ approval[a].expiresAt > claim.at

\* ActionAuthority.Validate, at the time the request itself states.
Authorized(a, claim) ==
    /\ Digest(approval[a].capability, approval[a].payload) = claim.digest
    /\ approval[a].capability = claim.capability
    /\ approval[a].expiresAt >= approval[a].approvedAt
    /\ approval[a].expiresAt > claim.at
    /\ approval[a].expiresAt <= claim.at + MaxTTL + Grace

\* The adapter's ExecuteAction begins with ExecuteActionRequest.Validate.
Validate(r) ==
    /\ pc[r] = "sent"
    /\ now <= sentAt[r] + MaxDelay
    /\ Goto(r, IF Bound(request[r]) /\ Authorized(ActionOf(r), request[r])
               THEN "running" ELSE "ended")
    /\ seenAt' = [seenAt EXCEPT ![r] = now]
    /\ UNCHANGED <<now, installed, approval, flightVars, ranAt, ranUnder,
                   target, proof>>

\* The provider carries the action out.
Execute(r) ==
    /\ pc[r] = "running"
    /\ target' = request[r].payload
    /\ ranAt' = [ranAt EXCEPT ![r] = now]
    /\ ranUnder' = [ranUnder EXCEPT ![r] = installed]
    /\ Goto(r, "executed")
    /\ UNCHANGED <<now, installed, approval, flightVars, seenAt, proof>>

\* The receipt passes ActionExecution.Validate and reaches the control plane.
Answer(r) ==
    /\ pc[r] = "executed"
    /\ Goto(r, "answered")
    /\ UNCHANGED <<now, installed, approval, flightVars, runVars, target, proof>>

\* The provider fails, the receipt is invalid or the answer is lost.
Fail(r) ==
    /\ pc[r] \in {"sent", "running", "executed"}
    /\ Goto(r, "ended")
    /\ UNCHANGED <<now, installed, approval, flightVars, runVars, target, proof>>

\* A read-back of action a, with fields that its caller chooses freely:
\* VerifyActionRequest.Validate binds its digest only to its own fields, and the
\* receipt in it need only be well formed.  The state the adapter finds passes
\* ActionVerification.Validate.  Bound: one read-back of each action is followed.
Verify(a) ==
    /\ proof[a] = None
    /\ \E k \in Capabilities, p \in Payloads, d \in Digests :
        /\ Bound([capability |-> k, payload |-> p, digest |-> d])
        /\ proof' = [proof EXCEPT
                ![a] = [state |-> IF target = p THEN "verified" ELSE "failed",
                        payload |-> p, digest |-> d, under |-> installed,
                        known |-> approval[a] # None]]
    /\ UNCHANGED <<now, installed, approval, flightVars, pc, runVars, target>>

-----------------------------------------------------------------------------
(* The environment. *)

\* The adapter restarts with a release whose capability may differ; what was
\* running is lost.
Upgrade(k) ==
    /\ installed' = k
    /\ pc' = [r \in Requests |->
                IF pc[r] \in {"running", "executed"} THEN "ended" ELSE pc[r]]
    /\ UNCHANGED <<now, approval, flightVars, runVars, target, proof>>

\* Somebody else changes the resource.
Drift ==
    /\ \E p \in Payloads : target' = p
    /\ UNCHANGED <<now, installed, approval, flightVars, pc, runVars, proof>>

Tick ==
    /\ now < MaxTime
    /\ \A r \in Requests : pc[r] = "running" => now < seenAt[r] + MaxPause
    /\ now' = now + 1
    /\ UNCHANGED <<installed, approval, flightVars, pc, runVars, target, proof>>

Next ==
    \/ \E a \in Actions : Approve(a) \/ Verify(a)
    \/ \E r \in Requests :
        Submit(r) \/ Validate(r) \/ Execute(r) \/ Answer(r) \/ Fail(r)
    \/ \E k \in Capabilities : Upgrade(k)
    \/ Drift
    \/ Tick

Spec == Init /\ [][Next]_vars

-----------------------------------------------------------------------------
(* Properties. *)

\* "A caller cannot substitute parameters after approval while retaining the
\* authority" (comment on ActionDigest): whatever a request claimed, and however
\* the adapter was upgraded meanwhile, the provider only ran what was approved,
\* under the approved capability.
RunsWhatWasApproved ==
    \A r \in Requests : ranAt[r] # None =>
        /\ request[r].payload = approval[ActionOf(r)].payload
        /\ ranUnder[r] = approval[ActionOf(r)].capability

\* The authority "expires quickly" (comment on ActionAuthority): the provider
\* runs an action before its authority expires, up to the clocks' difference and
\* the delays of the network and of the adapter.
ExpiryRespected ==
    \A r \in Requests : ranAt[r] # None =>
        ranAt[r] < approval[ActionOf(r)].expiresAt + Behind + MaxDelay + MaxPause

\* An authority that lives longer than the signed maximum is of no use before
\* its last MaxTTL: however it was issued, it stays unusable until then.
UsableOnlyLate ==
    \A r \in Requests : ranAt[r] # None =>
        ranAt[r] + Ahead + MaxTTL + Grace >= approval[ActionOf(r)].expiresAt

\* The read-back's request carried the digest of the action's approval.
CarriesApproval(a) ==
    /\ approval[a] # None
    /\ proof[a].digest = Digest(approval[a].capability, approval[a].payload)

\* "An execution response is never proof by itself" (README): what counts is a
\* read-back.  If the request of one carried the approval's digest, the very payload
\* that was approved was looked for, by a release of the approved capability, even
\* when releases were replaced in between or it was asked for before the approval.
\* (It does not say that the action ran: others may have left that state.)
ProofOfApproved ==
    \A a \in Actions : (proof[a] # None /\ CarriesApproval(a)) =>
        /\ proof[a].payload = approval[a].payload
        /\ proof[a].under = approval[a].capability

-----------------------------------------------------------------------------
(* What is left of it for the control plane. *)

Order(a) ==
    IF approval[a] = None THEN None
    ELSE [capability |-> approval[a].capability, payload |-> approval[a].payload]

\* Read-backs before the approval, or with another digest, are no verdict on it.
Verdict(a) ==
    IF proof[a] # None /\ proof[a].known /\ CarriesApproval(a)
    THEN proof[a].state ELSE None

Contract == INSTANCE ActionContract
    WITH order <- [a \in Actions |-> Order(a)], under <- ranUnder,
         resource <- target, verdict <- [a \in Actions |-> Verdict(a)]

\* An approval may be taken for what ActionContract says of it: no request has an
\* effect of its own beside the approved one, none has it twice, and a read-back
\* with its digest says "verified" if and only if the approved state was there.
ImplementsActionContract == Contract!Spec
=============================================================================
