--------------------------- MODULE TypedActionProofs ---------------------------
(***************************************************************************)
(* Proofs about TypedAction, for any number of actions, requests, releases *)
(* and payloads.  The invariant follows one request through its stages:    *)
(* what is known when it is sent, what its validation adds while the       *)
(* adapter it was validated by still runs, and what of this stays true     *)
(* once the provider has run it.                                           *)
(***************************************************************************)
EXTENDS TypedAction, TLAPS

\* Digests tell payloads apart: no number of theirs is rounded.
ExactNumbers == \A p, q \in Payloads : Float[p] = Float[q] => p = q

\* A request that was sent has an approved action, and its stated time is near
\* the time it was sent, if the control plane does not send an old one again.
SentInv(r) ==
    /\ pc[r] = "unsent" <=> request[r] = None
    /\ request[r] # None =>
        /\ approval[ActionOf(r)] # None
        /\ sentAt[r] <= now
        /\ request[r].at <= sentAt[r] + Ahead
        /\ ~ Reuses => sentAt[r] - Behind <= request[r].at

\* What validation establishes of a request and the action's approval.
Granted(r) ==
    LET grant == approval[ActionOf(r)]
    IN  /\ grant.capability = request[r].capability
        /\ Digest(grant.capability, grant.payload)
            = Digest(request[r].capability, request[r].payload)
        /\ request[r].at < grant.expiresAt
        /\ grant.expiresAt <= request[r].at + MaxTTL + Grace

\* A running request was validated by the running release, not long ago.
RunningInv(r) ==
    pc[r] = "running" =>
        /\ Granted(r)
        /\ request[r].capability = installed
        /\ sentAt[r] <= seenAt[r] /\ seenAt[r] <= sentAt[r] + MaxDelay
        /\ seenAt[r] <= now /\ now <= seenAt[r] + MaxPause

\* A request the provider ran was granted, and ran soon after it was sent.
RanInv(r) ==
    /\ ranUnder[r] # None => ranAt[r] # None
    /\ pc[r] \in {"executed", "answered"} => ranAt[r] # None
    /\ ranAt[r] # None =>
        /\ pc[r] \in {"executed", "answered", "ended"}
        /\ Granted(r)
        /\ ranUnder[r] = request[r].capability
        /\ sentAt[r] <= ranAt[r] /\ ranAt[r] <= now
        /\ ranAt[r] <= sentAt[r] + MaxDelay + MaxPause

\* The digest of a read-back is that of what was looked for, and of the release
\* that looked; if the action was approved then, it still is.
ProofInv(a) ==
    proof[a] # None =>
        /\ proof[a].digest = Digest(proof[a].under, proof[a].payload)
        /\ proof[a].known => approval[a] # None

IInv ==
    /\ TypeOK
    /\ \A r \in Requests : SentInv(r) /\ RunningInv(r) /\ RanInv(r)
    /\ \A a \in Actions : ProofInv(a)

LEMMA RequestFacts == \A r \in Requests : ActionOf(r) \in Actions
BY DEF Requests, ActionOf

\* Requests the step leaves alone keep their part of the invariant.
LEMMA Untouched ==
    ASSUME IInv, NEW r \in Requests,
           request'[r] = request[r], pc'[r] = pc[r], sentAt'[r] = sentAt[r],
           seenAt'[r] = seenAt[r], ranAt'[r] = ranAt[r],
           ranUnder'[r] = ranUnder[r], now' = now, installed' = installed,
           approval[ActionOf(r)] # None
                => approval'[ActionOf(r)] = approval[ActionOf(r)]
    PROVE  SentInv(r)' /\ RunningInv(r)' /\ RanInv(r)'
<1>1. SentInv(r) /\ RunningInv(r) /\ RanInv(r)
  BY DEF IInv
<1>2. request[r] # None => approval'[ActionOf(r)] = approval[ActionOf(r)]
  BY <1>1 DEF SentInv
<1>3. SentInv(r)'
  BY <1>1, <1>2 DEF SentInv
<1>4. (pc[r] = "running" \/ ranAt[r] # None) => request[r] # None
  BY <1>1 DEF SentInv, RanInv
<1>5. request[r] # None => (Granted(r) <=> Granted(r)')
  BY <1>2 DEF Granted, Digest
<1>6. RunningInv(r)'
  BY <1>1, <1>4, <1>5 DEF RunningInv
<1>7. RanInv(r)'
  BY <1>1, <1>4, <1>5 DEF RanInv
<1> QED BY <1>3, <1>6, <1>7

LEMMA Initial == Init => IInv
BY ActionAssumption, NoneAssumption
   DEF Init, IInv, TypeOK, Stages, SentInv, RunningInv, RanInv, ProofInv

-----------------------------------------------------------------------------
(* Every step keeps the types. *)

LEMMA TypeStep == IInv /\ [Next]_vars => TypeOK'
<1> SUFFICES ASSUME IInv, [Next]_vars PROVE TypeOK'
  OBVIOUS
<1> TypeOK
  BY DEF IInv
<1> USE ActionAssumption, RequestFacts DEF TypeOK, Stages, Goto
<1>1. ASSUME NEW a \in Actions, Approve(a) PROVE TypeOK'
  <2>1. PICK k \in Capabilities, p \in Payloads, t \in Clock, life \in 0 .. MaxLife :
          approval' = [approval EXCEPT
            ![a] = [capability |-> k, payload |-> p,
                    approvedAt |-> t, expiresAt |-> t + life]]
    BY <1>1 DEF Approve
  <2>2. [capability |-> k, payload |-> p, approvedAt |-> t, expiresAt |-> t + life]
          \in Approvals
    BY DEF Clock, Approvals
  <2> QED BY <1>1, <2>1, <2>2 DEF Approve, flightVars, runVars
<1>2. ASSUME NEW r \in Requests, Submit(r) PROVE TypeOK'
  <2>1. PICK k \in Capabilities, p \in Payloads, d \in Digests,
             t \in RequestTimes(ActionOf(r)) :
          request' = [request EXCEPT
            ![r] = [capability |-> k, payload |-> p, digest |-> d, at |-> t]]
    BY <1>2 DEF Submit
  <2>2. t \in Int
    <3>1. \A s \in Requests : request[s] # None => request[s].at \in Int
      BY DEF Claims
    <3> QED BY <3>1 DEF RequestTimes, Clock
  <2>3. [capability |-> k, payload |-> p, digest |-> d, at |-> t] \in Claims
    BY <2>2 DEF Claims
  <2> QED BY <1>2, <2>1, <2>3 DEF Submit, runVars
<1>3. ASSUME NEW r \in Requests, Validate(r) PROVE TypeOK'
  BY <1>3 DEF Validate, flightVars
<1>4. ASSUME NEW r \in Requests, Execute(r) PROVE TypeOK'
  <2>1. request[r] # None
    BY <1>4 DEF Execute, IInv, SentInv
  <2>2. request[r].payload \in Payloads
    BY <2>1 DEF Claims
  <2> QED BY <1>4, <2>2 DEF Execute, flightVars
<1>5. ASSUME NEW r \in Requests, Answer(r) PROVE TypeOK'
  BY <1>5 DEF Answer, flightVars, runVars
<1>6. ASSUME NEW r \in Requests, Fail(r) PROVE TypeOK'
  BY <1>6 DEF Fail, flightVars, runVars
<1>7. ASSUME NEW a \in Actions, Verify(a) PROVE TypeOK'
  <2>1. PICK p \in Payloads, d \in Digests :
          proof' = [proof EXCEPT
            ![a] = [state |-> IF target = p THEN "verified" ELSE "failed",
                    payload |-> p, digest |-> d, under |-> installed,
                    known |-> approval[a] # None]]
    BY <1>7 DEF Verify
  <2>2. [state |-> IF target = p THEN "verified" ELSE "failed",
         payload |-> p, digest |-> d, under |-> installed,
         known |-> approval[a] # None] \in Proofs
    BY DEF Proofs
  <2> QED BY <1>7, <2>1, <2>2 DEF Verify, flightVars, runVars
<1>8. ASSUME NEW k \in Capabilities, Upgrade(k) PROVE TypeOK'
  BY <1>8 DEF Upgrade, flightVars, runVars
<1>9. CASE Drift
  BY <1>9 DEF Drift, flightVars, runVars
<1>10. CASE Tick
  BY <1>10 DEF Tick, flightVars, runVars
<1>11. CASE UNCHANGED vars
  BY <1>11 DEF vars, flightVars, runVars
<1> QED
  BY <1>1, <1>2, <1>3, <1>4, <1>5, <1>6, <1>7, <1>8, <1>9, <1>10, <1>11 DEF Next

-----------------------------------------------------------------------------
(* Every step keeps what is known of a request. *)

LEMMA SubmitStep ==
    ASSUME IInv, NEW r \in Requests, Submit(r)
    PROVE  SentInv(r)' /\ RunningInv(r)' /\ RanInv(r)'
<1> USE ActionAssumption, RequestFacts DEF Goto
<1>1. TypeOK /\ \A s \in Requests : SentInv(s) /\ RanInv(s)
  BY DEF IInv
<1>2. PICK k \in Capabilities, p \in Payloads, d \in Digests,
           t \in RequestTimes(ActionOf(r)) :
        request' = [request EXCEPT
          ![r] = [capability |-> k, payload |-> p, digest |-> d, at |-> t]]
  BY DEF Submit
<1>3. t \in Int /\ t <= now + Ahead /\ (~ Reuses => now - Behind <= t)
  <2>1. CASE t \in Clock
    BY <1>1, <2>1 DEF Clock, TypeOK
  <2>2. CASE t \notin Clock
    <3>1. Reuses
      BY <2>2 DEF RequestTimes
    <3>2. PICK s \in Requests : request[s] # None /\ t = request[s].at
      BY <2>2, <3>1 DEF RequestTimes
    <3>3. request[s].at \in Int
      BY <1>1, <3>2 DEF TypeOK, Claims
    <3>4. sentAt[s] \in Nat /\ now \in Nat
      BY <1>1 DEF TypeOK
    <3>5. request[s].at <= sentAt[s] + Ahead /\ sentAt[s] <= now
      BY <1>1, <3>2 DEF SentInv
    <3> QED BY <3>1, <3>2, <3>3, <3>4, <3>5
  <2> QED BY <2>1, <2>2
<1>4. [capability |-> k, payload |-> p, digest |-> d, at |-> t] # None
  BY <1>3, NoneAssumption DEF Claims
<1>5. /\ request'[r] = [capability |-> k, payload |-> p, digest |-> d, at |-> t]
      /\ sentAt'[r] = now /\ pc'[r] = "sent" /\ now' = now
      /\ approval' = approval /\ approval[ActionOf(r)] # None
      /\ ranAt'[r] = ranAt[r] /\ ranUnder'[r] = ranUnder[r] /\ pc[r] = "unsent"
  BY <1>1, <1>2 DEF Submit, TypeOK, runVars
<1>6. SentInv(r)'
  BY <1>1, <1>3, <1>4, <1>5 DEF SentInv, TypeOK
<1>7. RunningInv(r)'
  BY <1>5 DEF RunningInv
<1>8. RanInv(r)'
  BY <1>1, <1>5 DEF RanInv
<1> QED BY <1>6, <1>7, <1>8

LEMMA ValidateStep ==
    ASSUME IInv, NEW r \in Requests, Validate(r)
    PROVE  SentInv(r)' /\ RunningInv(r)' /\ RanInv(r)'
<1> USE ActionAssumption, RequestFacts DEF Goto
<1>1. TypeOK /\ SentInv(r) /\ RanInv(r)
  BY DEF IInv
<1>2. /\ request' = request /\ approval' = approval /\ sentAt' = sentAt
      /\ now' = now /\ installed' = installed
      /\ ranAt' = ranAt /\ ranUnder' = ranUnder
      /\ pc[r] = "sent" /\ seenAt'[r] = now /\ now <= sentAt[r] + MaxDelay
      /\ pc'[r] \in {"running", "ended"}
  BY <1>1 DEF Validate, TypeOK, flightVars
<1>3. pc'[r] = "running" =>
        Bound(request[r]) /\ Authorized(ActionOf(r), request[r])
  BY <1>1 DEF Validate, TypeOK
<1>4. SentInv(r)'
  BY <1>1, <1>2 DEF SentInv
<1>5. RunningInv(r)'
  <2> SUFFICES ASSUME pc'[r] = "running"
               PROVE  /\ Granted(r)'
                      /\ request[r].capability = installed
                      /\ sentAt[r] <= now /\ now <= sentAt[r] + MaxDelay
                      /\ now <= now /\ now <= now + MaxPause
    BY <1>2 DEF RunningInv
  <2>1. request[r] # None
    BY <1>1, <1>2 DEF SentInv
  <2>2. request[r].at \in Int /\ approval[ActionOf(r)].expiresAt \in Int
    BY <1>1, <2>1 DEF TypeOK, Claims, Approvals, SentInv
  <2>3. Granted(r)'
    BY <1>2, <1>3, <2>2 DEF Granted, Bound, Authorized
  <2> QED BY <1>1, <1>2, <1>3, <2>1, <2>3 DEF Bound, SentInv, TypeOK
<1>6. RanInv(r)'
  BY <1>1, <1>2 DEF RanInv
<1> QED BY <1>4, <1>5, <1>6

LEMMA ExecuteStep ==
    ASSUME IInv, NEW r \in Requests, Execute(r)
    PROVE  SentInv(r)' /\ RunningInv(r)' /\ RanInv(r)'
<1> USE ActionAssumption, RequestFacts DEF Goto
<1>1. TypeOK /\ SentInv(r) /\ RunningInv(r)
  BY DEF IInv
<1>2. /\ request' = request /\ approval' = approval /\ sentAt' = sentAt
      /\ now' = now /\ pc[r] = "running" /\ pc'[r] = "executed"
      /\ ranAt'[r] = now /\ ranUnder'[r] = installed
  BY <1>1 DEF Execute, TypeOK, flightVars
<1>3. SentInv(r)'
  BY <1>1, <1>2 DEF SentInv
<1>4. RunningInv(r)'
  BY <1>2 DEF RunningInv
<1>5. now \in Nat /\ sentAt[r] \in Nat /\ seenAt[r] \in Nat /\ now # None
  BY <1>1, NoneAssumption DEF TypeOK
<1>6. Granted(r)'
  BY <1>1, <1>2 DEF RunningInv, Granted, Digest
<1>7. RanInv(r)'
  BY <1>1, <1>2, <1>5, <1>6 DEF RanInv, RunningInv
<1> QED BY <1>3, <1>4, <1>7

LEMMA EndStep ==
    ASSUME IInv, NEW r \in Requests, UNCHANGED <<now, approval, request, sentAt>>,
           UNCHANGED <<seenAt, ranAt, ranUnder>>,
           \/ pc'[r] = "ended" /\ pc[r] # "unsent"
           \/ pc'[r] = "answered" /\ pc[r] = "executed"
    PROVE  SentInv(r)' /\ RunningInv(r)' /\ RanInv(r)'
<1>1. SentInv(r) /\ RanInv(r)
  BY DEF IInv
<1>2. SentInv(r)'
  BY <1>1 DEF SentInv
<1>3. RunningInv(r)'
  BY DEF RunningInv
<1>4. RanInv(r)'
  BY <1>1 DEF RanInv, Granted, Digest
<1> QED BY <1>2, <1>3, <1>4

LEMMA TickStep ==
    ASSUME IInv, NEW r \in Requests, Tick
    PROVE  SentInv(r)' /\ RunningInv(r)' /\ RanInv(r)'
<1> USE ActionAssumption
<1>1. TypeOK /\ SentInv(r) /\ RunningInv(r) /\ RanInv(r)
  BY DEF IInv
<1>2. /\ request' = request /\ approval' = approval /\ sentAt' = sentAt
      /\ seenAt' = seenAt /\ ranAt' = ranAt /\ ranUnder' = ranUnder
      /\ installed' = installed /\ pc' = pc /\ now' = now + 1
      /\ pc[r] = "running" => now < seenAt[r] + MaxPause
  BY DEF Tick, flightVars, runVars
<1>3. now \in Nat /\ sentAt[r] \in Nat /\ seenAt[r] \in Nat
      /\ (ranAt[r] # None => ranAt[r] \in Nat)
  BY <1>1 DEF TypeOK
<1>4. Granted(r) <=> Granted(r)'
  BY <1>2 DEF Granted, Digest
<1>5. SentInv(r)'
  BY <1>1, <1>2, <1>3 DEF SentInv
<1>6. RunningInv(r)'
  BY <1>1, <1>2, <1>3, <1>4 DEF RunningInv
<1>7. RanInv(r)'
  BY <1>1, <1>2, <1>3, <1>4 DEF RanInv
<1> QED BY <1>5, <1>6, <1>7

LEMMA RequestStep ==
    IInv /\ [Next]_vars => \A r \in Requests :
        SentInv(r)' /\ RunningInv(r)' /\ RanInv(r)'
<1> SUFFICES ASSUME IInv, [Next]_vars, NEW r \in Requests
             PROVE  SentInv(r)' /\ RunningInv(r)' /\ RanInv(r)'
  OBVIOUS
<1> DEFINE Kept == SentInv(r)' /\ RunningInv(r)' /\ RanInv(r)'
<1> TypeOK
  BY DEF IInv
<1> USE RequestFacts
<1>1. ASSUME NEW a \in Actions, Approve(a) PROVE Kept
  <2>1. approval[ActionOf(r)] # None
          => approval'[ActionOf(r)] = approval[ActionOf(r)]
    BY <1>1 DEF Approve, TypeOK
  <2> QED BY <1>1, <2>1, Untouched DEF Approve, flightVars, runVars
<1>2. ASSUME NEW q \in Requests, Submit(q) PROVE Kept
  <2>1. CASE q = r
    BY <1>2, <2>1, SubmitStep
  <2>2. CASE q # r
    BY <1>2, <2>2, Untouched DEF Submit, TypeOK, Goto, runVars
  <2> QED BY <2>1, <2>2
<1>3. ASSUME NEW q \in Requests, Validate(q) PROVE Kept
  <2>1. CASE q = r
    BY <1>3, <2>1, ValidateStep
  <2>2. CASE q # r
    BY <1>3, <2>2, Untouched DEF Validate, TypeOK, Goto, flightVars
  <2> QED BY <2>1, <2>2
<1>4. ASSUME NEW q \in Requests, Execute(q) PROVE Kept
  <2>1. CASE q = r
    BY <1>4, <2>1, ExecuteStep
  <2>2. CASE q # r
    BY <1>4, <2>2, Untouched DEF Execute, TypeOK, Goto, flightVars
  <2> QED BY <2>1, <2>2
<1>5. ASSUME NEW q \in Requests, Answer(q) \/ Fail(q) PROVE Kept
  <2>1. CASE q = r
    <3>1. UNCHANGED <<now, approval, request, sentAt, seenAt, ranAt, ranUnder>>
      BY <1>5 DEF Answer, Fail, flightVars, runVars
    <3>2. \/ pc'[r] = "ended" /\ pc[r] # "unsent"
          \/ pc'[r] = "answered" /\ pc[r] = "executed"
      BY <1>5, <2>1 DEF Answer, Fail, Goto, TypeOK
    <3> QED BY <3>1, <3>2, EndStep
  <2>2. CASE q # r
    BY <1>5, <2>2, Untouched DEF Answer, Fail, TypeOK, Goto, flightVars, runVars
  <2> QED BY <2>1, <2>2
<1>6. ASSUME NEW a \in Actions, Verify(a) PROVE Kept
  BY <1>6, Untouched DEF Verify, flightVars, runVars
<1>7. ASSUME NEW k \in Capabilities, Upgrade(k) PROVE Kept
  <2>1. UNCHANGED <<now, approval, request, sentAt, seenAt, ranAt, ranUnder>>
    BY <1>7 DEF Upgrade, flightVars, runVars
  <2>2. CASE pc[r] \in {"running", "executed"}
    <3>1. pc'[r] = "ended"
      BY <1>7, <2>2 DEF Upgrade
    <3> QED BY <2>1, <2>2, <3>1, EndStep
  <2>3. CASE pc[r] \notin {"running", "executed"}
    <3>1. pc'[r] = pc[r]
      BY <1>7, <2>3 DEF Upgrade
    <3>2. SentInv(r) /\ RunningInv(r) /\ RanInv(r)
      BY DEF IInv
    <3>3. Granted(r) <=> Granted(r)'
      BY <2>1 DEF Granted, Digest
    <3> QED BY <2>1, <2>3, <3>1, <3>2, <3>3 DEF SentInv, RunningInv, RanInv
  <2> QED BY <2>2, <2>3
<1>8. CASE Drift
  BY <1>8, Untouched DEF Drift, flightVars, runVars
<1>9. CASE Tick
  BY <1>9, TickStep
<1>10. CASE UNCHANGED vars
  BY <1>10, Untouched DEF vars, flightVars, runVars
<1> QED
  BY <1>1, <1>2, <1>3, <1>4, <1>5, <1>6, <1>7, <1>8, <1>9, <1>10 DEF Next

-----------------------------------------------------------------------------
(* Every step keeps what is known of a proof. *)

LEMMA ProofStep == IInv /\ [Next]_vars => \A a \in Actions : ProofInv(a)'
<1> SUFFICES ASSUME IInv, [Next]_vars, NEW a \in Actions PROVE ProofInv(a)'
  OBVIOUS
<1> TypeOK /\ ProofInv(a)
  BY DEF IInv
<1> USE RequestFacts
<1>1. ASSUME proof'[a] = proof[a],
             approval[a] # None => approval'[a] = approval[a]
      PROVE  ProofInv(a)'
  BY <1>1 DEF ProofInv, Digest
<1>2. ASSUME NEW b \in Actions, Approve(b) PROVE ProofInv(a)'
  <2>1. approval[a] # None => approval'[a] = approval[a]
    BY <1>2 DEF Approve, TypeOK
  <2> QED BY <1>1, <1>2, <2>1 DEF Approve
<1>3. ASSUME NEW r \in Requests, Submit(r) \/ Validate(r) \/ Answer(r) \/ Fail(r)
      PROVE  ProofInv(a)'
  BY <1>1, <1>3 DEF Submit, Validate, Answer, Fail
<1>4. ASSUME NEW q \in Requests, Execute(q) PROVE ProofInv(a)'
  BY <1>1, <1>4 DEF Execute
<1>5. ASSUME NEW b \in Actions, Verify(b) PROVE ProofInv(a)'
  <2>1. CASE b # a
    BY <1>1, <1>5, <2>1 DEF Verify, TypeOK
  <2>2. CASE b = a
    <3>1. PICK k \in Capabilities, p \in Payloads, d \in Digests :
            /\ Bound([capability |-> k, payload |-> p, digest |-> d])
            /\ proof' = [proof EXCEPT
                 ![a] = [state |-> IF target = p THEN "verified" ELSE "failed",
                         payload |-> p, digest |-> d, under |-> installed,
                         known |-> approval[a] # None]]
      <4>1. Verify(a)
        BY <1>5, <2>2
      <4> QED BY <4>1 DEF Verify
    <3>2. d = Digest(installed, p)
      BY <3>1 DEF Bound
    <3>3. /\ proof'[a].digest = d /\ proof'[a].under = installed
          /\ proof'[a].payload = p /\ proof'[a].known = (approval[a] # None)
      <4>1. DOMAIN proof = Actions
        BY DEF TypeOK
      <4>2. proof'[a] = [state |-> IF target = p THEN "verified" ELSE "failed",
                         payload |-> p, digest |-> d, under |-> installed,
                         known |-> approval[a] # None]
        BY <3>1, <4>1
      <4> QED BY <4>2
    <3>4. approval' = approval
      BY <1>5 DEF Verify
    <3> QED BY <3>2, <3>3, <3>4 DEF ProofInv, Digest
  <2> QED BY <2>1, <2>2
<1>6. ASSUME NEW k \in Capabilities, Upgrade(k) PROVE ProofInv(a)'
  BY <1>1, <1>6 DEF Upgrade
<1>7. CASE Drift
  BY <1>1, <1>7 DEF Drift
<1>8. CASE Tick
  BY <1>1, <1>8 DEF Tick
<1>9. CASE UNCHANGED vars
  BY <1>1, <1>9 DEF vars
<1> QED BY <1>2, <1>3, <1>4, <1>5, <1>6, <1>7, <1>8, <1>9 DEF Next

THEOREM Inductive == Spec => []IInv
<1>1. IInv /\ [Next]_vars => IInv'
  BY TypeStep, RequestStep, ProofStep DEF IInv
<1> QED BY <1>1, Initial, PTL DEF Spec

-----------------------------------------------------------------------------
(* The results. *)

\* As long as the numbers in a payload are exact, only what was approved runs,
\* under the capability it was approved for.
THEOREM ApprovedRuns == ASSUME ExactNumbers PROVE Spec => []RunsWhatWasApproved
<1>1. IInv => RunsWhatWasApproved
  <2> SUFFICES ASSUME IInv, NEW r \in Requests, ranAt[r] # None
               PROVE  /\ request[r].payload = approval[ActionOf(r)].payload
                      /\ ranUnder[r] = approval[ActionOf(r)].capability
    BY DEF RunsWhatWasApproved
  <2>1. TypeOK /\ SentInv(r) /\ RanInv(r)
    BY DEF IInv
  <2>2. request[r] # None /\ approval[ActionOf(r)] # None
    BY <2>1 DEF SentInv, RanInv
  <2>3. request[r].payload \in Payloads
        /\ approval[ActionOf(r)].payload \in Payloads
    BY <2>1, <2>2, RequestFacts DEF TypeOK, Claims, Approvals
  <2>4. Granted(r) /\ ranUnder[r] = request[r].capability
    BY <2>1 DEF RanInv
  <2> QED BY <2>3, <2>4, ExactNumbers DEF Granted, Digest, ExactNumbers
<1> QED BY <1>1, Inductive, ExactNumbers, PTL

\* A control plane that states the current time in each request never has an
\* action run after its authority's expiry, up to the sum of the delays.
THEOREM ExpiryHolds == ASSUME ~ Reuses PROVE Spec => []ExpiryRespected
<1>1. IInv => ExpiryRespected
  <2> SUFFICES ASSUME IInv, NEW r \in Requests, ranAt[r] # None
               PROVE  ranAt[r] < approval[ActionOf(r)].expiresAt
                                  + Behind + MaxDelay + MaxPause
    BY DEF ExpiryRespected
  <2>1. TypeOK /\ SentInv(r) /\ RanInv(r)
    BY DEF IInv
  <2>2. request[r] # None /\ approval[ActionOf(r)] # None
    BY <2>1 DEF SentInv, RanInv
  <2>3. request[r].at \in Int /\ approval[ActionOf(r)].expiresAt \in Int
        /\ ranAt[r] \in Nat /\ sentAt[r] \in Nat
    BY <2>1, <2>2, RequestFacts DEF TypeOK, Claims, Approvals
  <2>4. ranAt[r] <= sentAt[r] + MaxDelay + MaxPause
    BY <2>1 DEF RanInv
  <2>5. request[r].at < approval[ActionOf(r)].expiresAt
    BY <2>1 DEF RanInv, Granted
  <2>6. sentAt[r] - Behind <= request[r].at
    BY <2>1, <2>2 DEF SentInv
  <2> QED BY <2>3, <2>4, <2>5, <2>6, ActionAssumption
<1> QED BY <1>1, Inductive, PTL

\* Whether or not old requests are sent again, no authority is of use before
\* the last MaxTTL of its life.
THEOREM LateUse == Spec => []UsableOnlyLate
<1>1. IInv => UsableOnlyLate
  <2> SUFFICES ASSUME IInv, NEW r \in Requests, ranAt[r] # None
               PROVE  ranAt[r] + Ahead + MaxTTL + Grace
                        >= approval[ActionOf(r)].expiresAt
    BY DEF UsableOnlyLate
  <2>1. TypeOK /\ SentInv(r) /\ RanInv(r)
    BY DEF IInv
  <2>2. request[r] # None /\ approval[ActionOf(r)] # None
    BY <2>1 DEF SentInv, RanInv
  <2>3. request[r].at \in Int /\ approval[ActionOf(r)].expiresAt \in Int
        /\ ranAt[r] \in Nat /\ sentAt[r] \in Nat
    BY <2>1, <2>2, RequestFacts DEF TypeOK, Claims, Approvals
  <2>4. sentAt[r] <= ranAt[r]
    BY <2>1 DEF RanInv
  <2>5. approval[ActionOf(r)].expiresAt <= request[r].at + MaxTTL + Grace
    BY <2>1 DEF RanInv, Granted
  <2>6. request[r].at <= sentAt[r] + Ahead
    BY <2>1, <2>2 DEF SentInv
  <2> QED BY <2>3, <2>4, <2>5, <2>6, ActionAssumption
<1> QED BY <1>1, Inductive, PTL

\* What is read back under an approval's digest is the approved payload.
LEMMA ReadsTheApproved ==
    ASSUME ExactNumbers, IInv, NEW a \in Actions, proof[a] # None,
           CarriesApproval(a)
    PROVE  /\ proof[a].payload = approval[a].payload
           /\ proof[a].under = approval[a].capability
<1>1. TypeOK /\ ProofInv(a)
  BY DEF IInv
<1>2. approval[a] # None
  BY DEF CarriesApproval
<1>3. proof[a].payload \in Payloads /\ approval[a].payload \in Payloads
  BY <1>1, <1>2 DEF TypeOK, Proofs, Approvals
<1>4. Digest(proof[a].under, proof[a].payload)
        = Digest(approval[a].capability, approval[a].payload)
  BY <1>1 DEF ProofInv, CarriesApproval
<1> QED BY <1>3, <1>4 DEF Digest, ExactNumbers

\* With exact numbers, whoever reads back under an approval's digest looks for the
\* approved payload, as a release of the approved capability.
THEOREM ProofMeansApproved == ASSUME ExactNumbers PROVE Spec => []ProofOfApproved
<1>1. IInv => ProofOfApproved
  BY ReadsTheApproved, ExactNumbers DEF ProofOfApproved
<1> QED BY <1>1, Inductive, PTL

-----------------------------------------------------------------------------
(* The actions implement ActionContract. *)

\* What an approved action amounts to does not change without an approval or a proof.
LEMMA SameForContract ==
    ASSUME UNCHANGED <<approval, ranUnder, target, proof>>
    PROVE  UNCHANGED Contract!vars
BY DEF Contract!vars, Order, Verdict, CarriesApproval

\* An approval is an order, and an order is not None.
LEMMA Ordered ==
    ASSUME IInv, NEW a \in Actions
    PROVE  /\ approval[a] = None <=> Order(a) = None
           /\ approval[a] # None => /\ Order(a) \in Orders
                                   /\ Order(a).payload = approval[a].payload
                                   /\ Order(a).capability = approval[a].capability
<1>1. approval[a] \in Approvals \cup {None}
  BY DEF IInv, TypeOK
<1>2. approval[a] # None => Order(a) \in Orders
  BY <1>1 DEF Order, Orders, Approvals
<1> QED BY <1>2, NoneAssumption DEF Order

LEMMA ApproveRefines ==
    ASSUME IInv, NEW a \in Actions, Approve(a)
    PROVE  Contract!Approve(a)
<1>1. PICK k \in Capabilities, p \in Payloads, t \in Clock, life \in 0 .. MaxLife :
        approval' = [approval EXCEPT
          ![a] = [capability |-> k, payload |-> p,
                  approvedAt |-> t, expiresAt |-> t + life]]
  BY DEF Approve
<1> DEFINE grant == [capability |-> k, payload |-> p,
                     approvedAt |-> t, expiresAt |-> t + life]
           order == [capability |-> k, payload |-> p]
<1>2. approval[a] = None /\ UNCHANGED <<ranUnder, target, proof>>
  BY DEF Approve, runVars
<1>3. approval \in [Actions -> Approvals \cup {None}]
  BY DEF IInv, TypeOK
<1>4. grant # None
  <2>1. grant \in Approvals
    BY <1>3 DEF Approvals, Clock, IInv, TypeOK
  <2> QED BY <2>1, NoneAssumption
<1>5. \A b \in Actions : approval'[b] = IF b = a THEN grant ELSE approval[b]
  BY <1>1, <1>3
<1> HIDE DEF grant
<1>6. Order(a)' = order
  BY <1>4, <1>5 DEF Order, grant
<1>7. \A b \in Actions : b # a => Order(b)' = Order(b)
  BY <1>5 DEF Order
<1>8. [b \in Actions |-> Order(b)]' = [[b \in Actions |-> Order(b)] EXCEPT ![a] = order]
  BY <1>6, <1>7
<1>9. order \in Contract!Orders
  BY DEF Contract!Orders
<1>10. [b \in Actions |-> Order(b)][a] = None
  BY <1>2 DEF Order
<1>11. UNCHANGED [b \in Actions |-> Verdict(b)]
  <2> SUFFICES ASSUME NEW b \in Actions PROVE Verdict(b)' = Verdict(b)
    OBVIOUS
  <2>1. CASE b # a
    BY <1>2, <1>5, <2>1 DEF Verdict, CarriesApproval
  <2>2. CASE b = a
    <3>1. proof[a] # None => ~ proof[a].known
      BY <1>2 DEF IInv, ProofInv, TypeOK, Proofs
    <3> QED BY <1>2, <2>2, <3>1 DEF Verdict
  <2> QED BY <2>1, <2>2
<1> QED BY <1>2, <1>8, <1>9, <1>10, <1>11 DEF Contract!Approve

LEMMA ExecuteRefines ==
    ASSUME ExactNumbers, IInv, NEW r \in Requests, Execute(r)
    PROVE  Contract!Run(r)
<1>1. TypeOK /\ SentInv(r) /\ RunningInv(r) /\ RanInv(r) /\ ActionOf(r) \in Actions
  BY RequestFacts DEF IInv
<1>2. /\ target' = request[r].payload /\ pc[r] = "running"
      /\ ranUnder' = [ranUnder EXCEPT ![r] = installed]
      /\ UNCHANGED <<approval, proof>>
  BY DEF Execute
<1>3. request[r] # None /\ approval[ActionOf(r)] # None
  BY <1>1, <1>2 DEF SentInv
<1>4. Granted(r) /\ request[r].capability = installed
  BY <1>1, <1>2 DEF RunningInv
<1>5. approval[ActionOf(r)].capability = installed
  BY <1>4 DEF Granted
<1>6. approval[ActionOf(r)].payload = request[r].payload
  <2>1. request[r].payload \in Payloads /\ approval[ActionOf(r)].payload \in Payloads
    BY <1>1, <1>3 DEF TypeOK, Claims, Approvals
  <2> QED BY <1>4, <2>1 DEF Granted, Digest, ExactNumbers
<1>7. ranUnder[r] = None
  BY <1>1, <1>2 DEF RanInv
<1>8. /\ Order(r[1]) # None /\ Order(r[1]).payload = target'
      /\ Order(r[1]).capability = installed /\ r[1] \in Actions
  BY <1>1, <1>2, <1>3, <1>5, <1>6, Ordered DEF ActionOf
<1>9. UNCHANGED <<[b \in Actions |-> Order(b)], [b \in Actions |-> Verdict(b)]>>
  BY <1>2 DEF Order, Verdict, CarriesApproval
<1> QED BY <1>2, <1>7, <1>8, <1>9 DEF Contract!Run

\* A read-back with the digest of an approval it follows judges the action; any
\* other leaves the contract where it is.
LEMMA VerifyRefines ==
    ASSUME ExactNumbers, IInv, NEW a \in Actions, Verify(a)
    PROVE  Contract!Judge(a) \/ UNCHANGED Contract!vars
<1>1. TypeOK
  BY DEF IInv
<1>2. PICK k \in Capabilities, p \in Payloads, d \in Digests :
        /\ Bound([capability |-> k, payload |-> p, digest |-> d])
        /\ proof' = [proof EXCEPT
             ![a] = [state |-> IF target = p THEN "verified" ELSE "failed",
                     payload |-> p, digest |-> d, under |-> installed,
                     known |-> approval[a] # None]]
  BY DEF Verify
<1> DEFINE found == [state |-> IF target = p THEN "verified" ELSE "failed",
                     payload |-> p, digest |-> d, under |-> installed,
                     known |-> approval[a] # None]
<1>3. proof[a] = None /\ UNCHANGED <<approval, ranUnder, target>>
  BY DEF Verify, runVars
<1>4. found # None
  <2>1. found \in Proofs
    BY <1>1 DEF Proofs, TypeOK
  <2> QED BY <2>1, NoneAssumption
<1>5. \A b \in Actions : proof'[b] = IF b = a THEN found ELSE proof[b]
  BY <1>1, <1>2 DEF TypeOK
<1>6. /\ found.digest = d /\ found.known = (approval[a] # None)
      /\ found.state = IF target = p THEN "verified" ELSE "failed"
  OBVIOUS
<1> HIDE DEF found
<1>7. Verdict(a) = None /\ \A b \in Actions : b # a => Verdict(b)' = Verdict(b)
  BY <1>3, <1>5 DEF Verdict, CarriesApproval
<1>8. UNCHANGED [b \in Actions |-> Order(b)]
  BY <1>3 DEF Order
<1>9. CASE CarriesApproval(a)'
  <2>1. approval[a] # None
    BY <1>3, <1>9 DEF CarriesApproval
  <2>2. d = Digest(approval[a].capability, approval[a].payload)
    BY <1>3, <1>5, <1>6, <1>9 DEF CarriesApproval, Digest
  <2>3. Float[p] = Float[approval[a].payload] /\ approval[a].payload \in Payloads
    BY <1>1, <1>2, <2>1, <2>2 DEF Bound, Digest, TypeOK, Approvals
  <2>4. p = approval[a].payload
    BY <2>3 DEF ExactNumbers
  <2>5. Order(a) # None /\ Order(a).payload = p
    BY <2>1, <2>4, Ordered
  <2>6. Verdict(a)' = IF target = Order(a).payload THEN "verified" ELSE "failed"
    BY <1>4, <1>5, <1>6, <1>9, <2>1, <2>5 DEF Verdict
  <2>7. [b \in Actions |-> Verdict(b)]'
          = [[b \in Actions |-> Verdict(b)] EXCEPT ![a] =
               IF target = [b \in Actions |-> Order(b)][a].payload
               THEN "verified" ELSE "failed"]
    BY <1>7, <2>6
  <2> QED BY <1>3, <1>7, <1>8, <2>5, <2>7 DEF Contract!Judge
<1>10. CASE ~ CarriesApproval(a)'
  <2>1. Verdict(a)' = None
    BY <1>10 DEF Verdict
  <2> QED BY <1>3, <1>7, <1>8, <2>1 DEF Contract!vars
<1> QED BY <1>9, <1>10

LEMMA ContractStep ==
    ASSUME ExactNumbers, IInv, [Next]_vars
    PROVE  [Contract!Next]_(Contract!vars)
<1> USE DEF Contract!Next
<1>1. ASSUME NEW a \in Actions, Approve(a) PROVE Contract!Next
  BY <1>1, ApproveRefines
<1>2. ASSUME NEW a \in Actions, Verify(a)
      PROVE  Contract!Next \/ UNCHANGED Contract!vars
  BY <1>2, VerifyRefines
<1>3. ASSUME NEW r \in Requests, Execute(r) PROVE Contract!Next
  BY <1>3, ExecuteRefines DEF Requests, Contract!Requests
<1>4. CASE Drift
  <2>1. Contract!Drift
    BY <1>4 DEF Drift, Contract!Drift, runVars, Order, Verdict, CarriesApproval
  <2> QED BY <2>1
<1>5. ASSUME NEW r \in Requests, Submit(r) \/ Validate(r) \/ Answer(r) \/ Fail(r)
      PROVE  UNCHANGED Contract!vars
  <2>1. UNCHANGED <<approval, ranUnder, target, proof>>
    BY <1>5 DEF Submit, Validate, Answer, Fail, runVars
  <2> QED BY <2>1, SameForContract
<1>6. ASSUME NEW k \in Capabilities, Upgrade(k) PROVE UNCHANGED Contract!vars
  BY <1>6, SameForContract DEF Upgrade, runVars
<1>7. CASE Tick \/ UNCHANGED vars
  BY <1>7, SameForContract DEF Tick, vars, runVars
<1> QED BY <1>1, <1>2, <1>3, <1>4, <1>5, <1>6, <1>7 DEF Next

\* With exact numbers the actions implement the contract: what is approved is all a
\* request does, it does it once, and a verdict is about the resource as it was read.
THEOREM ActionsImplementContract ==
    ASSUME ExactNumbers PROVE Spec => ImplementsActionContract
<1>1. Init => Contract!Init
  BY DEF Init, Contract!Init, Order, Verdict, CarriesApproval, Requests, Contract!Requests
<1>2. IInv /\ [Next]_vars => [Contract!Next]_(Contract!vars)
  BY ContractStep
<1> QED BY <1>1, <1>2, Inductive, PTL
        DEF Spec, ImplementsActionContract, Contract!Spec
=============================================================================
