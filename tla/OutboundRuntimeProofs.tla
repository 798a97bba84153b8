------------------------ MODULE OutboundRuntimeProofs ------------------------
(***************************************************************************)
(* Theorems about OutboundRuntime for any number of dispatches, any lease, *)
(* age and clock difference: what an accepted result promises about the    *)
(* lease, the request and the evidence, with pauses of the goroutine at    *)
(* every point where it has read one clock and not yet the next.           *)
(***************************************************************************)
EXTENDS OutboundRuntime, TLAPS

-----------------------------------------------------------------------------
(* The inductive invariant. *)

\* Past its checks, a dispatch was unexpired and its request fresh at base.
CheckedInv ==
    \A d \in Dispatches :
        pc[d] \in {"valid", "calling", "returned", "inTime", "accepted"} =>
            /\ base[d] <= now
            /\ base[d] < expiresAt[d]
            /\ requestedAt[d] <= base[d] + Slack
            /\ base[d] < requestedAt[d] + Age(d)

\* A computing goroutine looked at a clock at most MaxPause ago.
PauseInv ==
    \A d \in Dispatches :
        /\ Computing(d) => seenAt[d] <= now /\ now <= seenAt[d] + MaxPause
        /\ pc[d] = "valid" => seenAt[d] = base[d]
        /\ pc[d] = "inTime" => seenAt[d] < deadline[d]

\* The timers run from some moment between base and base + MaxPause.
TimerInv ==
    \A d \in Dispatches :
        pc[d] \in {"calling", "returned", "inTime"} =>
            /\ base[d] <= startedAt[d] /\ startedAt[d] <= base[d] + MaxPause
            /\ startedAt[d] <= now
            /\ base[d] < deadline[d]
            /\ deadline[d] <= expiresAt[d] + MaxPause
            /\ deadline[d] <= requestedAt[d] + Age(d) + MaxPause

IInv == /\ TypeOK /\ CheckedInv /\ PauseInv /\ TimerInv
        /\ LeaseRespected /\ RequestStillFresh /\ EvidenceCurrent

-----------------------------------------------------------------------------
(* The inductive step. *)

LEMMA AgeNat == \A d \in Dispatches : Age(d) \in Nat
BY LimitAssumption DEF Age

\* A call is refused when the context has ended before it, or starts its two timers.
LEMMA CallCases ==
    ASSUME TypeOK, NEW d \in Dispatches, Call(d)
    PROVE  \/ pc' = [pc EXCEPT ![d] = "refused"] /\ UNCHANGED callVars
           \/ \E lease \in base[d] .. now : \E started \in lease .. now :
                /\ pc' = [pc EXCEPT ![d] = "calling"]
                /\ startedAt' = [startedAt EXCEPT ![d] = started]
                /\ deadline' = [deadline EXCEPT
                        ![d] = Earlier(lease + LeaseLeft(d), now + AgeLeft(d))]
<1>1. PICK lease \in base[d] .. now : \E looked \in lease .. now :
        IF looked < lease + LeaseLeft(d)
        THEN /\ Goto(d, "calling")
             /\ \E started \in looked .. now : startedAt' = [startedAt EXCEPT ![d] = started]
             /\ deadline' = [deadline EXCEPT
                     ![d] = Earlier(lease + LeaseLeft(d), now + AgeLeft(d))]
        ELSE Goto(d, "refused") /\ UNCHANGED callVars
  BY DEF Call
<1>2. PICK looked \in lease .. now :
        IF looked < lease + LeaseLeft(d)
        THEN /\ Goto(d, "calling")
             /\ \E started \in looked .. now : startedAt' = [startedAt EXCEPT ![d] = started]
             /\ deadline' = [deadline EXCEPT
                     ![d] = Earlier(lease + LeaseLeft(d), now + AgeLeft(d))]
        ELSE Goto(d, "refused") /\ UNCHANGED callVars
  BY <1>1
<1>3. looked .. now \subseteq lease .. now
  BY DEF TypeOK
<1> QED BY <1>2, <1>3 DEF Goto

\* Every variable keeps its type.
LEMMA TypeStep == TypeOK /\ [Next]_vars => TypeOK'
<1> SUFFICES ASSUME TypeOK, [Next]_vars PROVE TypeOK'
  OBVIOUS
<1> USE LimitAssumption, AgeNat DEF TypeOK, Goto, Stages, requestVars, callVars
<1>1. ASSUME NEW d \in Dispatches, Claim(d) PROVE TypeOK'
  <2>1. PICK t \in (now - Behind) .. (now + Ahead), lease \in 0 .. MaxLease,
             wait \in 0 .. Age(d) :
          /\ requestedAt' = [requestedAt EXCEPT ![d] = t - wait]
          /\ expiresAt' = [expiresAt EXCEPT ![d] = t + lease]
    BY <1>1 DEF Claim
  <2>2. t - wait \in Int /\ t + lease \in Int
    OBVIOUS
  <2> QED BY <1>1, <2>1, <2>2 DEF Claim
<1>2. ASSUME NEW d \in Dispatches, Validate(d) PROVE TypeOK'
  BY <1>2 DEF Validate
<1>3. ASSUME NEW d \in Dispatches, Call(d) PROVE TypeOK'
  <2>1. CASE pc' = [pc EXCEPT ![d] = "refused"] /\ UNCHANGED callVars
    BY <1>3, <2>1 DEF Call
  <2>2. ASSUME NEW lease \in base[d] .. now, NEW started \in lease .. now,
               pc' = [pc EXCEPT ![d] = "calling"],
               startedAt' = [startedAt EXCEPT ![d] = started],
               deadline' = [deadline EXCEPT
                   ![d] = Earlier(lease + LeaseLeft(d), now + AgeLeft(d))]
        PROVE  TypeOK'
    <3>1. Earlier(lease + LeaseLeft(d), now + AgeLeft(d)) \in Int
      BY DEF Earlier, LeaseLeft, AgeLeft
    <3> QED BY <1>3, <2>2, <3>1 DEF Call
  <2> QED BY <1>3, <2>1, <2>2, CallCases DEF callVars
<1>4. ASSUME NEW d \in Dispatches, Return(d) PROVE TypeOK'
  BY <1>4 DEF Return
<1>5. ASSUME NEW d \in Dispatches, ProviderFails(d) PROVE TypeOK'
  BY <1>5 DEF ProviderFails
<1>6. ASSUME NEW d \in Dispatches, CheckContext(d) PROVE TypeOK'
  BY <1>6 DEF CheckContext
<1>7. ASSUME NEW d \in Dispatches, Accept(d) PROVE TypeOK'
  BY <1>7 DEF Accept
<1>8. CASE Tick
  BY <1>8 DEF Tick
<1>9. CASE UNCHANGED vars
  BY <1>9 DEF vars
<1> QED BY <1>1, <1>2, <1>3, <1>4, <1>5, <1>6, <1>7, <1>8, <1>9 DEF Next

LEMMA InvStep == IInv /\ [Next]_vars => IInv'
<1> SUFFICES ASSUME IInv, [Next]_vars PROVE IInv'
  OBVIOUS
<1>0. TypeOK'
  BY TypeStep DEF IInv
<1> USE <1>0, LimitAssumption, AgeNat
    DEF IInv, TypeOK, CheckedInv, PauseInv, TimerInv, LeaseRespected,
        RequestStillFresh, EvidenceCurrent, Age, Discovers, Computing, Goto,
        requestVars, callVars
<1>1. ASSUME NEW d \in Dispatches, Claim(d) PROVE IInv'
  BY <1>1 DEF Claim
<1>2. ASSUME NEW d \in Dispatches, Validate(d) PROVE IInv'
  BY <1>2 DEF Validate, Unexpired, Fresh
<1>3. ASSUME NEW d \in Dispatches, Call(d) PROVE IInv'
  <2>1. CASE pc' = [pc EXCEPT ![d] = "refused"] /\ UNCHANGED callVars
    BY <1>3, <2>1 DEF Call
  <2>2. ASSUME NEW lease \in base[d] .. now, NEW started \in lease .. now,
               pc' = [pc EXCEPT ![d] = "calling"],
               startedAt' = [startedAt EXCEPT ![d] = started],
               deadline' = [deadline EXCEPT
                   ![d] = Earlier(lease + LeaseLeft(d), now + AgeLeft(d))]
        PROVE  IInv'
    <3>1. /\ deadline'[d] <= lease + LeaseLeft(d)
          /\ deadline'[d] <= now + AgeLeft(d)
          /\ \/ deadline'[d] = lease + LeaseLeft(d)
             \/ deadline'[d] = now + AgeLeft(d)
      BY <2>2 DEF Earlier, LeaseLeft, AgeLeft
    <3> QED BY <1>3, <2>2, <3>1 DEF Call, LeaseLeft, AgeLeft
  <2> QED BY <1>3, <2>1, <2>2, CallCases DEF callVars
<1>4. ASSUME NEW d \in Dispatches, Return(d) PROVE IInv'
  BY <1>4 DEF Return
<1>5. ASSUME NEW d \in Dispatches, ProviderFails(d) PROVE IInv'
  BY <1>5 DEF ProviderFails
<1>6. ASSUME NEW d \in Dispatches, CheckContext(d) PROVE IInv'
  BY <1>6 DEF CheckContext
<1>7. ASSUME NEW d \in Dispatches, Accept(d) PROVE IInv'
  BY <1>7 DEF Accept, ResultTimely, ResultClock
<1>8. CASE Tick
  BY <1>8 DEF Tick
<1>9. CASE UNCHANGED vars
  BY <1>9 DEF vars
<1> QED BY <1>1, <1>2, <1>3, <1>4, <1>5, <1>6, <1>7, <1>8, <1>9 DEF Next

LEMMA Inductive == Spec => []IInv
<1>1. Init => IInv
  BY LimitAssumption
     DEF Init, IInv, TypeOK, Stages, CheckedInv, PauseInv, TimerInv,
         LeaseRespected, RequestStillFresh, EvidenceCurrent, Computing
<1> QED BY <1>1, InvStep, PTL DEF Spec

-----------------------------------------------------------------------------
(* The results. *)

\* No result is accepted more than two pauses after the dispatch's lease ended.
THEOREM LeaseHolds == Spec => []LeaseRespected
<1>1. IInv => LeaseRespected
  BY DEF IInv
<1> QED BY <1>1, Inductive, PTL

\* No result is accepted more than one pause after its request became stale.
THEOREM RequestFreshness == Spec => []RequestStillFresh
<1>1. IInv => RequestStillFresh
  BY DEF IInv
<1> QED BY <1>1, Inductive, PTL

\* Accepted evidence is current, whatever date the provider put on it.
THEOREM EvidenceFreshness == Spec => []EvidenceCurrent
<1>1. IInv => EvidenceCurrent
  BY DEF IInv
<1> QED BY <1>1, Inductive, PTL

\* The provider's context never outlives the request's age by more than the
\* accepted clock difference and one pause.
THEOREM CallTime == Spec => []CallBounded
<1>1. IInv => CallBounded
  <2> SUFFICES ASSUME IInv, NEW d \in Dispatches, pc[d] = "calling"
               PROVE  /\ base[d] < deadline[d]
                      /\ deadline[d] <= startedAt[d] + MaxPause + Age(d) + Slack
    BY DEF CallBounded
  <2> QED BY LimitAssumption, AgeNat
          DEF IInv, TypeOK, CheckedInv, TimerInv
<1> QED BY <1>1, Inductive, PTL
=============================================================================
