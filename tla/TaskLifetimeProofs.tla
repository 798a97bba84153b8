--------------------------- MODULE TaskLifetimeProofs ---------------------------
(***************************************************************************)
(* Theorems about TaskLifetime for any number of requests and sendings,    *)
(* any lives, delays and differences of the clocks, and any releases, each *)
(* with a longest life of its own: credentials end with their task, live   *)
(* no longer than the releases at both ends allow, and leave the issuer    *)
(* while their request is fresh.                                           *)
(***************************************************************************)
EXTENDS TaskLifetime, TLAPS

-----------------------------------------------------------------------------
(* The inductive invariant. *)

\* A request carries the deadline, or a whole lease fits.
AskedInv ==
    \A r \in Requests : asked[r] # Absent =>
        /\ asked[r].now <= now
        /\ IF asked[r].lifetime = Absent
           THEN asked[r].now + asked[r].pinned.ttl <= deadline
           ELSE asked[r].lifetime.expires = deadline

Minted(j) == job[j].stage \in {"minted", "issued", "accepted"}

\* What is under way was asked for, and minted after that.
JobInv ==
    \A j \in Jobs :
        /\ job[j].stage # "unsent" => /\ asked[job[j].of] # Absent
                                      /\ job[j].credential \in Credentials
        /\ Minted(j) => asked[job[j].of].now <= job[j].minted + Behind

\* What is handed out fits the request.
ExpiryInv ==
    \A j \in Jobs : Out(j) =>
        LET request == asked[job[j].of]
        IN  /\ job[j].expiry <= request.now + job[j].credential.ttl
            /\ job[j].stage = "accepted"
                => job[j].expiry <= request.now + request.pinned.ttl
            /\ request.lifetime # Absent => job[j].expiry <= request.lifetime.expires

IInv == TypeOK /\ AskedInv /\ JobInv /\ ExpiryInv

-----------------------------------------------------------------------------
(* The inductive step. *)

LEMMA LagBounds == \A lag \in Lags : lag \in Int /\ 0 <= lag + Behind
BY LifetimeAssumption DEF Lags

\* The request of a job that was made is a record of its type.
LEMMA RequestOf ==
    ASSUME TypeOK, NEW j \in Jobs, asked[job[j].of] # Absent
    PROVE  /\ job[j].of \in Requests
           /\ asked[job[j].of] \in RequestType
BY DEF TypeOK, JobType

\* Every variable keeps its type.
LEMMA TypeStep == TypeOK /\ [Next]_vars => TypeOK'
<1> SUFFICES ASSUME TypeOK, [Next]_vars PROVE TypeOK'
  OBVIOUS
<1> USE LifetimeAssumption, LagBounds DEF TypeOK, JobType, Stages
<1>1. ASSUME NEW r \in Requests, Ask(r) PROVE TypeOK'
  <2> DEFINE request ==
        [now |-> now, pinned |-> pinned,
         lifetime |-> IF pinned.protocol = Legacy THEN Absent
                      ELSE [protocol |-> pinned.protocol, expires |-> deadline]]
  <2>1. request \in RequestType
    BY DEF RequestType, Deadlines
  <2>2. asked' = [asked EXCEPT ![r] = request]
    BY <1>1 DEF Ask
  <2> HIDE DEF request
  <2> QED BY <1>1, <2>1, <2>2 DEF Ask
<1>2. ASSUME NEW j \in Jobs, NEW lag \in Lags, Start(j, lag) PROVE TypeOK'
  BY <1>2, ZenonT(60) DEF Start
<1>3. ASSUME NEW j \in Jobs, NEW lag \in Lags, NEW life \in 1..LongestTTL,
             Mint(j, lag, life)
      PROVE  TypeOK'
  <2>1. now + lag \in Int /\ now + lag + life \in Int
    OBVIOUS
  <2> QED BY <1>3, <2>1, ZenonT(60) DEF Mint
<1>4. ASSUME NEW j \in Jobs, NEW lag \in Lags, Issue(j, lag) PROVE TypeOK'
  BY <1>4 DEF Issue
<1>5. ASSUME NEW j \in Jobs, Accept(j) PROVE TypeOK'
  BY <1>5 DEF Accept
<1>6. ASSUME NEW credential \in Credentials, Install(credential) \/ Pin(credential)
      PROVE  TypeOK'
  BY <1>6 DEF Install, Pin
<1>7. CASE Tick
  BY <1>7 DEF Tick
<1>8. CASE UNCHANGED vars
  BY <1>8 DEF vars
<1> QED BY <1>1, <1>2, <1>3, <1>4, <1>5, <1>6, <1>7, <1>8 DEF Next

\* The check after issuance, wherever it is made, bounds the expiry.
LEMMA IssuedFits ==
    ASSUME NEW request, NEW credential, NEW expiry, NEW clock,
           ValidateIssued(request, credential, expiry, clock)
    PROVE  /\ expiry <= request.now + credential.ttl
           /\ request.lifetime # Absent => expiry <= request.lifetime.expires
BY DEF ValidateIssued

LEMMA InvStep == IInv /\ [Next]_vars => IInv'
<1> SUFFICES ASSUME IInv, [Next]_vars PROVE IInv'
  OBVIOUS
<1>0. TypeOK /\ TypeOK'
  BY TypeStep DEF IInv
<1> USE DEF Out, Minted
<1>1. ASSUME NEW r \in Requests, Ask(r) PROVE IInv'
  <2>1. \A s \in Requests : s # r => asked'[s] = asked[s]
    BY <1>0, <1>1 DEF Ask, TypeOK
  <2>2. AskedInv'
    <3> SUFFICES ASSUME NEW s \in Requests, asked'[s] # Absent
                 PROVE  /\ asked'[s].now <= now'
                        /\ IF asked'[s].lifetime = Absent
                           THEN asked'[s].now + asked'[s].pinned.ttl <= deadline'
                           ELSE asked'[s].lifetime.expires = deadline'
      BY DEF AskedInv
    <3>1. CASE s = r
      <4>1. /\ asked'[s].now = now /\ asked'[s].pinned = pinned
            /\ asked'[s].lifetime =
                 IF pinned.protocol = Legacy THEN Absent
                 ELSE [protocol |-> pinned.protocol, expires |-> deadline]
        BY <3>1, <1>0, <1>1 DEF Ask, TypeOK
      <4>2. pinned.protocol # Legacy => asked'[s].lifetime \in Deadlines
        BY <4>1, <1>0, LifetimeAssumption DEF TypeOK, Deadlines
      <4> QED BY <4>1, <4>2, <1>0, <1>1, LifetimeAssumption DEF Ask, TypeOK
    <3>2. CASE s # r
      BY <3>2, <2>1, <1>1 DEF IInv, AskedInv, Ask
    <3> QED BY <3>1, <3>2
  <2>3. \A j \in Jobs : asked[job[j].of] # Absent => asked'[job[j].of] = asked[job[j].of]
    BY <2>1, <1>0, <1>1 DEF Ask, TypeOK, JobType
  <2>4. job' = job
    BY <1>1 DEF Ask
  <2>5. JobInv'
    BY <2>3, <2>4 DEF IInv, JobInv
  <2>6. ExpiryInv'
    BY <2>3, <2>4 DEF IInv, JobInv, ExpiryInv
  <2> QED BY <1>0, <2>2, <2>5, <2>6 DEF IInv
<1>2. ASSUME NEW j \in Jobs, NEW lag \in Lags, Start(j, lag) PROVE IInv'
  <2>1. AskedInv'
    BY <1>2 DEF IInv, AskedInv, Start
  <2>2. JobInv'
    BY <1>0, <1>2 DEF IInv, JobInv, Start, TypeOK, JobType
  <2>3. ExpiryInv'
    BY <1>0, <1>2 DEF IInv, ExpiryInv, Start, TypeOK, JobType
  <2> QED BY <1>0, <2>1, <2>2, <2>3 DEF IInv
<1>3. ASSUME NEW j \in Jobs, NEW lag \in Lags, NEW life \in 1..LongestTTL,
             Mint(j, lag, life)
      PROVE  IInv'
  <2>1. AskedInv'
    BY <1>3 DEF IInv, AskedInv, Mint
  <2>2. JobInv'
    <3>1. asked[job[j].of] # Absent /\ job[j].credential \in Credentials
      BY <1>3 DEF IInv, JobInv, Mint
    <3>2. asked[job[j].of].now <= now /\ asked[job[j].of].now \in Nat
      BY <3>1, <1>0, RequestOf DEF IInv, AskedInv, RequestType
    <3>3. now <= now + lag + Behind /\ now + lag \in Int
      BY <1>0, LagBounds, LifetimeAssumption DEF TypeOK
    <3>4. \A k \in Jobs : job'[k].of = job[k].of
      BY <1>0, <1>3 DEF Mint, TypeOK, JobType
    <3>5. /\ job'[j].minted = now + lag /\ job'[j].stage = "minted"
          /\ job'[j].credential = job[j].credential
          /\ \A k \in Jobs : k # j => job'[k] = job[k]
      BY <1>0, <1>3 DEF Mint, TypeOK, JobType
    <3>6. asked[job[j].of].now <= now + lag + Behind
      BY <3>2, <3>3, <1>0, LifetimeAssumption DEF TypeOK
    <3>7. asked' = asked
      BY <1>3 DEF Mint
    <3> QED BY <3>1, <3>4, <3>5, <3>6, <3>7 DEF IInv, JobInv
  <2>3. ExpiryInv'
    BY <1>0, <1>3 DEF IInv, ExpiryInv, Mint, TypeOK, JobType
  <2> QED BY <1>0, <2>1, <2>2, <2>3 DEF IInv
<1>4. ASSUME NEW j \in Jobs, NEW lag \in Lags, Issue(j, lag) PROVE IInv'
  <2>1. AskedInv'
    BY <1>4 DEF IInv, AskedInv, Issue
  <2>2. /\ job[j].stage = "minted" /\ job' = [job EXCEPT ![j].stage = "issued"]
        /\ asked' = asked
    BY <1>4 DEF Issue
  <2>3. JobInv'
    BY <1>0, <2>2 DEF IInv, JobInv, TypeOK, JobType
  <2>4. /\ job[j].expiry <= asked[job[j].of].now + job[j].credential.ttl
        /\ asked[job[j].of].lifetime # Absent =>
             job[j].expiry <= asked[job[j].of].lifetime.expires
    BY <1>4, IssuedFits DEF Issue
  <2>5. ExpiryInv'
    BY <1>0, <2>2, <2>4 DEF IInv, ExpiryInv, TypeOK, JobType
  <2> QED BY <1>0, <2>1, <2>3, <2>5 DEF IInv
<1>5. ASSUME NEW j \in Jobs, Accept(j) PROVE IInv'
  <2>1. AskedInv'
    BY <1>5 DEF IInv, AskedInv, Accept
  <2>2. JobInv'
    BY <1>0, <1>5 DEF IInv, JobInv, Accept, TypeOK, JobType
  <2>3. /\ job[j].stage = "issued" /\ job' = [job EXCEPT ![j].stage = "accepted"]
        /\ asked' = asked
        /\ job[j].expiry <= asked[job[j].of].now + asked[job[j].of].pinned.ttl
    BY <1>5, IssuedFits DEF Accept
  <2>4. ExpiryInv'
    BY <1>0, <2>3 DEF IInv, ExpiryInv, TypeOK, JobType
  <2> QED BY <1>0, <2>1, <2>2, <2>4 DEF IInv
<1>6. ASSUME NEW credential \in Credentials, Install(credential) \/ Pin(credential)
      PROVE  IInv'
  BY <1>0, <1>6 DEF Install, Pin, IInv, AskedInv, JobInv, ExpiryInv
<1>7. CASE Tick
  <2>1. AskedInv'
    <3>1. \A r \in Requests : asked[r] # Absent => asked[r].now \in Nat
      BY <1>0 DEF TypeOK, RequestType
    <3> QED BY <1>0, <1>7, <3>1 DEF IInv, AskedInv, Tick, TypeOK
  <2>2. JobInv' /\ ExpiryInv'
    BY <1>7 DEF IInv, JobInv, ExpiryInv, Tick
  <2> QED BY <1>0, <2>1, <2>2 DEF IInv
<1>8. CASE UNCHANGED vars
  BY <1>0, <1>8 DEF vars, IInv, AskedInv, JobInv, ExpiryInv
<1> QED BY <1>1, <1>2, <1>3, <1>4, <1>5, <1>6, <1>7, <1>8 DEF Next

LEMMA InvInit == Init => IInv
<1> SUFFICES ASSUME Init PROVE IInv
  OBVIOUS
<1>1. TypeOK
  BY LifetimeAssumption DEF Init, TypeOK, JobType, Stages
<1>2. \A j \in Jobs : job[j].stage = "unsent"
  BY DEF Init
<1> QED BY <1>1, <1>2 DEF Init, IInv, AskedInv, JobInv, ExpiryInv, Out, Minted

LEMMA InvAlways == Spec => []IInv
BY InvInit, InvStep, PTL DEF Spec

-----------------------------------------------------------------------------
(* What is handed out. *)

\* The state keeps its types.
THEOREM TypeCorrect == Spec => []TypeOK
<1>1. IInv => TypeOK
  BY DEF IInv
<1> QED BY <1>1, InvAlways, PTL

\* Credentials for requests with a deadline, and all that the control plane accepts,
\* end with their task, whatever each release declares and however often a request
\* was sent (ValidateIssuedLifetime, made by both ends).
THEOREM CredentialsEndWithTask == Spec => []EndsWithTask
<1>1. IInv => EndsWithTask
  <2> DEFINE request(j) == asked[job[j].of]
  <2> SUFFICES ASSUME IInv, NEW j \in Jobs, Out(j),
                      \/ request(j).lifetime # Absent
                      \/ job[j].stage = "accepted"
                      \/ job[j].credential.ttl <= request(j).pinned.ttl
               PROVE  job[j].expiry <= deadline
    BY DEF EndsWithTask
  <2>1. request(j) # Absent /\ job[j].credential \in Credentials
    BY DEF IInv, JobInv, Out
  <2>2. job[j].of \in Requests /\ request(j).now \in Nat
        /\ request(j).pinned.ttl \in Nat /\ job[j].credential.ttl \in Nat
    BY <2>1, RequestOf, LifetimeAssumption DEF IInv, RequestType
  <2>3. IF request(j).lifetime = Absent
        THEN request(j).now + request(j).pinned.ttl <= deadline
        ELSE request(j).lifetime.expires = deadline
    BY <2>1, <2>2 DEF IInv, AskedInv
  <2>4. /\ job[j].expiry <= request(j).now + job[j].credential.ttl
        /\ job[j].stage = "accepted"
             => job[j].expiry <= request(j).now + request(j).pinned.ttl
        /\ request(j).lifetime # Absent
             => job[j].expiry <= request(j).lifetime.expires
    BY DEF IInv, ExpiryInv
  <2>5. job[j].expiry \in Int /\ deadline \in Nat
    BY DEF IInv, TypeOK, JobType
  <2> HIDE DEF request
  <2>6. CASE request(j).lifetime # Absent
    BY <2>3, <2>4, <2>6
  <2>7. CASE request(j).lifetime = Absent
    BY <2>2, <2>3, <2>4, <2>5, <2>7
  <2> QED BY <2>6, <2>7
<1> QED BY <1>1, InvAlways, PTL

\* What is handed out was minted for no longer than its issuer's release allows and
\* the clocks differ, what is accepted for no longer than the pinned release allows
\* (the longest life is counted from the request's date).
THEOREM LivesAreBounded == Spec => []LifeBounded
<1>1. IInv => LifeBounded
  <2> DEFINE life(j) == job[j].expiry - job[j].minted
             request(j) == asked[job[j].of]
  <2> SUFFICES ASSUME IInv, NEW j \in Jobs, Out(j)
               PROVE  /\ life(j) <= job[j].credential.ttl + Behind
                      /\ job[j].stage = "accepted"
                           => life(j) <= request(j).pinned.ttl + Behind
    BY DEF LifeBounded, Out
  <2>1. /\ request(j) # Absent /\ request(j).now <= job[j].minted + Behind
        /\ job[j].credential \in Credentials
    BY DEF IInv, JobInv, Out, Minted
  <2>2. request(j).now \in Nat
        /\ request(j).pinned.ttl \in Nat /\ job[j].credential.ttl \in Nat
    BY <2>1, RequestOf, LifetimeAssumption DEF IInv, RequestType
  <2>3. /\ job[j].expiry <= request(j).now + job[j].credential.ttl
        /\ job[j].stage = "accepted"
             => job[j].expiry <= request(j).now + request(j).pinned.ttl
    BY DEF IInv, ExpiryInv
  <2>4. job[j].expiry \in Int /\ job[j].minted \in Int
    BY DEF IInv, TypeOK, JobType
  <2> HIDE DEF request
  <2> QED BY <2>1, <2>2, <2>3, <2>4, LifetimeAssumption
<1> QED BY <1>1, InvAlways, PTL

\* A credential for a request with a deadline leaves the issuer while the request
\* is fresh and the task has time left, up to the clocks (ValidateIssueLifetime is
\* repeated after issuance).
THEOREM FreshAtIssue == Spec => IssuedWhileFresh
<1> DEFINE Leaves(j) ==
      /\ job[j].stage = "minted" /\ job'[j].stage = "issued"
      /\ asked[job[j].of].lifetime # Absent
<1> DEFINE Fresh ==
      \A j \in Jobs : Leaves(j) =>
          /\ now < asked[job[j].of].now + Minute + Behind
          /\ now < deadline + Behind
<1>1. IInv /\ [Next]_vars => [Fresh]_vars
  <2> SUFFICES ASSUME IInv, Next, NEW j \in Jobs, Leaves(j)
               PROVE  /\ now < asked[job[j].of].now + Minute + Behind
                      /\ now < deadline + Behind
    OBVIOUS
  <2> DEFINE request == asked[job[j].of]
  <2>1. PICK lag \in Lags : Issue(j, lag)
    <3>1. TypeOK
      BY DEF IInv
    <3>2. ASSUME NEW k \in Jobs, NEW lag \in Lags, Start(k, lag) PROVE FALSE
      BY <3>1, <3>2 DEF Start, TypeOK, JobType
    <3>3. ASSUME NEW k \in Jobs, NEW lag \in Lags, NEW life \in 1..LongestTTL,
                 Mint(k, lag, life)
          PROVE  FALSE
      BY <3>1, <3>3 DEF Mint, TypeOK, JobType
    <3>4. ASSUME NEW k \in Jobs, Accept(k) PROVE FALSE
      BY <3>1, <3>4 DEF Accept, TypeOK, JobType
    <3>5. ASSUME NEW k \in Jobs, NEW lag \in Lags, Issue(k, lag) PROVE k = j
      BY <3>1, <3>5 DEF Issue, TypeOK, JobType
    <3> QED
      BY <3>2, <3>3, <3>4, <3>5 DEF Next, Ask, Install, Pin, Tick
  <2>2. /\ now + lag < request.now + Minute
        /\ now + lag < request.lifetime.expires
    BY <2>1 DEF Issue, ValidateIssued, ValidateIssue
  <2>3. request # Absent
    BY DEF IInv, JobInv
  <2>4. request.now \in Nat /\ job[j].of \in Requests
    BY <2>3, RequestOf DEF IInv, RequestType
  <2>5. request.lifetime.expires = deadline
    BY <2>3, <2>4 DEF IInv, AskedInv
  <2>6. now \in Nat /\ deadline \in Nat
    BY DEF IInv, TypeOK
  <2> HIDE DEF request
  <2>7. now < request.now + Minute + Behind /\ now < deadline + Behind
    BY <2>2, <2>4, <2>5, <2>6, LagBounds, LifetimeAssumption
  <2> QED BY <2>7 DEF request
<1>2. IssuedWhileFresh <=> [][Fresh]_vars
  BY DEF IssuedWhileFresh
<1> HIDE DEF Fresh
<1> QED BY <1>1, <1>2, InvAlways, PTL DEF Spec
=============================================================================
