------------------------- MODULE SignedExchangeProofs -------------------------
(***************************************************************************)
(* Theorems about SignedExchange for any number of calls, copies, releases *)
(* and restarts and for any clocks.  The main one: when the retention of   *)
(* h.seen covers the acceptance window, the clocks' difference and the     *)
(* longest pause between the signature check and the map, one adapter      *)
(* process never serves a nonce twice.  With the code's constants          *)
(* (2 minutes and 3 minutes) that leaves one minute for the two together.  *)
(***************************************************************************)
EXTENDS SignedExchange, TLAPS

RetentionCovers == Window + Ahead + MaxPause <= Retention

-----------------------------------------------------------------------------
(* The inductive invariant. *)

\* h.mu is held by the goroutines between the lookup and the record, of which
\* there is at most one.
LockInv ==
    /\ \A a \in Attempts : pc[a] = "holding" <=> a \in holder
    /\ \A a, b \in holder : a = b

\* A request's timestamp is not far ahead of the time it was sent.
StampInv ==
    \A c \in Calls : result[c] # "none" =>
        /\ sentAt[c] <= now
        /\ stamp[c] <= sentAt[c] + Ahead

\* A goroutine inside authenticate checked its signature a short while ago.
PauseInv ==
    \A a \in Attempts : Authenticating(a) =>
        /\ result[CallOf(a)] # "none"
        /\ checkedAt[a] <= stamp[CallOf(a)] + Window
        /\ checkedAt[a] <= now
        /\ now <= checkedAt[a] + MaxPause

\* Nonces are recorded after their request was sent.
SeenInv ==
    \A v \in DOMAIN seen :
        /\ result[v] # "none"
        /\ sentAt[v] <= seen[v]

\* A nonce the running process admitted is still in h.seen, or too old for any
\* copy that is past its signature check or has yet to reach it.
MemoryInv ==
    \A a \in Attempts : admittedIn[a] = life =>
        /\ result[CallOf(a)] # "none"
        /\ \/ CallOf(a) \in DOMAIN seen
           \/ now > stamp[CallOf(a)] + Window + MaxPause

\* A goroutine that is about to record its nonce is the first one to do so.
FirstInv ==
    \A a \in Attempts : pc[a] = "holding" =>
        \A b \in Attempts : CallOf(b) = CallOf(a) => admittedIn[b] # life

\* AtMostOnce over pairs of attempts, and no attempt is ahead of the process.
OnceInv ==
    /\ \A a \in Attempts : admittedIn[a] <= life
    /\ \A a, b \in Attempts :
        (a # b /\ CallOf(a) = CallOf(b) /\ admittedIn[a] # 0)
            => admittedIn[a] # admittedIn[b]

IInv == /\ TypeOK /\ LockInv /\ StampInv /\ PauseInv
        /\ SeenInv /\ MemoryInv /\ FirstInv /\ OnceInv

-----------------------------------------------------------------------------
(* Lemmas about the operators. *)

\* An attempt is a copy of a call.
LEMMA AttemptFacts ==
    /\ \A a \in Attempts : CallOf(a) \in Calls
    /\ \A c \in Calls, k \in Copies : /\ <<c, k>> \in Attempts
                                      /\ CallOf(<<c, k>>) = c
BY DEF Attempts, CallOf

LEMMA NoAnswerFact == NoAnswer \notin Attempts
<1>1. \A a \in Attempts : DOMAIN a = {1, 2}
  BY DEF Attempts
<1>2. DOMAIN NoAnswer = {}
  BY DEF NoAnswer
<1> QED BY <1>1, <1>2

\* Truncating a timestamp never moves it later.
LEMMA WireBelow == \A t \in Int : Wire(t) \in Int /\ Wire(t) <= t
<1> TAKE t \in Int
<1>1. t % Resolution \in Nat
  BY TimeAssumption
<1> QED BY <1>1 DEF Wire

-----------------------------------------------------------------------------
(* Type correctness. *)

LEMMA TypeStep == TypeOK /\ [Next]_vars => TypeOK'
<1> SUFFICES ASSUME TypeOK, [Next]_vars PROVE TypeOK'
  OBVIOUS
<1> USE SetAssumption, TimeAssumption, AttemptFacts DEF TypeOK, Goto, Stages
<1>1. ASSUME NEW c \in Calls, Send(c) PROVE TypeOK'
  <2>1. PICK m \in Manifests, n \in Names, t \in ClientClock :
            /\ pinned' = [pinned EXCEPT ![c] = m]
            /\ named' = [named EXCEPT ![c] = n]
            /\ stamp' = [stamp EXCEPT ![c] = Wire(t)]
    BY <1>1 DEF Send
  <2>2. Wire(t) \in Int
    BY WireBelow DEF ClientClock
  <2> QED BY <1>1, <2>1, <2>2 DEF Send, processVars, lockVars, serverVars
<1>2. ASSUME NEW c \in Calls, Fail(c) PROVE TypeOK'
  <2>1. result' \in [Calls -> {"none", "pending", "ok", "error"}]
    BY <1>2 DEF Fail
  <2> QED BY <1>2, <2>1 DEF Fail, processVars, lockVars, serverVars
<1>3. ASSUME NEW c \in Calls, NEW a \in Attempts, Receive(c, a) PROVE TypeOK'
  BY <1>3, ZenonT(60) DEF Receive, processVars, lockVars, serverVars
<1>4. ASSUME NEW a \in Attempts, Arrive(a) PROVE TypeOK'
  <2>1. PICK h \in Identities :
          IF Accepts(CallOf(a), h)
          THEN /\ Goto(a, "verified")
               /\ headers' = [headers EXCEPT ![a] = h]
               /\ checkedAt' = [checkedAt EXCEPT ![a] = now]
          ELSE /\ Goto(a, "done")
               /\ UNCHANGED <<headers, checkedAt>>
    BY <1>4 DEF Arrive
  <2>2. pc' \in [Attempts -> Stages]
    BY <2>1
  <2>3. headers' \in [Attempts -> Identities \cup {NoHeaders}]
    BY <2>1
  <2>4. checkedAt' \in [Attempts -> Nat]
    BY <2>1
  <2> QED BY <1>4, <2>2, <2>3, <2>4 DEF Arrive, processVars, lockVars, clientVars
<1>5. ASSUME NEW a \in Attempts, Check(a) PROVE TypeOK'
  <2>1. Kept \subseteq DOMAIN seen
    BY DEF Kept
  <2>2. DOMAIN seen' \subseteq Calls /\ seen' \in [DOMAIN seen' -> Nat]
    <3>1. seen' = [v \in Kept |-> seen[v]]
      BY <1>5 DEF Check
    <3>2. \A v \in Kept : v \in Calls /\ seen[v] \in Nat
      BY <2>1
    <3>3. DOMAIN seen' = Kept
      BY <3>1
    <3> QED BY <3>1, <3>2, <3>3
  <2>3. holder' \subseteq Attempts /\ pc' \in [Attempts -> Stages]
    <3>1. \/ Goto(a, "done") /\ holder' = holder
          \/ Goto(a, "holding") /\ holder' = {a}
      BY <1>5 DEF Check
    <3> QED BY <3>1
  <2> QED BY <1>5, <2>2, <2>3 DEF Check, processVars, clientVars
<1>6. ASSUME NEW a \in Attempts, Record(a) PROVE TypeOK'
  BY <1>6 DEF Record, processVars, clientVars
<1>7. ASSUME NEW a \in Attempts, Refuse(a) PROVE TypeOK'
  BY <1>7 DEF Refuse, processVars, lockVars, clientVars
<1>8. ASSUME NEW a \in Attempts, Perform(a) PROVE TypeOK'
  BY <1>8 DEF Perform, processVars, lockVars, clientVars
<1>9. ASSUME NEW a \in Attempts, AdapterFails(a) PROVE TypeOK'
  BY <1>9 DEF AdapterFails, processVars, lockVars, clientVars
<1>10. ASSUME NEW a \in Attempts, Respond(a) PROVE TypeOK'
  <2>1. Wire(now) \in Int
    BY WireBelow
  <2> QED BY <1>10, <2>1 DEF Respond, processVars, lockVars, clientVars
<1>11. ASSUME NEW m \in Manifests, Restart(m) PROVE TypeOK'
  BY <1>11 DEF Restart, clientVars
<1>12. CASE Tick
  BY <1>12 DEF Tick, processVars, lockVars, serverVars, clientVars
<1>13. CASE UNCHANGED vars
  BY <1>13 DEF vars, processVars, lockVars, serverVars, clientVars
<1> QED BY <1>1, <1>2, <1>3, <1>4, <1>5, <1>6, <1>7, <1>8, <1>9, <1>10,
           <1>11, <1>12, <1>13 DEF Next, Serve

\* Every variable keeps its type.
THEOREM TypeCorrect == Spec => []TypeOK
<1>1. Init => TypeOK
  BY SetAssumption, TimeAssumption
     DEF Init, TypeOK, Stages, NoEffect, NoReply, NoHeaders, NoAnswer
<1> QED BY <1>1, TypeStep, PTL DEF Spec

-----------------------------------------------------------------------------
(* The inductive step, one conjunct of IInv at a time. *)

\* The steps that touch neither the lock, the map, the clock nor a copy inside
\* authenticate.
Quiet == \/ \E c \in Calls : Fail(c)
         \/ \E c \in Calls, a \in Attempts : Receive(c, a)
         \/ \E a \in Attempts : \/ Refuse(a) \/ Perform(a)
                                \/ AdapterFails(a) \/ Respond(a)
         \/ UNCHANGED vars

\* What IInv reads of the state is the same after such a step.
LEMMA QuietStep ==
    ASSUME TypeOK, Quiet
    PROVE  /\ UNCHANGED <<now, life, holder, seen, checkedAt, admittedIn,
                          stamp, sentAt>>
           /\ \A c \in Calls : result[c] # "none" <=> result'[c] # "none"
           /\ \A a \in Attempts :
                /\ pc[a] = "holding" <=> pc'[a] = "holding"
                /\ pc[a] = "verified" <=> pc'[a] = "verified"
<1> USE DEF TypeOK, Goto, processVars, lockVars, serverVars, clientVars
<1>1. CASE \E c \in Calls : Fail(c)
  BY <1>1 DEF Fail
<1>2. CASE \E c \in Calls, a \in Attempts : Receive(c, a)
  BY <1>2 DEF Receive
<1>3. CASE \E a \in Attempts : Refuse(a)
  BY <1>3 DEF Refuse
<1>4. CASE \E a \in Attempts : Perform(a)
  BY <1>4 DEF Perform
<1>5. CASE \E a \in Attempts : AdapterFails(a)
  BY <1>5 DEF AdapterFails
<1>6. CASE \E a \in Attempts : Respond(a)
  BY <1>6 DEF Respond
<1>7. CASE UNCHANGED vars
  BY <1>7 DEF vars
<1> QED BY <1>1, <1>2, <1>3, <1>4, <1>5, <1>6, <1>7 DEF Quiet

\* The steps IInv has to be checked against.
LEMMA StepCases ==
    ASSUME [Next]_vars
    PROVE  \/ \E c \in Calls : Send(c)
           \/ \E a \in Attempts : Arrive(a) \/ Check(a) \/ Record(a)
           \/ \E m \in Manifests : Restart(m)
           \/ Tick
           \/ Quiet
BY DEF Next, Serve, Quiet

LEMMA LockStep == TypeOK /\ LockInv /\ [Next]_vars => LockInv'
<1> SUFFICES ASSUME TypeOK, LockInv, [Next]_vars PROVE LockInv'
  OBVIOUS
<1> USE DEF TypeOK, LockInv, Goto, processVars, lockVars, serverVars, clientVars
<1>1. ASSUME NEW c \in Calls, Send(c) PROVE LockInv'
  BY <1>1 DEF Send
<1>2. ASSUME NEW a \in Attempts, Arrive(a) PROVE LockInv'
  BY <1>2 DEF Arrive
<1>3. ASSUME NEW a \in Attempts, Check(a) PROVE LockInv'
  BY <1>3 DEF Check
<1>4. ASSUME NEW a \in Attempts, Record(a) PROVE LockInv'
  BY <1>4 DEF Record
<1>5. ASSUME NEW m \in Manifests, Restart(m) PROVE LockInv'
  BY <1>5 DEF Restart
<1>6. CASE Tick
  BY <1>6 DEF Tick
<1>7. CASE Quiet
  BY <1>7, QuietStep
<1> QED BY <1>1, <1>2, <1>3, <1>4, <1>5, <1>6, <1>7, StepCases

LEMMA StampStep == TypeOK /\ StampInv /\ [Next]_vars => StampInv'
<1> SUFFICES ASSUME TypeOK, StampInv, [Next]_vars PROVE StampInv'
  OBVIOUS
<1> USE DEF TypeOK, StampInv, processVars, lockVars, serverVars, clientVars
<1>1. ASSUME NEW c \in Calls, Send(c) PROVE StampInv'
  <2>1. PICK t \in ClientClock : stamp' = [stamp EXCEPT ![c] = Wire(t)]
    BY <1>1 DEF Send
  <2>2. Wire(t) \in Int /\ Wire(t) <= now + Ahead
    BY WireBelow, TimeAssumption DEF ClientClock
  <2> QED BY <1>1, <2>1, <2>2 DEF Send
<1>2. ASSUME NEW a \in Attempts, Arrive(a) PROVE StampInv'
  BY <1>2 DEF Arrive
<1>3. ASSUME NEW a \in Attempts, Check(a) PROVE StampInv'
  BY <1>3 DEF Check
<1>4. ASSUME NEW a \in Attempts, Record(a) PROVE StampInv'
  BY <1>4 DEF Record
<1>5. ASSUME NEW m \in Manifests, Restart(m) PROVE StampInv'
  BY <1>5 DEF Restart
<1>6. CASE Tick
  BY <1>6 DEF Tick
<1>7. CASE Quiet
  BY <1>7, QuietStep
<1> QED BY <1>1, <1>2, <1>3, <1>4, <1>5, <1>6, <1>7, StepCases

LEMMA PauseStep == TypeOK /\ PauseInv /\ [Next]_vars => PauseInv'
<1> SUFFICES ASSUME TypeOK, PauseInv, [Next]_vars PROVE PauseInv'
  OBVIOUS
<1> USE AttemptFacts, TimeAssumption
    DEF TypeOK, PauseInv, Authenticating, Goto,
        processVars, lockVars, serverVars, clientVars
<1>1. ASSUME NEW c \in Calls, Send(c) PROVE PauseInv'
  BY <1>1 DEF Send
<1>2. ASSUME NEW a \in Attempts, Arrive(a) PROVE PauseInv'
  <2>1. \A b \in Attempts : b # a => pc'[b] = pc[b] /\ checkedAt'[b] = checkedAt[b]
    BY <1>2 DEF Arrive
  <2>2. UNCHANGED <<now, result, stamp>> /\ result[CallOf(a)] # "none"
    BY <1>2 DEF Arrive
  <2>3. \/ pc'[a] = "done"
        \/ checkedAt'[a] = now /\ now <= stamp[CallOf(a)] + Window
    BY <1>2 DEF Arrive, Accepts, InWindow
  <2> QED BY <2>1, <2>2, <2>3
<1>3. ASSUME NEW a \in Attempts, Check(a) PROVE PauseInv'
  BY <1>3 DEF Check
<1>4. ASSUME NEW a \in Attempts, Record(a) PROVE PauseInv'
  BY <1>4 DEF Record
<1>5. ASSUME NEW m \in Manifests, Restart(m) PROVE PauseInv'
  BY <1>5 DEF Restart
<1>6. CASE Tick
  BY <1>6 DEF Tick
<1>7. CASE Quiet
  BY <1>7, QuietStep
<1> QED BY <1>1, <1>2, <1>3, <1>4, <1>5, <1>6, <1>7, StepCases

LEMMA SeenStep ==
    TypeOK /\ StampInv /\ PauseInv /\ SeenInv /\ [Next]_vars => SeenInv'
<1> SUFFICES ASSUME TypeOK, StampInv, PauseInv, SeenInv, [Next]_vars
             PROVE  SeenInv'
  OBVIOUS
<1> USE AttemptFacts
    DEF TypeOK, SeenInv, processVars, lockVars, serverVars, clientVars
<1>1. ASSUME NEW c \in Calls, Send(c) PROVE SeenInv'
  BY <1>1 DEF Send
<1>2. ASSUME NEW a \in Attempts, Arrive(a) PROVE SeenInv'
  BY <1>2 DEF Arrive
<1>3. ASSUME NEW a \in Attempts, Check(a) PROVE SeenInv'
  BY <1>3 DEF Check, Kept
<1>4. ASSUME NEW a \in Attempts, Record(a) PROVE SeenInv'
  BY <1>4 DEF Record, StampInv, PauseInv, Authenticating
<1>5. ASSUME NEW m \in Manifests, Restart(m) PROVE SeenInv'
  BY <1>5 DEF Restart
<1>6. CASE Tick
  BY <1>6 DEF Tick
<1>7. CASE Quiet
  BY <1>7, QuietStep
<1> QED BY <1>1, <1>2, <1>3, <1>4, <1>5, <1>6, <1>7, StepCases

\* The purge is where the retention matters: what it deletes is too old for any
\* copy of the request.
LEMMA MemoryStep ==
    ASSUME RetentionCovers
    PROVE  /\ TypeOK /\ StampInv /\ SeenInv /\ PauseInv
           /\ MemoryInv /\ OnceInv /\ [Next]_vars
           => MemoryInv'
<1> SUFFICES ASSUME TypeOK, StampInv, SeenInv, PauseInv, MemoryInv, OnceInv,
                    [Next]_vars
             PROVE  MemoryInv'
  OBVIOUS
<1> USE AttemptFacts, TimeAssumption
    DEF TypeOK, MemoryInv, processVars, lockVars, serverVars, clientVars
<1>1. ASSUME NEW c \in Calls, Send(c) PROVE MemoryInv'
  BY <1>1 DEF Send
<1>2. ASSUME NEW a \in Attempts, Arrive(a) PROVE MemoryInv'
  BY <1>2 DEF Arrive
<1>3. ASSUME NEW a \in Attempts, Check(a) PROVE MemoryInv'
  <2> SUFFICES ASSUME NEW b \in Attempts, admittedIn[b] = life,
                      CallOf(b) \in DOMAIN seen, CallOf(b) \notin DOMAIN seen'
               PROVE  now > stamp[CallOf(b)] + Window + MaxPause
    BY <1>3 DEF Check
  <2>1. seen[CallOf(b)] < now - Retention
    BY <1>3 DEF Check, Kept
  <2>2. stamp[CallOf(b)] <= seen[CallOf(b)] + Ahead
    BY DEF StampInv, SeenInv
  <2> QED BY <2>1, <2>2, RetentionCovers DEF RetentionCovers
<1>4. ASSUME NEW a \in Attempts, Record(a) PROVE MemoryInv'
  BY <1>4 DEF Record, PauseInv, Authenticating
<1>5. ASSUME NEW m \in Manifests, Restart(m) PROVE MemoryInv'
  BY <1>5 DEF Restart, OnceInv
<1>6. CASE Tick
  BY <1>6 DEF Tick
<1>7. CASE Quiet
  BY <1>7, QuietStep
<1> QED BY <1>1, <1>2, <1>3, <1>4, <1>5, <1>6, <1>7, StepCases

\* The lookup finds the nonce of every copy admitted before, by MemoryInv after
\* the purge; others cannot record it meanwhile, by the mutex.
LEMMA FirstStep ==
    TypeOK /\ LockInv /\ PauseInv /\ FirstInv /\ [Next]_vars /\ MemoryInv'
        => FirstInv'
<1> SUFFICES ASSUME TypeOK, LockInv, PauseInv, FirstInv, [Next]_vars, MemoryInv'
             PROVE  FirstInv'
  OBVIOUS
<1> USE AttemptFacts
    DEF TypeOK, FirstInv, Goto, processVars, lockVars, serverVars, clientVars
<1>1. ASSUME NEW c \in Calls, Send(c) PROVE FirstInv'
  BY <1>1 DEF Send
<1>2. ASSUME NEW a \in Attempts, Arrive(a) PROVE FirstInv'
  BY <1>2 DEF Arrive
<1>3. ASSUME NEW a \in Attempts, Check(a) PROVE FirstInv'
  <2>1. ASSUME NEW b \in Attempts, CallOf(b) = CallOf(a), CallOf(a) \notin Kept,
               admittedIn[b] = life
        PROVE  FALSE
    <3>1. now <= stamp[CallOf(a)] + Window + MaxPause
      BY <1>3, TimeAssumption DEF Check, PauseInv, Authenticating
    <3>2. CallOf(a) \in DOMAIN seen'
      BY <1>3, <2>1, <3>1, TimeAssumption
         DEF Check, MemoryInv, processVars, clientVars
    <3> QED BY <1>3, <2>1, <3>2 DEF Check
  <2> QED BY <1>3, <2>1 DEF Check
<1>4. ASSUME NEW a \in Attempts, Record(a) PROVE FirstInv'
  BY <1>4 DEF Record, LockInv
<1>5. ASSUME NEW m \in Manifests, Restart(m) PROVE FirstInv'
  BY <1>5 DEF Restart
<1>6. CASE Tick
  BY <1>6 DEF Tick
<1>7. CASE Quiet
  BY <1>7, QuietStep
<1> QED BY <1>1, <1>2, <1>3, <1>4, <1>5, <1>6, <1>7, StepCases

LEMMA OnceStep == TypeOK /\ FirstInv /\ OnceInv /\ [Next]_vars => OnceInv'
<1> SUFFICES ASSUME TypeOK, FirstInv, OnceInv, [Next]_vars PROVE OnceInv'
  OBVIOUS
<1> USE DEF TypeOK, OnceInv, processVars, lockVars, serverVars, clientVars
<1>1. ASSUME NEW c \in Calls, Send(c) PROVE OnceInv'
  BY <1>1 DEF Send
<1>2. ASSUME NEW a \in Attempts, Arrive(a) PROVE OnceInv'
  BY <1>2 DEF Arrive
<1>3. ASSUME NEW a \in Attempts, Check(a) PROVE OnceInv'
  BY <1>3 DEF Check
<1>4. ASSUME NEW a \in Attempts, Record(a) PROVE OnceInv'
  BY <1>4 DEF Record, FirstInv
<1>5. ASSUME NEW m \in Manifests, Restart(m) PROVE OnceInv'
  BY <1>5 DEF Restart
<1>6. CASE Tick
  BY <1>6 DEF Tick
<1>7. CASE Quiet
  BY <1>7, QuietStep
<1> QED BY <1>1, <1>2, <1>3, <1>4, <1>5, <1>6, <1>7, StepCases

\* IInv is an invariant of the specification.
LEMMA Inductive == ASSUME RetentionCovers PROVE Spec => []IInv
<1>1. Init => IInv
  <2> SUFFICES ASSUME Init PROVE IInv
    OBVIOUS
  <2>1. TypeOK
    BY SetAssumption, TimeAssumption
       DEF Init, TypeOK, Stages, NoEffect, NoReply, NoHeaders, NoAnswer
  <2> QED BY <2>1, AttemptFacts
          DEF Init, IInv, LockInv, StampInv, PauseInv, Authenticating,
              SeenInv, MemoryInv, FirstInv, OnceInv
<1>2. IInv /\ [Next]_vars => IInv'
  BY TypeStep, LockStep, StampStep, PauseStep, SeenStep, MemoryStep,
     FirstStep, OnceStep, RetentionCovers DEF IInv
<1> QED BY <1>1, <1>2, PTL DEF Spec

-----------------------------------------------------------------------------
(* The results. *)

\* One adapter process admits at most one copy of a request, provided the
\* retention covers the window, the clocks' difference and the longest pause.
THEOREM NonceServedOnce == ASSUME RetentionCovers PROVE Spec => []AtMostOnce
<1>1. IInv => AtMostOnce
  <2> SUFFICES ASSUME IInv, NEW c \in Calls, NEW k \in Copies, NEW l \in Copies,
                      k # l, admittedIn[<<c, k>>] # 0
               PROVE  admittedIn[<<c, k>>] # admittedIn[<<c, l>>]
    BY DEF AtMostOnce
  <2>1. <<c, k>> # <<c, l>>
    OBVIOUS
  <2> QED BY <2>1, AttemptFacts DEF IInv, OnceInv
<1> QED BY <1>1, Inductive, RetentionCovers, PTL

\* Under the same condition the process still knows the nonce of every admitted
\* request that a further copy could imitate.
THEOREM NonceStaysKnown == ASSUME RetentionCovers PROVE Spec => []NonceRemembered
<1>1. IInv => NonceRemembered
  BY AttemptFacts, TimeAssumption
     DEF IInv, TypeOK, MemoryInv, NonceRemembered
<1> QED BY <1>1, Inductive, RetentionCovers, PTL

\* A request is admitted within Window + Ahead + MaxPause of being sent,
\* whatever the retention is.
THEOREM AdmittedInTime == Spec => AdmissionTimely
<1> DEFINE Inv == TypeOK /\ StampInv /\ PauseInv
<1>1. Init => Inv
  <2>1. Init => TypeOK
    BY SetAssumption, TimeAssumption
       DEF Init, TypeOK, Stages, NoEffect, NoReply, NoHeaders, NoAnswer
  <2> QED BY <2>1, AttemptFacts DEF Init, StampInv, PauseInv, Authenticating
<1>2. Inv /\ [Next]_vars => Inv'
  BY TypeStep, StampStep, PauseStep
<1>3. Inv /\ [Next]_vars
        => [\A a \in Attempts : Record(a) =>
                now - sentAt[CallOf(a)] <= Window + Ahead + MaxPause]_vars
  <2> SUFFICES ASSUME Inv, NEW a \in Attempts, Record(a)
               PROVE  now - sentAt[CallOf(a)] <= Window + Ahead + MaxPause
    OBVIOUS
  <2> QED BY AttemptFacts, TimeAssumption
          DEF TypeOK, StampInv, PauseInv, Authenticating, Record
<1> QED BY <1>1, <1>2, <1>3, PTL DEF Spec, AdmissionTimely

\* The map never holds more than the nonces of the retention period (and of the
\* pause since the signature check), whatever the retention is.
THEOREM SeenStaysBounded == Spec => []SeenBounded
<1> DEFINE Inv == TypeOK /\ LockInv /\ PauseInv /\ SeenBounded
<1>1. Init => Inv
  <2>1. Init => TypeOK
    BY SetAssumption, TimeAssumption
       DEF Init, TypeOK, Stages, NoEffect, NoReply, NoHeaders, NoAnswer
  <2> QED BY <2>1 DEF Init, LockInv, PauseInv, Authenticating, SeenBounded
<1>2. Inv /\ [Next]_vars => SeenBounded'
  <2> SUFFICES ASSUME Inv, [Next]_vars PROVE SeenBounded'
    OBVIOUS
  <2> USE DEF TypeOK, LockInv, SeenBounded, Goto,
              processVars, lockVars, serverVars, clientVars
  <2>1. ASSUME NEW c \in Calls, Send(c) PROVE SeenBounded'
    BY <2>1 DEF Send
  <2>2. ASSUME NEW a \in Attempts, Arrive(a) PROVE SeenBounded'
    BY <2>2 DEF Arrive
  <2>3. ASSUME NEW a \in Attempts, Check(a) PROVE SeenBounded'
    BY <2>3, TimeAssumption DEF Check, Kept, PauseInv, Authenticating
  <2>4. ASSUME NEW a \in Attempts, Record(a) PROVE SeenBounded'
    BY <2>4 DEF Record
  <2>5. ASSUME NEW m \in Manifests, Restart(m) PROVE SeenBounded'
    BY <2>5 DEF Restart
  <2>6. CASE Tick
    BY <2>6 DEF Tick
  <2>7. CASE Quiet
    BY <2>7, QuietStep
  <2> QED BY <2>1, <2>2, <2>3, <2>4, <2>5, <2>6, <2>7, StepCases
<1>3. Inv /\ [Next]_vars => Inv'
  BY <1>2, TypeStep, LockStep, PauseStep
<1>4. Inv => SeenBounded
  OBVIOUS
<1> QED BY <1>1, <1>3, <1>4, PTL DEF Spec

\* Only a copy of an admitted request is refused as a replay: the map holds no nonce
\* that the running process has not admitted.
NonceInv ==
    \A v \in DOMAIN seen : \E k \in Copies : admittedIn[<<v, k>>] = life

LEMMA NonceStep == TypeOK /\ NonceInv /\ [Next]_vars => NonceInv'
<1> SUFFICES ASSUME TypeOK, NonceInv, [Next]_vars PROVE NonceInv'
  OBVIOUS
<1> USE DEF NonceInv, processVars, lockVars, serverVars, clientVars
<1>1. ASSUME NEW c \in Calls, Send(c) PROVE NonceInv'
  BY <1>1 DEF Send
<1>2. ASSUME NEW a \in Attempts, Arrive(a) PROVE NonceInv'
  BY <1>2 DEF Arrive
<1>3. ASSUME NEW a \in Attempts, Check(a) PROVE NonceInv'
  <2>1. DOMAIN seen' \subseteq DOMAIN seen /\ UNCHANGED <<admittedIn, life>>
    BY <1>3 DEF Check, Kept
  <2> QED BY <2>1
<1>4. ASSUME NEW a \in Attempts, Record(a) PROVE NonceInv'
  <2>1. /\ DOMAIN seen' = DOMAIN seen \cup {CallOf(a)} /\ life' = life
        /\ admittedIn' = [admittedIn EXCEPT ![a] = life]
    BY <1>4 DEF Record
  <2>2. PICK k \in Copies : a = <<CallOf(a), k>>
    BY DEF Attempts, CallOf
  <2>3. admittedIn'[<<CallOf(a), k>>] = life
    <3>1. admittedIn'[a] = life
      BY <2>1 DEF TypeOK
    <3> QED BY <2>2, <3>1, Zenon
  <2>4. \A b \in Attempts : admittedIn[b] = life => admittedIn'[b] = life
    BY <2>1 DEF TypeOK
  <2>5. ASSUME NEW v \in DOMAIN seen PROVE \E l \in Copies : admittedIn'[<<v, l>>] = life
    <3>1. PICK l \in Copies : admittedIn[<<v, l>>] = life
      OBVIOUS
    <3>2. <<v, l>> \in Attempts
      BY AttemptFacts DEF TypeOK
    <3> QED BY <2>4, <3>1, <3>2
  <2> QED BY <2>1, <2>3, <2>5
<1>5. ASSUME NEW m \in Manifests, Restart(m) PROVE NonceInv'
  BY <1>5 DEF Restart
<1>6. CASE Tick
  BY <1>6 DEF Tick
<1>7. CASE Quiet
  BY <1>7, QuietStep
<1> QED BY <1>1, <1>2, <1>3, <1>4, <1>5, <1>6, <1>7, StepCases

\* A copy that passed VerifySignature is refused as a replay only if this process
\* has admitted another copy of its request (the nonce is recorded last).
THEOREM ReplaysOnly == Spec => OnlyReplaysRefused
<1> DEFINE Inv == TypeOK /\ NonceInv
<1>1. Init => Inv
  <2>1. Init => TypeOK
    BY SetAssumption, TimeAssumption
       DEF Init, TypeOK, Stages, NoEffect, NoReply, NoHeaders, NoAnswer
  <2> QED BY <2>1 DEF Init, NonceInv
<1>2. Inv /\ [Next]_vars => Inv'
  BY TypeStep, NonceStep
<1>3. Inv /\ [Next]_vars
        => [\A a \in Attempts : (Check(a) /\ pc'[a] = "done") =>
                \E k \in Copies : admittedIn[<<CallOf(a), k>>] = life]_vars
  <2> SUFFICES ASSUME Inv, NEW a \in Attempts, Check(a), pc'[a] = "done"
               PROVE  \E k \in Copies : admittedIn[<<CallOf(a), k>>] = life
    OBVIOUS
  <2>1. CallOf(a) \in Kept
    BY DEF Check, Goto, TypeOK
  <2> QED BY <2>1 DEF Kept, NonceInv
<1> QED BY <1>1, <1>2, <1>3, PTL DEF Spec, OnlyReplaysRefused

-----------------------------------------------------------------------------
(* What a call is bound to.  No clock and no nonce store is involved. *)

\* A copy arrives only after its call was sent, and one that is being served
\* came with the headers of the process that serves it.
ServedInv ==
    \A a \in Attempts :
        /\ pc[a] # "absent" => result[CallOf(a)] # "none"
        /\ pc[a] \in {"verified", "holding", "admitted", "performed"}
            => headers[a] = Identity(manifest)
        /\ pc[a] = "performed" => effect[a] # NoEffect
        /\ pc[a] \notin {"performed", "done"} => effect[a] = NoEffect
        /\ pc[a] # "done" => reply[a] = NoReply

\* A response carries what the implementation returned for the attempt.
ReplyInv ==
    \A a \in Attempts : reply[a] # NoReply =>
        /\ effect[a] # NoEffect
        /\ CallOf(a) \in ActionCalls => effect[a].sound

BindInv == TypeOK /\ ServedInv /\ PinnedRelease /\ ReplyInv /\ AnswerBinding

\* Goroutines die with their process, so none ever acts under another release.
LEMMA ServedStep == TypeOK /\ ServedInv /\ [Next]_vars => ServedInv'
<1> SUFFICES ASSUME TypeOK, ServedInv, [Next]_vars PROVE ServedInv'
  OBVIOUS
<1> USE AttemptFacts
    DEF TypeOK, ServedInv, Goto, processVars, lockVars, serverVars, clientVars
<1>1. ASSUME NEW c \in Calls, Send(c) PROVE ServedInv'
  BY <1>1 DEF Send
<1>2. ASSUME NEW c \in Calls, Fail(c) PROVE ServedInv'
  BY <1>2 DEF Fail
<1>3. ASSUME NEW c \in Calls, NEW a \in Attempts, Receive(c, a) PROVE ServedInv'
  BY <1>3 DEF Receive
<1>4. ASSUME NEW a \in Attempts, Arrive(a) PROVE ServedInv'
  BY <1>4 DEF Arrive, Accepts
<1>5. ASSUME NEW a \in Attempts, Check(a) PROVE ServedInv'
  BY <1>5 DEF Check
<1>6. ASSUME NEW a \in Attempts, Record(a) PROVE ServedInv'
  BY <1>6 DEF Record
<1>7. ASSUME NEW a \in Attempts, Refuse(a) PROVE ServedInv'
  BY <1>7 DEF Refuse
<1>8. ASSUME NEW a \in Attempts, Perform(a) PROVE ServedInv'
  BY <1>8, SetAssumption DEF Perform, NoEffect
<1>9. ASSUME NEW a \in Attempts, AdapterFails(a) PROVE ServedInv'
  BY <1>9 DEF AdapterFails
<1>10. ASSUME NEW a \in Attempts, Respond(a) PROVE ServedInv'
  BY <1>10 DEF Respond
<1>11. ASSUME NEW m \in Manifests, Restart(m) PROVE ServedInv'
  BY <1>11 DEF Restart
<1>12. CASE Tick
  BY <1>12 DEF Tick
<1>13. CASE UNCHANGED vars
  BY <1>13 DEF vars
<1> QED BY <1>1, <1>2, <1>3, <1>4, <1>5, <1>6, <1>7, <1>8, <1>9, <1>10,
           <1>11, <1>12, <1>13 DEF Next, Serve

\* The client's call, the goroutine's effect and the response agree.
LEMMA BindStep ==
    BindInv /\ [Next]_vars => (PinnedRelease /\ ReplyInv /\ AnswerBinding)'
<1> SUFFICES ASSUME BindInv, [Next]_vars
             PROVE  (PinnedRelease /\ ReplyInv /\ AnswerBinding)'
  OBVIOUS
<1> USE AttemptFacts, NoAnswerFact
    DEF BindInv, TypeOK, ServedInv, PinnedRelease, ReplyInv, AnswerBinding,
        Goto, processVars, lockVars, serverVars, clientVars
<1> DEFINE Goal == PinnedRelease /\ ReplyInv /\ AnswerBinding
<1>1. ASSUME NEW c \in Calls, Send(c) PROVE Goal'
  BY <1>1, SMTT(30) DEF Send
<1>2. ASSUME NEW c \in Calls, Fail(c) PROVE Goal'
  BY <1>2 DEF Fail
<1>3. ASSUME NEW c \in Calls, NEW a \in Attempts, Receive(c, a) PROVE Goal'
  <2>1. PinnedRelease' /\ ReplyInv'
    BY <1>3 DEF Receive
  <2>2. AnswerBinding'
    BY <1>3 DEF Receive, Authentic
  <2> QED BY <2>1, <2>2
<1>4. ASSUME NEW a \in Attempts, Arrive(a) PROVE Goal'
  BY <1>4 DEF Arrive
<1>5. ASSUME NEW a \in Attempts, Check(a) PROVE Goal'
  BY <1>5 DEF Check
<1>6. ASSUME NEW a \in Attempts, Record(a) PROVE Goal'
  BY <1>6 DEF Record
<1>7. ASSUME NEW a \in Attempts, Refuse(a) PROVE Goal'
  BY <1>7 DEF Refuse
<1>8. ASSUME NEW a \in Attempts, Perform(a) PROVE Goal'
  <2>1. /\ effect[a] = NoEffect /\ headers[a] = Identity(manifest)
        /\ named[CallOf(a)] = ReleaseOf[manifest] /\ reply[a] = NoReply
    BY <1>8 DEF Perform
  <2>2. effect'[a].manifest = manifest
    BY <1>8 DEF Perform
  <2>3. \A b \in Attempts : b # a => effect'[b] = effect[b]
    BY <1>8 DEF Perform
  <2>4. UNCHANGED <<headers, pinned, named, reply, result, answer>>
    BY <1>8 DEF Perform
  <2>5. PinnedRelease'
    <3> SUFFICES ASSUME NEW b \in Attempts, effect'[b] # NoEffect
                 PROVE  /\ ReleaseOf[effect'[b].manifest] = named[CallOf(b)]
                        /\ headers[b] = Identity(pinned[CallOf(b)])
                             => effect'[b].manifest = pinned[CallOf(b)]
      BY <2>4
    <3>1. CASE b = a
      BY <2>1, <2>2, <3>1 DEF Identity
    <3>2. CASE b # a
      BY <2>3, <3>2
    <3> QED BY <3>1, <3>2
  <2>6. ReplyInv'
    BY <2>1, <2>3, <2>4
  <2>7. AnswerBinding'
    <3> SUFFICES ASSUME NEW c \in Calls, result[c] = "ok"
                 PROVE  /\ answer[c] # NoAnswer
                        /\ CallOf(answer[c]) = c
                        /\ effect'[answer[c]] # NoEffect
                        /\ ReleaseOf[effect'[answer[c]].manifest] = named[c]
                        /\ c \in ActionCalls => effect'[answer[c]].sound
      BY <2>4
    <3>1. /\ answer[c] \in Attempts /\ answer[c] # a
      BY <2>1
    <3> QED BY <2>3, <3>1
  <2> QED BY <2>5, <2>6, <2>7
<1>9. ASSUME NEW a \in Attempts, AdapterFails(a) PROVE Goal'
  BY <1>9 DEF AdapterFails
<1>10. ASSUME NEW a \in Attempts, Respond(a) PROVE Goal'
  BY <1>10 DEF Respond
<1>11. ASSUME NEW m \in Manifests, Restart(m) PROVE Goal'
  BY <1>11 DEF Restart
<1>12. CASE Tick
  BY <1>12 DEF Tick
<1>13. CASE UNCHANGED vars
  BY <1>13 DEF vars
<1> QED BY <1>1, <1>2, <1>3, <1>4, <1>5, <1>6, <1>7, <1>8, <1>9, <1>10,
           <1>11, <1>12, <1>13 DEF Next, Serve

LEMMA Bound == Spec => []BindInv
<1>1. Init => BindInv
  <2> SUFFICES ASSUME Init PROVE BindInv
    OBVIOUS
  <2>1. TypeOK
    BY SetAssumption, TimeAssumption
       DEF Init, TypeOK, Stages, NoEffect, NoReply, NoHeaders, NoAnswer
  <2> QED BY <2>1, AttemptFacts
          DEF Init, BindInv, ServedInv, PinnedRelease, ReplyInv, AnswerBinding
<1>2. BindInv /\ [Next]_vars => BindInv'
  BY TypeStep, ServedStep, BindStep DEF BindInv
<1> QED BY <1>1, <1>2, PTL DEF Spec

\* No implementation ever runs for a body that names another release, nor under
\* another manifest than the pinned one if the headers arrive as they were sent,
\* however often the process is replaced.
THEOREM ReleasePinned == Spec => []PinnedRelease
<1>1. BindInv => PinnedRelease
  BY DEF BindInv
<1> QED BY <1>1, Bound, PTL

\* A call that succeeds returns its own implementation's valid answer.
THEOREM AnswerBound == Spec => []AnswerBinding
<1>1. BindInv => AnswerBinding
  BY DEF BindInv
<1> QED BY <1>1, Bound, PTL

-----------------------------------------------------------------------------
(* The exchange implements CallContract. *)

\* The attempts that may run the implementation belong to the running process.
AdmittedInv ==
    \A a \in Attempts : pc[a] \in {"admitted", "performed"} => admittedIn[a] = life

LEMMA AdmittedStep == TypeOK /\ AdmittedInv /\ [Next]_vars => AdmittedInv'
<1> SUFFICES ASSUME TypeOK, AdmittedInv, [Next]_vars PROVE AdmittedInv'
  OBVIOUS
<1> USE DEF TypeOK, AdmittedInv, Goto,
            processVars, lockVars, serverVars, clientVars
<1>1. ASSUME NEW c \in Calls, Send(c) \/ Fail(c) PROVE AdmittedInv'
  BY <1>1 DEF Send, Fail
<1>2. ASSUME NEW c \in Calls, NEW a \in Attempts, Receive(c, a)
      PROVE  AdmittedInv'
  BY <1>2 DEF Receive
<1>3. ASSUME NEW a \in Attempts, Arrive(a) \/ Check(a) \/ Record(a)
      PROVE  AdmittedInv'
  BY <1>3 DEF Arrive, Check, Record
<1>4. ASSUME NEW a \in Attempts,
             Refuse(a) \/ Perform(a) \/ AdapterFails(a) \/ Respond(a)
      PROVE  AdmittedInv'
  BY <1>4 DEF Refuse, Perform, AdapterFails, Respond
<1>5. ASSUME NEW m \in Manifests, Restart(m) PROVE AdmittedInv'
  BY <1>5 DEF Restart
<1>6. CASE Tick \/ UNCHANGED vars
  BY <1>6 DEF Tick, vars
<1> QED BY <1>1, <1>2, <1>3, <1>4, <1>5, <1>6 DEF Next, Serve

\* What the mapping reads of the state.
LEMMA MappingSame ==
    ASSUME UNCHANGED <<effect, admittedIn, life, result>>
    PROVE  UNCHANGED Contract!vars
BY DEF Contract!vars, Serving, Served

\* Each step is a step of the contract or leaves its variables alone.
LEMMA ContractStep ==
    IInv /\ BindInv /\ BindInv' /\ AdmittedInv /\ [Next]_vars
        => [Contract!Next]_(Contract!vars)
<1> SUFFICES ASSUME IInv, BindInv, BindInv', AdmittedInv, [Next]_vars
             PROVE  Contract!Next \/ UNCHANGED Contract!vars
  OBVIOUS
<1> DEFINE serving == [c \in Calls |-> Serving(c)]
<1> USE AttemptFacts DEF processVars, lockVars, serverVars, clientVars
<1>1. ASSUME NEW c \in Calls, Send(c) PROVE Contract!Next
  <2>1. UNCHANGED <<serving, Served>>
    BY <1>1 DEF Send, Serving, Served
  <2>2. Contract!Begin(c)
    BY <1>1, <2>1 DEF Send, Contract!Begin
  <2> QED BY <2>2 DEF Contract!Next
<1>2. ASSUME NEW c \in Calls, Fail(c) PROVE Contract!Next
  <2>1. UNCHANGED <<serving, Served>>
    BY <1>2 DEF Fail, Serving, Served
  <2>2. Contract!Return(c)
    BY <1>2, <2>1 DEF Fail, Contract!Return
  <2> QED BY <2>2 DEF Contract!Next
<1>3. ASSUME NEW c \in Calls, NEW a \in Attempts, Receive(c, a)
      PROVE  Contract!Next
  <2>1. UNCHANGED <<serving, Served>>
    BY <1>3 DEF Receive, Serving, Served
  <2>2. result' = [result EXCEPT ![c] = "error"]
            \/ (c \in Served /\ result' = [result EXCEPT ![c] = "ok"])
    <3>1. CASE result' = [result EXCEPT ![c] = "error"]
      BY <3>1
    <3>2. CASE result' = [result EXCEPT ![c] = "ok"]
      <4>1. result'[c] = "ok"
        BY <3>2 DEF BindInv, TypeOK
      <4>2. /\ answer'[c] \in Attempts
            /\ CallOf(answer'[c]) = c
            /\ effect'[answer'[c]] # NoEffect
        BY <4>1 DEF BindInv, TypeOK, AnswerBinding
      <4>3. PICK k \in Copies : answer'[c] = <<c, k>>
        BY <4>2 DEF Attempts, CallOf
      <4>4. effect[<<c, k>>] # NoEffect
        BY <1>3, <4>2, <4>3 DEF Receive
      <4> QED BY <3>2, <4>4 DEF Served
    <3> QED BY <1>3, <3>1, <3>2 DEF Receive
  <2>3. Contract!Return(c)
    BY <1>3, <2>1, <2>2 DEF Receive, Contract!Return
  <2> QED BY <2>3 DEF Contract!Next
<1>4. ASSUME NEW a \in Attempts, Arrive(a) \/ Check(a) \/ Refuse(a)
                                   \/ AdapterFails(a) \/ Respond(a)
      PROVE  UNCHANGED Contract!vars
  BY <1>4, MappingSame DEF Arrive, Check, Refuse, AdapterFails, Respond
<1>5. ASSUME NEW a \in Attempts, Record(a) PROVE UNCHANGED Contract!vars
  <2>1. effect[a] = NoEffect
    BY <1>5 DEF Record, BindInv, ServedInv
  <2>2. UNCHANGED <<effect, life, result>>
    BY <1>5 DEF Record
  <2>3. \A b \in Attempts : b # a => admittedIn'[b] = admittedIn[b]
    BY <1>5 DEF Record, BindInv, TypeOK
  <2>4. \A c \in Calls : Serving(c)' = Serving(c)
    BY <2>1, <2>2, <2>3 DEF Serving
  <2> QED BY <2>2, <2>4 DEF Contract!vars, Served
<1>6. ASSUME NEW a \in Attempts, Perform(a) PROVE Contract!Next
  <2>1. PICK c \in Calls, k \in Copies : a = <<c, k>>
    BY DEF Attempts
  <2>2. CallOf(a) = c
    BY <2>1
  <2>3. UNCHANGED <<admittedIn, life, result>>
    BY <1>6 DEF Perform
  <2>4. /\ effect[a] = NoEffect /\ admittedIn[a] = life /\ result[c] # "none"
        /\ pc'[a] = "performed"
    BY <1>6, <2>2 DEF Perform, Goto, BindInv, TypeOK, ServedInv, AdmittedInv
  <2>5. /\ effect'[a] # NoEffect
        /\ \A b \in Attempts : b # a => effect'[b] = effect[b]
    BY <1>6, <2>4 DEF Perform, BindInv, TypeOK, ServedInv
  <2>6. Serving(c) = {}
    <3> SUFFICES ASSUME NEW l \in Serving(c) PROVE FALSE
      OBVIOUS
    <3>1. /\ <<c, l>> \in Attempts /\ CallOf(<<c, l>>) = c
          /\ effect[<<c, l>>] # NoEffect /\ admittedIn[<<c, l>>] = life
      BY DEF Serving
    <3>2. <<c, l>> = a
      BY <2>2, <2>4, <3>1 DEF IInv, OnceInv, TypeOK
    <3> QED BY <2>4, <3>1, <3>2
  <2>7. Serving(c)' = {k}
    BY <2>1, <2>3, <2>4, <2>5, <2>6 DEF Serving
  <2>8. \A b \in Calls : b # c => Serving(b)' = Serving(b)
    BY <2>1, <2>3, <2>5 DEF Serving
  <2>9. serving' = [serving EXCEPT ![c] = {k}]
    BY <2>7, <2>8
  <2>10. Served' = Served \cup {c}
    <3>1. ASSUME NEW b \in Calls
          PROVE  b \in Served' <=> b \in Served \/ b = c
      BY <2>1, <2>5 DEF Served
    <3> QED BY <3>1 DEF Served
  <2>11. Contract!Run(c, k)
    BY <2>3, <2>4, <2>6, <2>9, <2>10 DEF Contract!Run
  <2> QED BY <2>11 DEF Contract!Next
<1>7. ASSUME NEW m \in Manifests, Restart(m) PROVE Contract!Next
  <2>1. Served' = Served /\ result' = result
    BY <1>7 DEF Restart, Served
  <2>2. \A c \in Calls : Serving(c)' = {}
    BY <1>7 DEF Restart, Serving, IInv, TypeOK, OnceInv
  <2>3. Contract!Forget
    BY <2>1, <2>2 DEF Contract!Forget
  <2> QED BY <2>3 DEF Contract!Next
<1>8. CASE Tick \/ UNCHANGED vars
  BY <1>8, MappingSame DEF Tick, vars
<1> QED BY <1>1, <1>2, <1>3, <1>4, <1>5, <1>6, <1>7, <1>8 DEF Next, Serve

\* With the retention the main theorem asks for, the exchange is an
\* implementation of the contract: at most once per process, "ok" means done.
THEOREM ContractImplemented ==
    ASSUME RetentionCovers PROVE Spec => ImplementsContract
<1>1. Init => Contract!Init
  <2> SUFFICES ASSUME Init PROVE Contract!Init
    OBVIOUS
  <2>1. Served = {}
    BY AttemptFacts DEF Init, Served
  <2>2. \A c \in Calls : Serving(c) = {}
    BY AttemptFacts DEF Init, Serving
  <2> QED BY <2>1, <2>2 DEF Init, Contract!Init
<1>2. Init => AdmittedInv
  BY DEF Init, AdmittedInv
<1>3. IInv /\ AdmittedInv /\ [Next]_vars => AdmittedInv'
  BY AdmittedStep DEF IInv
<1> QED BY <1>1, <1>2, <1>3, Inductive, RetentionCovers, Bound, ContractStep, PTL
        DEF Spec, ImplementsContract, Contract!Spec
=============================================================================
