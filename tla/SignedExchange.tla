---------------------------- MODULE SignedExchange ----------------------------
(***************************************************************************)
(* The signed HTTP exchange between the control plane's HTTPClient and an  *)
(* adapter process's HTTPHandler (src/http.go, Signature and               *)
(* VerifySignature of src/protocol.go).                                    *)
(*                                                                         *)
(* A call is one HTTPClient.call.  It draws a fresh random nonce, so the   *)
(* call and its nonce are the same thing here.  The network may lose,      *)
(* delay, reorder and duplicate the request: an attempt <<c, k>> is copy k *)
(* of the request of call c, and the goroutine that serves that copy.  An  *)
(* HMAC cannot be made without the shared secret, so the timestamp, the    *)
(* nonce and the body of a copy are what its client signed.  The headers   *)
(* with the release's name and digest are not signed, on requests or on    *)
(* responses: each copy arrives with headers of its own, the client's or   *)
(* whatever something on the way made of them.                             *)
(*                                                                         *)
(* Time is the handler's clock.  Every read of the client's clock may be   *)
(* up to Ahead units ahead of it or Behind units behind it.                *)
(***************************************************************************)
EXTENDS Integers

CONSTANTS
    Calls,        \* the calls the control plane makes; each is its own nonce
    ActionCalls,  \* those on a route that validates what it sends: the two
                  \* /v1/actions routes and /v1/resources/discover
    Copies,       \* the copies of one request that reach the handler
    Manifests,    \* manifest digests: c.ManifestDigest, h.ManifestDigest
    Names,        \* release names: c.Release, h.Release, Release of a body
    ReleaseOf,    \* the name configured beside each digest; digests may share it
    NoManifest,   \* stands for "none yet"
    Window,       \* accepted distance of a timestamp (2 minutes)
    Retention,    \* how long a nonce stays in h.seen (3 minutes)
    Resolution,   \* granularity of an RFC 3339 timestamp (1 second)
    Ahead,        \* how far the client's clock may be ahead
    Behind,       \* how far the client's clock may be behind
    MaxPause,     \* longest delay from the signature check to h.seen[nonce]
    MaxTime,      \* bound: the clock stops here
    MaxLives      \* bound: adapter processes started one after the other

ASSUME SetAssumption ==
    /\ ActionCalls \subseteq Calls
    /\ NoManifest \notin Manifests
    /\ Manifests # {}
    /\ ReleaseOf \in [Manifests -> Names]

ASSUME TimeAssumption ==
    /\ Window \in Nat /\ Retention \in Nat /\ Resolution \in Nat \ {0}
    /\ Ahead \in Nat /\ Behind \in Nat /\ MaxPause \in Nat
    /\ MaxTime \in Nat /\ MaxLives \in Nat \ {0}

Attempts == Calls \X Copies

CallOf(a) == a[1]

\* The two identity headers of a client or handler configured with a manifest.
Identity(m) == [digest |-> m, release |-> ReleaseOf[m]]

Identities == [digest : Manifests, release : Names]

\* The states of the goroutine that serves one copy of a request.
Stages == {"absent",      \* the copy has not arrived
           "verified",    \* signature accepted, waiting for h.mu
           "holding",     \* holds h.mu, nonce found unused
           "admitted",    \* authenticate returned true
           "performed",   \* the adapter implementation returned a value
           "done"}        \* the handler returned

VARIABLES
    now,          \* the handler's clock
    manifest,     \* h.ManifestDigest and h.Release of the running process
    life,         \* which adapter process is running
    holder,       \* attempts whose goroutine holds h.mu
    seen,         \* h.seen: nonce |-> time recorded
    pc,           \* stage of each attempt
    headers,      \* identity headers the accepted copy arrived with (history)
    checkedAt,    \* clock read by the attempt's VerifySignature
    admittedIn,   \* life in which the attempt was admitted, 0 if it never was
    effect,       \* manifest the implementation ran under, and its output
    reply,        \* the signed response the attempt wrote
    result,       \* none, pending, ok or error: what HTTPClient.call returned
    pinned,       \* c.ManifestDigest and c.Release, as one manifest
    named,        \* the release named in the signed request body
    stamp,        \* X-Misconfig-Timestamp of the request
    sentAt,       \* when the request was sent (history)
    answer        \* the attempt whose response the call accepted (history)

clientVars  == <<result, pinned, named, stamp, sentAt, answer>>
serverVars  == <<pc, headers, checkedAt, admittedIn, effect, reply>>
lockVars    == <<holder, seen>>
processVars == <<manifest, life>>
vars == <<now, processVars, lockVars, serverVars, clientVars>>

NoAnswer == <<>>
NoEffect == [manifest |-> NoManifest, sound |-> FALSE]
NoReply  == [manifest |-> NoManifest, sound |-> FALSE, at |-> 0]
NoHeaders == [digest |-> NoManifest, release |-> NoManifest]

\* time.Format(time.RFC3339) drops the fraction of the timestamp.
Wire(t) == t - (t % Resolution)

\* What the client's clock may read.
ClientClock == (now - Behind) .. (now + Ahead)

\* Mutant: timestamps of any age are accepted.
InWindowAnyAge(t, clock) == t <= clock + Window

\* VerifySignature's two time bounds, both inclusive.
InWindow(t, clock) == clock - Window <= t /\ t <= clock + Window

TypeOK ==
    /\ now \in Nat
    /\ manifest \in Manifests
    /\ life \in Nat \ {0}
    /\ holder \subseteq Attempts
    /\ DOMAIN seen \subseteq Calls
    /\ seen \in [DOMAIN seen -> Nat]
    /\ pc \in [Attempts -> Stages]
    /\ headers \in [Attempts -> Identities \cup {NoHeaders}]
    /\ checkedAt \in [Attempts -> Nat]
    /\ admittedIn \in [Attempts -> Nat]
    /\ effect \in [Attempts -> [manifest : Manifests \cup {NoManifest},
                                sound : BOOLEAN]]
    /\ reply \in [Attempts -> [manifest : Manifests \cup {NoManifest},
                               sound : BOOLEAN, at : Int]]
    /\ result \in [Calls -> {"none", "pending", "ok", "error"}]
    /\ pinned \in [Calls -> Manifests \cup {NoManifest}]
    /\ named \in [Calls -> Names \cup {NoManifest}]
    /\ stamp \in [Calls -> Int]
    /\ sentAt \in [Calls -> Nat]
    /\ answer \in [Calls -> Attempts \cup {NoAnswer}]

Init ==
    /\ now = 0
    /\ manifest \in Manifests
    /\ life = 1
    /\ holder = {}
    /\ seen = [c \in {} |-> 0]
    /\ pc = [a \in Attempts |-> "absent"]
    /\ headers = [a \in Attempts |-> NoHeaders]
    /\ checkedAt = [a \in Attempts |-> 0]
    /\ admittedIn = [a \in Attempts |-> 0]
    /\ effect = [a \in Attempts |-> NoEffect]
    /\ reply = [a \in Attempts |-> NoReply]
    /\ result = [c \in Calls |-> "none"]
    /\ pinned = [c \in Calls |-> NoManifest]
    /\ named = [c \in Calls |-> NoManifest]
    /\ stamp = [c \in Calls |-> 0]
    /\ sentAt = [c \in Calls |-> 0]
    /\ answer = [c \in Calls |-> NoAnswer]

-----------------------------------------------------------------------------
(* The client. *)

\* HTTPClient.call up to client.Do: headers from the client's configuration,
\* a body naming the release its caller chose, a timestamp from its clock.
Send(c) ==
    /\ result[c] = "none"
    /\ \E m \in Manifests, n \in Names, t \in ClientClock :
        /\ pinned' = [pinned EXCEPT ![c] = m]
        /\ named' = [named EXCEPT ![c] = n]
        /\ stamp' = [stamp EXCEPT ![c] = Wire(t)]
    /\ sentAt' = [sentAt EXCEPT ![c] = now]
    /\ result' = [result EXCEPT ![c] = "pending"]
    /\ UNCHANGED <<now, processVars, lockVars, serverVars, answer>>

\* Mutant: the response's signature does not cover the nonce of the request.
AuthenticAnyNonce(c, a, digest, clock) ==
    digest = pinned[c] /\ InWindow(reply[a].at, clock)

\* What call checks of a 200 response: the manifest digest in its headers, which
\* the signature does not cover, the signature over this call's nonce, and the
\* response's timestamp.
Authentic(c, a, digest, clock) ==
    /\ digest = pinned[c]
    /\ CallOf(a) = c
    /\ InWindow(reply[a].at, clock)

\* A response reaches the call: its own, or any other one the network has, with
\* the digest header the network left on it.
Receive(c, a) ==
    /\ result[c] = "pending"
    /\ reply[a] # NoReply
    /\ \E clock \in ClientClock, digest \in Manifests :
        IF Authentic(c, a, digest, clock)
        THEN /\ result' = [result EXCEPT ![c] = "ok"]
             /\ answer' = [answer EXCEPT ![c] = a]
        ELSE /\ result' = [result EXCEPT ![c] = "error"]
             /\ UNCHANGED answer
    /\ UNCHANGED <<now, processVars, lockVars, serverVars,
                   pinned, named, stamp, sentAt>>

\* client.Do fails or times out, or the status is not 200 (error answers are
\* not signed, and the client looks no further than the status).
Fail(c) ==
    /\ result[c] = "pending"
    /\ result' = [result EXCEPT ![c] = "error"]
    /\ UNCHANGED <<now, processVars, lockVars, serverVars,
                   pinned, named, stamp, sentAt, answer>>

-----------------------------------------------------------------------------
(* The handler: one goroutine for every copy that arrives. *)

Goto(a, stage) == pc' = [pc EXCEPT ![a] = stage]

\* Mutant: the identity headers are not compared with the running release.
AcceptsAnyRelease(c, h) == InWindow(stamp[c], now)

\* authenticate before h.mu.Lock(): the identity headers the copy carries, then
\* VerifySignature.
Accepts(c, h) == h = Identity(manifest) /\ InWindow(stamp[c], now)

\* Mutant: the nonce is noted when a copy arrives, before its signature is checked.
ArriveNoted(a) ==
    /\ pc[a] = "absent"
    /\ result[CallOf(a)] # "none"
    /\ \E h \in Identities :
        IF Accepts(CallOf(a), h)
        THEN /\ Goto(a, "verified")
             /\ headers' = [headers EXCEPT ![a] = h]
             /\ checkedAt' = [checkedAt EXCEPT ![a] = now]
             /\ UNCHANGED seen
        ELSE /\ Goto(a, "done")
             /\ seen' = [v \in DOMAIN seen \cup {CallOf(a)} |->
                            IF v = CallOf(a) THEN now ELSE seen[v]]
             /\ UNCHANGED <<headers, checkedAt>>
    /\ UNCHANGED <<now, processVars, holder, clientVars,
                   admittedIn, effect, reply>>

Arrive(a) ==
    /\ pc[a] = "absent"
    /\ result[CallOf(a)] # "none"
    /\ \E h \in Identities :
        IF Accepts(CallOf(a), h)
        THEN /\ Goto(a, "verified")
             /\ headers' = [headers EXCEPT ![a] = h]
             /\ checkedAt' = [checkedAt EXCEPT ![a] = now]
        ELSE /\ Goto(a, "done")
             /\ UNCHANGED <<headers, checkedAt>>
    /\ UNCHANGED <<now, processVars, lockVars, clientVars,
                   admittedIn, effect, reply>>

\* Mutants: nonces kept only as long as the window; nothing ever purged.
KeptForWindow == {v \in DOMAIN seen : seen[v] >= now - Window}
KeptForever == DOMAIN seen

\* The entries that survive "if timestamp.Before(cutoff) delete".
Kept == {v \in DOMAIN seen : seen[v] >= now - Retention}

\* Mutant: the lookup does not wait for h.mu.
CheckUnlocked(a) ==
    /\ pc[a] = "verified"
    /\ seen' = [v \in Kept |-> seen[v]]
    /\ IF CallOf(a) \in Kept
       THEN Goto(a, "done") /\ UNCHANGED holder
       ELSE Goto(a, "holding") /\ holder' = holder \cup {a}
    /\ UNCHANGED <<now, processVars, clientVars,
                   headers, checkedAt, admittedIn, effect, reply>>

\* Mutant: a replay returns without unlocking h.mu.
CheckKeepsLock(a) ==
    /\ pc[a] = "verified"
    /\ holder = {}
    /\ seen' = [v \in Kept |-> seen[v]]
    /\ Goto(a, IF CallOf(a) \in Kept THEN "done" ELSE "holding")
    /\ holder' = {a}
    /\ UNCHANGED <<now, processVars, clientVars,
                   headers, checkedAt, admittedIn, effect, reply>>

\* h.mu.Lock(), the purge, and the lookup of the nonce.  A nonce found there is
\* a replay: the deferred Unlock runs and the handler answers 401.
Check(a) ==
    /\ pc[a] = "verified"
    /\ holder = {}
    /\ seen' = [v \in Kept |-> seen[v]]
    /\ IF CallOf(a) \in Kept
       THEN Goto(a, "done") /\ UNCHANGED holder
       ELSE Goto(a, "holding") /\ holder' = {a}
    /\ UNCHANGED <<now, processVars, clientVars,
                   headers, checkedAt, admittedIn, effect, reply>>

\* Mutant: the nonce is kept with the client's timestamp instead of h.Now().
RecordClientTime(a) ==
    /\ pc[a] = "holding"
    /\ seen' = [v \in DOMAIN seen \cup {CallOf(a)} |->
                    IF v = CallOf(a) THEN stamp[v] ELSE seen[v]]
    /\ holder' = holder \ {a}
    /\ admittedIn' = [admittedIn EXCEPT ![a] = life]
    /\ Goto(a, "admitted")
    /\ UNCHANGED <<now, processVars, clientVars,
                   headers, checkedAt, effect, reply>>

\* h.seen[nonce] = h.Now().UTC(), a second read of the clock, then Unlock.
Record(a) ==
    /\ pc[a] = "holding"
    /\ seen' = [v \in DOMAIN seen \cup {CallOf(a)} |->
                    IF v = CallOf(a) THEN now ELSE seen[v]]
    /\ holder' = holder \ {a}
    /\ admittedIn' = [admittedIn EXCEPT ![a] = life]
    /\ Goto(a, "admitted")
    /\ UNCHANGED <<now, processVars, clientVars,
                   headers, checkedAt, effect, reply>>

\* 400: the body does not decode or names another release than h.Release.
Refuse(a) ==
    /\ pc[a] = "admitted"
    /\ named[CallOf(a)] # ReleaseOf[manifest]
    /\ Goto(a, "done")
    /\ UNCHANGED <<now, processVars, lockVars, clientVars,
                   headers, checkedAt, admittedIn, effect, reply>>

\* The adapter implementation (Prepare, Verify, Issue, ExecuteAction,
\* VerifyAction or DiscoverResources) returns a value, which may fail Validate.
Perform(a) ==
    /\ pc[a] = "admitted"
    /\ named[CallOf(a)] = ReleaseOf[manifest]
    /\ \E sound \in BOOLEAN :
        effect' = [effect EXCEPT ![a] = [manifest |-> manifest, sound |-> sound]]
    /\ Goto(a, "performed")
    /\ UNCHANGED <<now, processVars, lockVars, clientVars,
                   headers, checkedAt, admittedIn, reply>>

\* 422 when the implementation returns an error; 502 when an action's value
\* fails Validate (422 when a discovery page does); 500 when it does not encode.
AdapterFails(a) ==
    /\ \/ pc[a] = "admitted" /\ named[CallOf(a)] = ReleaseOf[manifest]
       \/ pc[a] = "performed"
    /\ Goto(a, "done")
    /\ UNCHANGED <<now, processVars, lockVars, clientVars,
                   headers, checkedAt, admittedIn, effect, reply>>

\* respond: the routes of ActionCalls have validated the value, the others not.
Respond(a) ==
    /\ pc[a] = "performed"
    /\ CallOf(a) \in ActionCalls => effect[a].sound
    /\ reply' = [reply EXCEPT ![a] = [manifest |-> manifest,
                                      sound |-> effect[a].sound,
                                      at |-> Wire(now)]]
    /\ Goto(a, "done")
    /\ UNCHANGED <<now, processVars, lockVars, clientVars,
                   headers, checkedAt, admittedIn, effect>>

-----------------------------------------------------------------------------
(* The environment. *)

\* The process is killed or upgraded and Handler() starts again with an empty
\* h.seen: its goroutines are gone, what they wrote or did is not.
Restart(m) ==
    /\ life < MaxLives
    /\ life' = life + 1
    /\ manifest' = m
    /\ seen' = [c \in {} |-> 0]
    /\ holder' = {}
    /\ pc' = [a \in Attempts |-> IF pc[a] = "absent" THEN "absent" ELSE "done"]
    /\ UNCHANGED <<now, clientVars, headers, checkedAt,
                   admittedIn, effect, reply>>

\* A goroutine past its signature check reaches h.seen within MaxPause.
Authenticating(a) == pc[a] \in {"verified", "holding"}

Tick ==
    /\ now < MaxTime
    /\ \A a \in Attempts : Authenticating(a) => now < checkedAt[a] + MaxPause
    /\ now' = now + 1
    /\ UNCHANGED <<processVars, lockVars, serverVars, clientVars>>

Serve(a) == \/ Check(a) \/ Record(a) \/ Refuse(a)
            \/ Perform(a) \/ AdapterFails(a) \/ Respond(a)

Next ==
    \/ \E c \in Calls : Send(c) \/ Fail(c)
    \/ \E c \in Calls, a \in Attempts : Receive(c, a)
    \/ \E a \in Attempts : Arrive(a) \/ Serve(a)
    \/ \E m \in Manifests : Restart(m)
    \/ Tick

Spec == Init /\ [][Next]_vars

\* The Go scheduler and sync.Mutex run every ready goroutine, and adapter
\* implementations return (they get the request's context).  Nothing is assumed of
\* clients: their calls need not return, copies need not arrive, nor processes
\* restart.
Fairness == \A a \in Attempts : WF_vars(Serve(a))

FairSpec == Spec /\ Fairness

-----------------------------------------------------------------------------
(* Properties. *)

\* No adapter process admits two copies of one request, neither side by side nor
\* one long after the other: h.mu, h.seen and the two time limits together make
\* a nonce usable once.
AtMostOnce ==
    \A c \in Calls : \A k, l \in Copies :
        (k # l /\ admittedIn[<<c, k>>] # 0)
            => admittedIn[<<c, k>>] # admittedIn[<<c, l>>]

\* README: "replayed nonces ... fail closed", with no word about restarts.
\* h.seen lives in memory, so a copy that arrives after a restart is served.
ReplayFailsClosed ==
    \A c \in Calls : \A k, l \in Copies :
        (effect[<<c, k>>] # NoEffect /\ effect[<<c, l>>] # NoEffect) => k = l

\* While another copy of an admitted call would still pass VerifySignature, the
\* process that admitted it still has the nonce: the purge in authenticate never
\* forgets a nonce early.
NonceRemembered ==
    \A a \in Attempts :
        (admittedIn[a] = life /\ now <= stamp[CallOf(a)] + Window)
            => CallOf(a) \in DOMAIN seen

\* When a nonce is about to be recorded, h.seen holds no entry older than the
\* retention (plus the time since the signature check): the map cannot grow
\* beyond the nonces of that period, however long the process runs.
SeenBounded ==
    \A a \in Attempts : pc[a] = "holding" =>
        \A v \in DOMAIN seen : seen[v] >= checkedAt[a] - Retention

\* An implementation only ever ran for a body that names its process's release,
\* and, when the copy arrived with the headers its client sent, under the very
\* manifest the client pinned, also when the process was replaced by another
\* release while copies were under way, even by one of the same name.
PinnedRelease ==
    \A a \in Attempts : effect[a] # NoEffect =>
        /\ ReleaseOf[effect[a].manifest] = named[CallOf(a)]
        /\ headers[a] = Identity(pinned[CallOf(a)])
            => effect[a].manifest = pinned[CallOf(a)]

\* A call returns a value only if the implementation produced it for this very
\* call, under a release of the name that the call signed, and, on the routes of
\* ActionCalls, one that passed its Validate; a response to another call never
\* counts, whatever became of the headers of either.
AnswerBinding ==
    \A c \in Calls : result[c] = "ok" =>
        /\ answer[c] # NoAnswer
        /\ CallOf(answer[c]) = c
        /\ effect[answer[c]] # NoEffect
        /\ ReleaseOf[effect[answer[c]].manifest] = named[c]
        /\ c \in ActionCalls => effect[answer[c]].sound

\* A copy that passed VerifySignature is refused as a replay only if this process
\* has admitted another copy of its request: no nonce is used up by a copy that was
\* turned away, whose request would then be lost.
OnlyReplaysRefused ==
    [][\A a \in Attempts : (Check(a) /\ pc'[a] = "done") =>
            \E k \in Copies : admittedIn[<<CallOf(a), k>>] = life]_vars

\* A request is admitted within a bounded time of being sent, however long the
\* network held it back: an old copy cannot be used later.
AdmissionTimely ==
    [][\A a \in Attempts : Record(a) =>
            now - sentAt[CallOf(a)] <= Window + Ahead + MaxPause]_vars

\* Every copy that enters the handler leaves it: nobody waits for h.mu forever.
CopiesFinish ==
    \A a \in Attempts : (pc[a] = "verified") ~> (pc[a] = "done")

\* The workers of the running process that ran the implementation for a call.
Serving(c) == {k \in Copies : /\ effect[<<c, k>>] # NoEffect
                              /\ admittedIn[<<c, k>>] = life}

Served == {c \in Calls : \E k \in Copies : effect[<<c, k>>] # NoEffect}

Contract == INSTANCE CallContract
    WITH Workers <- Copies, serving <- [c \in Calls |-> Serving(c)],
         served <- Served

\* The exchange implements the contract: a client may rely on "at most once per
\* adapter process" and on "ok means done" with nothing else in mind.
ImplementsContract == Contract!Spec
=============================================================================
