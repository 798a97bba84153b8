------------------------------ MODULE TaskLifetime ------------------------------
(***************************************************************************)
(* Credentials that end with their task (src/credential_lifetime.go and    *)
(* Issue of src/http.go).                                                  *)
(*                                                                         *)
(* A control plane asks an issuer for credentials while a task lasts.  Of  *)
(* a release only its manifest's Credential counts: the lifetime protocol  *)
(* it declares and its own longest life.  If the release the control plane *)
(* has pinned declares the protocol, the request carries the task's        *)
(* deadline; if not, the control plane follows the README and only asks    *)
(* while the longest lease still fits.  A request may be sent again, each  *)
(* sending being a job; the issuer may be replaced by another release at   *)
(* any time; and minting takes as long as it takes.                        *)
(*                                                                         *)
(* Time is the control plane's; the issuer's clock, and with it the expiry *)
(* dates of the provider, may differ at each reading.                      *)
(***************************************************************************)
EXTENDS Integers

CONSTANTS
    Absent,      \* nil
    Requests,    \* issue requests of the task
    Jobs,        \* sendings of them
    Protocols,   \* lifetime protocols of releases
    Legacy,      \* "", of releases that declare none
    Declared,    \* CredentialLifetimeProtocol
    Credentials, \* what releases declare: a protocol and a maximum_ttl_seconds
    LongestTTL,  \* bound: the longest life a provider gives a credential
    Minute,      \* how long a request with a deadline is fresh
    Tolerance,   \* the 30 seconds that dates may be ahead
    Ahead,       \* the issuer's clock is at most this far ahead
    Behind,      \* and at most this far behind
    MaxTime      \* bound: last time

\* CredentialLifetime.
Deadlines == [protocol : Protocols, expires : Nat]

ASSUME LifetimeAssumption ==
    /\ {Legacy, Declared} \subseteq Protocols /\ Declared # Legacy
    /\ Credentials \subseteq [protocol : Protocols, ttl : Nat]
    /\ LongestTTL \in Nat /\ Minute \in Nat
    /\ Tolerance \in Nat /\ Ahead \in Nat /\ Behind \in Nat /\ MaxTime \in Nat
    /\ Absent \notin Deadlines \cup Credentials

Lags == (0 - Behind)..Ahead

-----------------------------------------------------------------------------
(* The checks. *)

\* ValidateIssueLifetime, which refuses a protocol it does not know.  "request" has
\* the date the request states and the deadline it carries, "credential" is what the
\* release at hand declares.
ValidateIssue(request, credential, clock) ==
    \/ credential.protocol = Legacy /\ request.lifetime = Absent
    \/ /\ credential.protocol = Declared
       /\ request.lifetime # Absent
       /\ request.lifetime.protocol = Declared
       /\ request.now <= clock + Tolerance
       /\ clock < request.now + Minute
       /\ clock < request.lifetime.expires
       /\ request.now < request.lifetime.expires

\* Mutant: the check after issuance does not repeat the one before it.
ValidateIssuedOnce(request, credential, expiry, clock) ==
    /\ clock < expiry /\ expiry <= request.now + credential.ttl
    /\ request.lifetime # Absent => expiry <= request.lifetime.expires

\* Mutant: the longest life is counted from the end of the issuance.
ValidateIssuedFromNow(request, credential, expiry, clock) ==
    /\ ValidateIssue(request, credential, clock)
    /\ clock < expiry /\ expiry <= clock + credential.ttl
    /\ request.lifetime # Absent => expiry <= request.lifetime.expires

\* Mutant: the deadline was looked at before issuance and is not again.
ValidateIssuedAnyEnd(request, credential, expiry, clock) ==
    /\ ValidateIssue(request, credential, clock)
    /\ clock < expiry /\ expiry <= request.now + credential.ttl

\* ValidateIssuedLifetime.
ValidateIssued(request, credential, expiry, clock) ==
    /\ ValidateIssue(request, credential, clock)
    /\ 0 < credential.ttl /\ clock < expiry
    /\ expiry <= request.now + credential.ttl
    /\ request.lifetime # Absent => expiry <= request.lifetime.expires

-----------------------------------------------------------------------------
VARIABLES
    now,        \* time, and the control plane's clock
    deadline,   \* the task's
    pinned,     \* what the release the control plane has pinned declares
    installed,  \* what the release that runs as issuer declares
    asked,      \* each request as it was made
    job         \* each sending

vars == <<now, deadline, pinned, installed, asked, job>>

Stages == {"unsent", "minting", "minted", "issued", "accepted"}

\* A job works for one request in one process, whose credential it keeps.  "minted"
\* and "expiry" are dates of the provider.
JobType == [stage : Stages, of : Requests, credential : Credentials \cup {Absent},
            minted : Int, expiry : Int]

RequestType == [now : Nat, pinned : Credentials,
                lifetime : Deadlines \cup {Absent}]

TypeOK ==
    /\ now \in Nat /\ deadline \in Nat
    /\ pinned \in Credentials /\ installed \in Credentials
    /\ asked \in [Requests -> RequestType \cup {Absent}]
    /\ job \in [Jobs -> JobType]

Init ==
    /\ now = 0
    /\ deadline \in 1..MaxTime
    /\ pinned \in Credentials /\ installed \in Credentials
    /\ asked = [r \in Requests |-> Absent]
    /\ job \in [Jobs -> [stage : {"unsent"}, of : Requests, credential : {Absent},
                         minted : {0}, expiry : {0}]]

\* External, after the README: a request for a release that declares the protocol,
\* or a newer one, carries the deadline; without a declaration the whole lease has
\* to fit.
Ask(r) ==
    /\ asked[r] = Absent /\ now < deadline
    /\ pinned.protocol = Legacy => now + pinned.ttl <= deadline
    /\ asked' = [asked EXCEPT ![r] =
                   [now |-> now, pinned |-> pinned,
                    lifetime |-> IF pinned.protocol = Legacy THEN Absent
                       ELSE [protocol |-> pinned.protocol, expires |-> deadline]]]
    /\ UNCHANGED <<now, deadline, pinned, installed, job>>

\* A sending of a request, maybe not the first, reaches the issuer, which checks it
\* before it has a credential minted.  (handleIssue also compares release names, which
\* only narrows this: the outbound path does not, and a name does not determine what
\* a release declares, see ReleaseAdmission.)
Start(j, lag) ==
    /\ job[j].stage = "unsent" /\ asked[job[j].of] # Absent
    /\ ValidateIssue(asked[job[j].of], installed, now + lag)
    /\ job' = [job EXCEPT ![j].stage = "minting", ![j].credential = installed]
    /\ UNCHANGED <<now, deadline, pinned, installed, asked>>

\* External: the provider mints a credential.  How long it lives is the provider's
\* decision; a life is counted from the moment of minting.
Mint(j, lag, life) ==
    /\ job[j].stage = "minting"
    /\ job' = [job EXCEPT ![j].stage = "minted", ![j].minted = now + lag,
                          ![j].expiry = now + lag + life]
    /\ UNCHANGED <<now, deadline, pinned, installed, asked>>

\* The issuer checks what it got and hands it out.
Issue(j, lag) ==
    /\ job[j].stage = "minted"
    /\ ValidateIssued(asked[job[j].of], job[j].credential, job[j].expiry, now + lag)
    /\ job' = [job EXCEPT ![j].stage = "issued"]
    /\ UNCHANGED <<now, deadline, pinned, installed, asked>>

\* External: the control plane, which "must still check the actual returned expiry",
\* checks the answer against the request and the release it asked.
Accept(j) ==
    /\ job[j].stage = "issued"
    /\ LET request == asked[job[j].of]
       IN  ValidateIssued(request, request.pinned, job[j].expiry, now)
    /\ job' = [job EXCEPT ![j].stage = "accepted"]
    /\ UNCHANGED <<now, deadline, pinned, installed, asked>>

\* External: the issuer's process is replaced; jobs under way end in the old one.
Install(credential) ==
    installed' = credential /\ UNCHANGED <<now, deadline, pinned, asked, job>>

\* External: the control plane admits another release.
Pin(credential) ==
    pinned' = credential /\ UNCHANGED <<now, deadline, installed, asked, job>>

Tick ==
    /\ now < MaxTime
    /\ now' = now + 1
    /\ UNCHANGED <<deadline, pinned, installed, asked, job>>

Next ==
    \/ \E r \in Requests : Ask(r)
    \/ \E j \in Jobs, lag \in Lags : Start(j, lag) \/ Issue(j, lag)
    \/ \E j \in Jobs, lag \in Lags, life \in 1..LongestTTL : Mint(j, lag, life)
    \/ \E j \in Jobs : Accept(j)
    \/ \E credential \in Credentials : Install(credential) \/ Pin(credential)
    \/ Tick

Spec == Init /\ [][Next]_vars

-----------------------------------------------------------------------------
(* Properties. *)

Out(j) == job[j].stage \in {"issued", "accepted"}

\* No credential expires after its task, however often its request was sent and
\* whatever was installed in between: none that an issuer hands out for a request
\* with a deadline, whatever the issuer declares, and none that the control plane
\* accepts.  Without a deadline the issuer's check knows only its own longest life,
\* so before acceptance this needs an issuer no more generous than the pinned one.
EndsWithTask ==
    \A j \in Jobs :
        LET request == asked[job[j].of]
        IN  /\ Out(j)
            /\ \/ request.lifetime # Absent
               \/ job[j].stage = "accepted"
               \/ job[j].credential.ttl <= request.pinned.ttl
            => job[j].expiry <= deadline

\* A credential that is handed out was minted for no longer than the release that
\* issued it allows and the clocks differ, however long the issuance took; one that
\* is accepted, for no longer than the pinned release allows either.
LifeBounded ==
    \A j \in Jobs :
        LET life == job[j].expiry - job[j].minted
        IN  /\ Out(j) => life <= job[j].credential.ttl + Behind
            /\ job[j].stage = "accepted"
                => life <= asked[job[j].of].pinned.ttl + Behind

\* A credential for a request with a deadline leaves the issuer while the request
\* is fresh and the task has time left, up to the difference of the clocks: time
\* that minting takes is not given away.
IssuedWhileFresh ==
    [][ \A j \in Jobs :
        (/\ job[j].stage = "minted" /\ job'[j].stage = "issued"
         /\ asked[job[j].of].lifetime # Absent)
        => /\ now < asked[job[j].of].now + Minute + Behind
           /\ now < deadline + Behind ]_vars
=============================================================================
