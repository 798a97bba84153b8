---------------------------- MODULE DispatchBinding ----------------------------
(***************************************************************************)
(* What an outbound dispatch is about (Dispatch and DispatchRequestDigest  *)
(* of src/outbound.go, Dispatch.DiscoverResources of                       *)
(* src/discovery_transport.go, Dispatch.VerifyConnection and the           *)
(* verification service of src/connection_verification.go).  When it is    *)
(* served, and when its result is too late, is OutboundRuntime's matter.   *)
(*                                                                         *)
(* The control plane makes dispatches and stores them.  What a runtime     *)
(* pulls may have its phase, its request and its digest from different     *)
(* ones, and numbers may come back respelled or rounded.  The provider may *)
(* return what it found for another request.  A request is its kind, its   *)
(* connection, its release and one number of its configuration.            *)
(***************************************************************************)
EXTENDS ExactNumbers

CONSTANTS
    Nothing,       \* nil
    RequestSpace,  \* bound: requests the control plane makes
    Configs,       \* every spelling of their numbers, and what storage makes of it
    Rounded,       \* how each is spelled after it was a float64
    Services       \* the services a runtime may have been built with

Precise == {"discover_resources", "verify_connection"}

\* Phases, and the kinds of requests that belong to them.  The other phases, whose
\* requests are handled outside of the SDK, have one name here.
Phases == Precise \cup {"execute_action"}

ASSUME DispatchAssumption ==
    /\ Configs \subseteq Literals
    /\ RequestSpace \subseteq [kind : Phases, connection : STRING, release : STRING,
                              config : Configs]

\* A request with its number spelled c.
Spelled(q, c) == [q EXCEPT !.config = c]

\* The digest of a request whose number is written as c.
ContentDigest(q, c) == <<q.kind, q.connection, q.release, c>>

\* Mutant: the later phase is not among those with exact numbers.
DispatchRequestDigestOlder(phase, q) ==
    ContentDigest(q, IF phase = "discover_resources" THEN Canonical(q.config)
                     ELSE Rounded[q.config])

\* DispatchRequestDigest.
DispatchRequestDigest(phase, q) ==
    ContentDigest(q, IF phase \in Precise THEN Canonical(q.config)
                     ELSE Rounded[q.config])

\* Dispatch.Validate, without the dispatch's lifetime.
ValidDispatch(d) ==
    /\ d.phase \in Phases
    /\ d.phase \in Precise => Readable(d.request.config)
    /\ d.digest = DispatchRequestDigest(d.phase, d.request)

\* The release checks of the two services, each for its declaration.  "intact" says
\* that the digest the service was given is its manifest's.
ServiceAccepts(service, q) ==
    /\ service.intact /\ q.kind \in service.declares
    /\ q.release = service.release

\* A result's digest, by DiscoveryRequestDigest or VerifyConnectionRequestDigest.
ResultDigest(q) == ContentDigest(q, Canonical(q.config))

-----------------------------------------------------------------------------
VARIABLES
    made,  \* dispatches as the control plane made them
    held,  \* the dispatch the runtime has pulled
    work,  \* the request the provider works on and the service it belongs to
    done   \* the last result that was accepted, and what it was for

dispatchVars == <<made, held, work, done>>

DigestType ==
    {ContentDigest(q, c) : q \in RequestSpace,
        c \in {Canonical(x) : x \in Configs} \cup {Rounded[x] : x \in Configs}}

RequestType == {Spelled(q, c) : q \in RequestSpace, c \in Configs}

DispatchType ==
    [connection : {q.connection : q \in RequestSpace}, phase : Phases,
     request : RequestType, digest : DigestType]

WorkType == [request : RequestType, service : Services]

DispatchTypeOK ==
    /\ made \subseteq DispatchType
    /\ held \in DispatchType \cup {Nothing}
    /\ work \in WorkType \cup {Nothing}
    /\ done \in [dispatch : DispatchType, work : WorkType, of : RequestType]
                \cup {Nothing}

DispatchInit == made = {} /\ held = Nothing /\ work = Nothing /\ done = Nothing

\* The control plane makes a dispatch.  Bound: two of them.
Make(q) ==
    /\ \A d, e \in made : d = e
    /\ q.kind \in Precise => Readable(q.config)
    /\ made' = made \cup {[connection |-> q.connection, phase |-> q.kind, request |-> q,
                           digest |-> DispatchRequestDigest(q.kind, q)]}
    /\ UNCHANGED <<held, work, done>>

\* A runtime pulls what is stored as a dispatch.
Pull(d, e, f, c) ==
    /\ held' = [connection |-> d.connection, phase |-> d.phase,
                request |-> Spelled(e.request, c), digest |-> f.digest]
    /\ work' = Nothing
    /\ UNCHANGED <<made, done>>

\* Dispatch.DiscoverResources or Dispatch.VerifyConnection, whichever the runtime
\* calls, up to the call of the provider.  Requests of another kind do not decode, or
\* fail the request's own validation.
Serve(phase, service) ==
    /\ held # Nothing /\ work = Nothing
    /\ ValidDispatch(held)
    /\ held.phase = phase
    /\ service.outbound
    /\ held.request.kind = phase
    /\ held.request.connection = held.connection
    /\ ServiceAccepts(service, held.request)
    /\ work' = [request |-> held.request, service |-> service]
    /\ UNCHANGED <<made, held, done>>

\* The provider returns what it found for some request, and the service compares
\* digests; what fails is an error and leaves no trace.
Finish(q) ==
    /\ work # Nothing
    /\ ResultDigest(q) = ResultDigest(work.request)
    /\ done' = [dispatch |-> held, work |-> work, of |-> q]
    /\ work' = Nothing
    /\ UNCHANGED <<made, held>>

DispatchNext ==
    \/ \E q \in RequestSpace : Make(q)
    \/ \E d, e, f \in made, c \in Configs : Pull(d, e, f, c)
    \/ \E phase \in Precise, service \in Services : Serve(phase, service)
    \/ \E d \in made, c \in Configs : Finish(Spelled(d.request, c))

DispatchSpec == DispatchInit /\ [][DispatchNext]_dispatchVars

-----------------------------------------------------------------------------
(* Properties. *)

\* Two requests are the same up to the spelling of numbers.
Same(q, r) ==
    /\ Spelled(q, r.config) = r
    /\ Compare(q.config, r.config) = 0

\* "Both dispatch and response checks reject stale/substituted work before it can
\* become verified connection authority": what is accepted was found for a request
\* that the control plane made for this phase and connection and for the release of
\* the service, with its numbers exact, however stored dispatches and provider
\* results were mixed up.
WorkAsDispatched ==
    done # Nothing =>
        \E d \in made :
            /\ Same(d.request, done.of)
            /\ d.phase = done.dispatch.phase
            /\ d.connection = done.dispatch.connection
            /\ d.request.release = done.work.service.release
            /\ d.phase \in done.work.service.declares
=============================================================================
