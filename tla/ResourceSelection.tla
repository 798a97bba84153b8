--------------------------- MODULE ResourceSelection ---------------------------
(***************************************************************************)
(* Resource discovery (src/discovery.go, HTTPClient.DiscoverResources and  *)
(* DiscoveryService of src/discovery_transport.go): the control plane      *)
(* searches a provider's inventory page by page, or revalidates exact      *)
(* identities before it lets a session have them.                          *)
(*                                                                         *)
(* The control plane retains each request in a database that may spell the *)
(* numbers of the connection's configuration anew, and checks answers      *)
(* against what it retained.  The provider answers from a reading of its   *)
(* inventory that may be old, or, when it is faulty, with any page.  What  *)
(* carries pages back is not trusted to keep them apart (OutboundRuntime   *)
(* follows the deadlines of the outbound path in detail).  The             *)
(* configuration is one number, a digest the tuple it is computed from.    *)
(***************************************************************************)
EXTENDS ExactNumbers, FiniteSets

CONSTANTS
    Absent,      \* nil
    Requests,    \* request identities
    Ids,         \* resource identities
    NoCursor,    \* ""
    Cursors,     \* cursors a provider hands out
    QuerySpace,  \* bound: what the control plane asks for, by request
    Configs,     \* the configuration, as literals
    Spellings,   \* the literals the database may make of it
    Volatile,    \* bound: the resources that come and go
    MaxPage,     \* the capability's maximum_page_size
    MaxAge,      \* the capability's maximum_age_seconds
    Tolerance,   \* the 30 seconds that dates may be ahead
    Ahead,       \* the adapter's clock is at most this far ahead
    Behind,      \* and at most this far behind
    MaxLength,   \* bound: length of a faulty page's lists
    Misdated,    \* bound: how far its date is from the time it is made
    LastAsk,     \* bound: last time of each request
    MaxTime      \* bound: last time

\* What a request asks for, as the control plane writes it.
QueryType == [ids : {Absent} \cup Seq(Ids), query : BOOLEAN,
              cursor : {NoCursor} \cup Cursors, limit : Int,
              config : Configs]

ASSUME SelectionAssumption ==
    /\ MaxPage \in Nat /\ MaxAge \in Nat /\ Tolerance \in Nat
    /\ Ahead \in Nat /\ Behind \in Nat /\ MaxLength \in Nat
    /\ MaxTime \in Nat /\ Misdated \subseteq Int
    /\ \A r \in Requests : QuerySpace[r] \subseteq QueryType
    /\ Configs \cup Spellings \subseteq Literals
    /\ Volatile \subseteq Ids

Elements(s) == {s[i] : i \in DOMAIN s}

\* validDiscoveryIDs, and the map of identities seen.
NoRepeats(s) == \A i, j \in DOMAIN s : s[i] = s[j] => i = j

Lists == UNION {[1..n -> Ids] : n \in 0..MaxLength}

-----------------------------------------------------------------------------
(* Requests and pages. *)

\* DiscoveryRequest.Validate.
ValidRequest(q) ==
    /\ 1 <= q.limit /\ q.limit <= MaxPage
    /\ Readable(q.config)
    /\ q.ids # Absent =>
         /\ ~ q.query /\ q.cursor = NoCursor
         /\ 1 <= Len(q.ids) /\ Len(q.ids) <= q.limit
         /\ NoRepeats(q.ids)

\* The age of a request, in ValidateAt and in DiscoveryPage.Validate.
Current(q, clock) == q.now <= clock + Tolerance /\ clock < q.now + MaxAge

\* DiscoveryRequest.ValidateAt.
ValidateAt(q, clock) == ValidRequest(q) /\ Current(q, clock)

\* Mutant: the digest covers what is asked for, but not the request's identity,
\* date and cursor.
DigestOfQuestion(q) ==
    <<q.ids, q.query, q.limit, Canonical(q.config)>>

\* DiscoveryRequestDigest: every field of the request, the configuration with
\* canonical numbers.
RequestDigest(q) ==
    <<q.id, q.ids, q.query, q.cursor, q.limit, q.now, Canonical(q.config)>>

\* Mutant: requested identities are looked for, but nothing is counted.
CoversUncounted(p, q) ==
    /\ NoRepeats(p.missing)
    /\ Elements(p.resources) \cap Elements(p.missing) = {}
    /\ Elements(q.ids) \subseteq Elements(p.resources) \cup Elements(p.missing)

\* The end of DiscoveryPage.Validate: one set of seen identities, as many as
\* were requested, and every requested one among them.
Covers(p, q) ==
    LET seen == Elements(p.resources) \cup Elements(p.missing)
    IN  /\ NoRepeats(p.missing)
        /\ Elements(p.resources) \cap Elements(p.missing) = {}
        /\ Cardinality(seen) = Len(q.ids)
        /\ Elements(q.ids) \subseteq seen

\* Mutant: only the request's age is looked at.
ObservedWhenever(p, clock) == TRUE

\* The date of the evidence.
ObservedLately(p, clock) ==
    p.observed <= clock + Tolerance /\ clock < p.observed + MaxAge

\* DiscoveryPage.Validate.
ValidPage(p, q, clock) ==
    /\ ValidRequest(q)
    /\ p.digest = RequestDigest(q)
    /\ Len(p.resources) + Len(p.missing) <= q.limit
    /\ Current(q, clock) /\ ObservedLately(p, clock)
    /\ p.next = NoCursor \/ p.next # q.cursor
    /\ NoRepeats(p.resources)
    /\ IF q.ids = Absent THEN p.missing = <<>> ELSE p.next = NoCursor /\ Covers(p, q)

-----------------------------------------------------------------------------
VARIABLES
    faulty,     \* whether the provider's implementation is
    now,        \* time, and the control plane's clock
    inventory,  \* the provider's resources
    history,    \* at each time, the inventories the provider had
    asked,      \* requests as they are sent
    stage,      \* how far each request is
    lead,       \* the adapter's clock less the time, while it serves the request
    page,       \* the page that left the adapter for each request
    loaded,     \* the request as the database gave it back to check a page
    accepted    \* the page the control plane accepted for each request

vars == <<faulty, now, inventory, history, asked, stage, lead, page, loaded,
          accepted>>

Stages == {"new", "sent", "taken", "answered", "accepted", "refused"}

RequestType == [id : Requests, ids : {Absent} \cup Seq(Ids), query : BOOLEAN,
                cursor : {NoCursor} \cup Cursors, limit : Int,
                config : Configs \cup Spellings, now : Nat]

DigestType ==
    Requests \X ({Absent} \cup Seq(Ids)) \X BOOLEAN \X ({NoCursor} \cup Cursors) \X Int
    \X Nat \X {Canonical(c) : c \in Configs \cup Spellings}

\* "of" is not on the wire: whose answer a page is.
PageType == [digest : DigestType, observed : Int,
             resources : Seq(Ids), missing : Seq(Ids), next : {NoCursor} \cup Cursors,
             of : Requests]

Init ==
    /\ faulty \in BOOLEAN
    /\ now = 0
    /\ inventory \in SUBSET Ids
    /\ history = [t \in {0} |-> {inventory}]
    /\ asked = [r \in Requests |-> Absent]
    /\ stage = [r \in Requests |-> "new"]
    /\ lead = [r \in Requests |-> 0]
    /\ page = [r \in Requests |-> Absent]
    /\ loaded = asked
    /\ accepted = page

\* The control plane makes a request, retains it and calls
\* HTTPClient.DiscoverResources, whose first check it may fail.
Ask(r, q) ==
    /\ stage[r] = "new" /\ now <= LastAsk[r]
    /\ LET request == [id |-> r, ids |-> q.ids, query |-> q.query,
                       cursor |-> q.cursor, limit |-> q.limit, config |-> q.config,
                       now |-> now]
       IN  /\ asked' = [asked EXCEPT ![r] = request]
           /\ stage' = [stage EXCEPT ![r] =
                           IF ValidateAt(request, now) THEN "sent" ELSE "refused"]
    /\ UNCHANGED <<faulty, now, inventory, history, lead, page, loaded, accepted>>

\* handleDiscoverResources reads the adapter's clock, and the service checks the
\* request before it calls the provider.
Take(r, d) ==
    /\ stage[r] = "sent"
    /\ ValidateAt(asked[r], now + d)
    /\ lead' = [lead EXCEPT ![r] = d]
    /\ stage' = [stage EXCEPT ![r] = "taken"]
    /\ UNCHANGED <<faulty, now, inventory, history, asked, page, loaded, accepted>>

\* The service checks the provider's page, at its time of taking the request
\* plus the time the provider took, and lets it go.
Answer(r, p) ==
    /\ stage[r] = "taken"
    /\ ValidPage(p, asked[r], now + lead[r])
    /\ page' = [page EXCEPT ![r] = p]
    /\ lead' = [lead EXCEPT ![r] = 0]
    /\ stage' = [stage EXCEPT ![r] = "answered"]
    /\ UNCHANGED <<faulty, now, inventory, history, asked, loaded, accepted>>

\* A provider that works tells what it read, now or earlier: of what was there some
\* or all, and of what was not that it is missing.
AnswerHonestly(r) ==
    /\ ~ faulty
    /\ stage[r] = "taken"
    /\ \E at \in DOMAIN history : \E read \in history[at] :
       \E found \in {l \in Lists : Elements(l) \subseteq read} :
       \E missing \in {l \in Lists : Elements(l) \cap read = {}} :
       \E d \in (0 - Behind)..Ahead, next \in {NoCursor} \cup Cursors :
         Answer(r, [digest |-> RequestDigest(asked[r]), observed |-> at + d,
                    resources |-> found, missing |-> missing, next |-> next,
                    of |-> r])

\* A provider that does not returns whatever it likes for the request, dated as it
\* likes.
AnswerAnything(r) ==
    /\ faulty
    /\ stage[r] = "taken"
    /\ \E found, missing \in Lists, next \in {NoCursor} \cup Cursors :
       \E d \in Misdated :
         Answer(r, [digest |-> RequestDigest(asked[r]), observed |-> now + d,
                    resources |-> found, missing |-> missing, next |-> next,
                    of |-> r])

\* The control plane gets a page that was made for some request and checks it
\* against the request it retained, whose configuration the database gives back as
\* c: HTTPClient.DiscoverResources after the call.  A call that fails any check, or
\* is never answered, ends without another effect: the request stays as it is.
Accept(r, s, c) ==
    /\ stage[r] \in {"sent", "taken", "answered"}
    /\ page[s] # Absent
    /\ LET request == [asked[r] EXCEPT !.config = c]
       IN  /\ ValidPage(page[s], request, now)
           /\ loaded' = [loaded EXCEPT ![r] = request]
    /\ accepted' = [accepted EXCEPT ![r] = page[s]]
    /\ stage' = [stage EXCEPT ![r] = "accepted"]
    /\ UNCHANGED <<faulty, now, inventory, history, asked, lead, page>>

\* External: a resource comes or goes.  Bound: once.
Change(id) ==
    /\ \A t \in DOMAIN history : history[t] = {inventory}
    /\ inventory' = IF id \in inventory THEN inventory \ {id} ELSE inventory \cup {id}
    /\ history' = [history EXCEPT ![now] = @ \cup {inventory'}]
    /\ UNCHANGED <<faulty, now, asked, stage, lead, page, loaded, accepted>>

Tick ==
    /\ now < MaxTime
    /\ now' = now + 1
    /\ history' = [t \in 0..now' |-> IF t = now' THEN {inventory} ELSE history[t]]
    /\ UNCHANGED <<faulty, inventory, asked, stage, lead, page, loaded, accepted>>

Next ==
    \/ \E r \in Requests : \E q \in QuerySpace[r] : Ask(r, q)
    \/ \E r \in Requests, d \in (0 - Behind)..Ahead : Take(r, d)
    \/ \E r \in Requests : AnswerHonestly(r) \/ AnswerAnything(r)
    \/ \E r, s \in Requests, c \in Spellings : Accept(r, s, c)
    \/ \E id \in Volatile : Change(id)
    \/ Tick

Spec == Init /\ [][Next]_vars

-----------------------------------------------------------------------------
(* Properties. *)

TypeOK ==
    /\ faulty \in BOOLEAN
    /\ now \in Nat
    /\ inventory \subseteq Ids
    /\ history \in [0..now -> SUBSET SUBSET Ids]
    /\ asked \in [Requests -> RequestType \cup {Absent}]
    /\ stage \in [Requests -> Stages]
    /\ lead \in [Requests -> Int]
    /\ page \in [Requests -> PageType \cup {Absent}]
    /\ loaded \in [Requests -> RequestType \cup {Absent}]
    /\ accepted \in [Requests -> PageType \cup {Absent}]

\* An accepted answer to an exact revalidation, from whatever provider, says of
\* every requested identity, once, either that it is there or that it is not,
\* and says nothing of others.
ExactlyClassified ==
    \A r \in Requests : (accepted[r] # Absent /\ asked[r].ids # Absent) =>
        LET present == Elements(accepted[r].resources)
            missing == Elements(accepted[r].missing)
        IN  /\ present \cup missing = Elements(asked[r].ids)
            /\ present \cap missing = {}
            /\ Len(accepted[r].resources) + Len(accepted[r].missing)
                 = Len(asked[r].ids)

\* "DiscoveryRequestDigest binds the exact validated request, including its mode,
\* freshness and private connection configuration": a page is accepted only for
\* the very request it was made for, and only if the database did not turn that
\* request's configuration into another number.
OwnAnswer ==
    \A r \in Requests : accepted[r] # Absent =>
        /\ accepted[r].of = r
        /\ Compare(asked[r].config, loaded[r].config) = 0

\* "storage round trips cannot invalidate a request's identity": the digest is the
\* same exactly if the number is, compared as the parameter ceilings compare it.
StorageKeepsIdentity ==
    \A r \in Requests, c \in Spellings :
        (asked[r] # Absent /\ Readable(asked[r].config) /\ Readable(c)) =>
            (RequestDigest([asked[r] EXCEPT !.config = c]) = RequestDigest(asked[r])
               <=> Compare(asked[r].config, c) = 0)

\* What a provider that tells what it read reports of a resource was so less than
\* the maximum age and the clocks' difference before the answer is accepted.
ReportedLately ==
    [][ \A r \in Requests :
        (accepted'[r] # accepted[r] /\ ~ faulty) =>
            LET lately == {t \in 0..now : now < t + MaxAge + Ahead}
            IN  /\ \A id \in Elements(accepted'[r].resources) :
                     \E t \in lately : \E was \in history[t] : id \in was
                /\ \A id \in Elements(accepted'[r].missing) :
                     \E t \in lately : \E was \in history[t] : id \notin was ]_vars
=============================================================================
