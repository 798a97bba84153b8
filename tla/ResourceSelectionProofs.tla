------------------------ MODULE ResourceSelectionProofs ------------------------
(***************************************************************************)
(* Theorems about ResourceSelection for any identities, requests, clocks   *)
(* and ages, and for every inventory: an accepted page belongs to its      *)
(* request, classifies exactly what was asked, and, if the provider works, *)
(* tells what was so lately.                                               *)
(***************************************************************************)
EXTENDS ResourceSelection, ExactNumbersProofs, FiniteSetTheorems, TLAPS

-----------------------------------------------------------------------------
(* Counting. *)

\* A list without repetitions has as many elements as places.
LEMMA CountList ==
    ASSUME NEW s \in Seq(Ids), NoRepeats(s)
    PROVE  /\ IsFiniteSet(Elements(s))
           /\ Cardinality(Elements(s)) = Len(s)
<1> DEFINE f == [i \in 1..Len(s) |-> s[i]]
<1>1. DOMAIN s = 1..Len(s) /\ Len(s) \in Nat
  OBVIOUS
<1>2. f \in Bijection(1..Len(s), Elements(s))
  BY <1>1 DEF Bijection, Injection, Surjection, IsInjective, Elements, NoRepeats
<1>3. ExistsBijection(1..Len(s), Elements(s))
  BY <1>2 DEF ExistsBijection
<1> QED BY <1>1, <1>3, FS_CountingElements, FS_NatBijection

\* The count at the end of DiscoveryPage.Validate makes the page a partition of the
\* request.
LEMMA CoversExactly ==
    ASSUME NEW ids \in Seq(Ids), NEW resources \in Seq(Ids), NEW missing \in Seq(Ids),
           NoRepeats(ids), NoRepeats(resources), NoRepeats(missing),
           Elements(resources) \cap Elements(missing) = {},
           Cardinality(Elements(resources) \cup Elements(missing)) = Len(ids),
           Elements(ids) \subseteq Elements(resources) \cup Elements(missing)
    PROVE  /\ Elements(resources) \cup Elements(missing) = Elements(ids)
           /\ Len(resources) + Len(missing) = Len(ids)
<1> DEFINE seen == Elements(resources) \cup Elements(missing)
<1>1. /\ IsFiniteSet(Elements(ids)) /\ Cardinality(Elements(ids)) = Len(ids)
      /\ IsFiniteSet(Elements(resources))
      /\ Cardinality(Elements(resources)) = Len(resources)
      /\ IsFiniteSet(Elements(missing))
      /\ Cardinality(Elements(missing)) = Len(missing)
  BY CountList
<1>2. IsFiniteSet(seen)
  BY <1>1, FS_Union
<1>3. Cardinality(seen) = Len(resources) + Len(missing)
                          - Cardinality(Elements(resources) \cap Elements(missing))
  BY <1>1, FS_Union
<1>4. Cardinality(Elements(resources) \cap Elements(missing)) = 0
  BY FS_EmptySet
<1>5. seen = Elements(ids)
  <2> HIDE DEF seen
  <2>1. Elements(ids) \in SUBSET seen
    BY DEF seen
  <2>2. Cardinality(seen) = Cardinality(Elements(ids))
    BY <1>1 DEF seen
  <2> QED BY <2>1, <2>2, <1>2, FS_Subset
<1>6. Len(resources) \in Nat /\ Len(missing) \in Nat /\ Len(ids) \in Nat
  OBVIOUS
<1> QED BY <1>3, <1>4, <1>5, <1>6

-----------------------------------------------------------------------------
(* The inductive invariant. *)

AskedInv ==
    \A r \in Requests :
        stage[r] # "new" => asked[r] \in RequestType /\ asked[r].id = r

\* A page that left the adapter was made for its request.
PageInv ==
    \A s \in Requests : page[s] # Absent =>
        /\ stage[s] # "new"
        /\ page[s].of = s
        /\ page[s].digest = RequestDigest(asked[s])

\* What is accepted belongs to a request that does not change any more.
AcceptedInv ==
    \A r \in Requests : accepted[r] # Absent =>
        /\ stage[r] = "accepted"
        /\ accepted[r].of = r
        /\ loaded[r] \in RequestType
        /\ Canonical(asked[r].config) = Canonical(loaded[r].config)

IInv == TypeOK /\ AskedInv /\ PageInv /\ AcceptedInv /\ ExactlyClassified

-----------------------------------------------------------------------------
(* The inductive step. *)

LEMMA ListsAreSeqs == Lists \subseteq Seq(Ids)
<1> SUFFICES ASSUME NEW l \in Lists PROVE l \in Seq(Ids)
  OBVIOUS
<1>1. PICK n \in 0..MaxLength : l \in [1..n -> Ids]
  BY DEF Lists
<1>2. n \in Nat
  BY SelectionAssumption
<1> QED BY <1>1, <1>2

LEMMA DigestTyped == \A q \in RequestType : RequestDigest(q) \in DigestType
BY DEF RequestDigest, RequestType, DigestType

\* Every variable keeps its type.
LEMMA AnswerTyped ==
    ASSUME TypeOK, AskedInv, NEW r \in Requests, NEW found \in Lists,
           NEW missing \in Lists, NEW observed \in Int,
           NEW next \in {NoCursor} \cup Cursors,
           Answer(r, [digest |-> RequestDigest(asked[r]), observed |-> observed,
                      resources |-> found, missing |-> missing, next |-> next,
                      of |-> r])
    PROVE  TypeOK'
<1> DEFINE p == [digest |-> RequestDigest(asked[r]), observed |-> observed,
                 resources |-> found, missing |-> missing, next |-> next, of |-> r]
<1>1. stage[r] = "taken"
  BY DEF Answer
<1>2. RequestDigest(asked[r]) \in DigestType
  BY <1>1, DigestTyped DEF AskedInv
<1>3. found \in Seq(Ids) /\ missing \in Seq(Ids)
  BY ListsAreSeqs
<1>4. p \in PageType
  BY <1>2, <1>3 DEF PageType
<1>5. /\ page' = [page EXCEPT ![r] = p]
      /\ lead' = [lead EXCEPT ![r] = 0]
      /\ stage' = [stage EXCEPT ![r] = "answered"]
      /\ UNCHANGED <<faulty, now, inventory, history, asked, loaded, accepted>>
  BY DEF Answer
<1> HIDE DEF p
<1> QED BY <1>4, <1>5 DEF TypeOK, Stages

LEMMA HonestIsAnswer ==
    ASSUME TypeOK, NEW r \in Requests, AnswerHonestly(r)
    PROVE  \E at \in 0..now : \E read \in history[at] :
           \E found \in {l \in Lists : Elements(l) \subseteq read} :
           \E missing \in {l \in Lists : Elements(l) \cap read = {}} :
           \E d \in Int, next \in {NoCursor} \cup Cursors :
             /\ d <= Ahead /\ at \in Int /\ at + d \in Int
             /\ Answer(r, [digest |-> RequestDigest(asked[r]), observed |-> at + d,
                           resources |-> found, missing |-> missing, next |-> next,
                           of |-> r])
<1>1. DOMAIN history = 0..now /\ 0..now \subseteq Int
  BY DEF TypeOK
<1>2. \A d \in (0 - Behind)..Ahead : d \in Int /\ d <= Ahead
  BY SelectionAssumption
<1>3. \A at \in 0..now, d \in Int : at \in Int /\ at + d \in Int
  BY <1>1
<1> QED BY <1>1, <1>2, <1>3 DEF AnswerHonestly

LEMMA TypeStep == IInv /\ [Next]_vars => TypeOK'
<1> SUFFICES ASSUME IInv, [Next]_vars PROVE TypeOK'
  OBVIOUS
<1>0. TypeOK /\ AskedInv
  BY DEF IInv
<1>1. ASSUME NEW r \in Requests, NEW q \in QuerySpace[r], Ask(r, q) PROVE TypeOK'
  <2> DEFINE request ==
        [id |-> r, ids |-> q.ids, query |-> q.query, cursor |-> q.cursor,
         limit |-> q.limit, config |-> q.config, now |-> now]
  <2>1. q \in QueryType
    BY SelectionAssumption
  <2>2. request \in RequestType
    BY <2>1, <1>0 DEF QueryType, RequestType, TypeOK
  <2>3. /\ asked' = [asked EXCEPT ![r] = request]
        /\ \E to \in Stages : stage' = [stage EXCEPT ![r] = to]
        /\ UNCHANGED <<faulty, now, inventory, history, lead, page, loaded, accepted>>
    BY <1>1 DEF Ask, Stages
  <2> HIDE DEF request
  <2> QED BY <2>2, <2>3, <1>0 DEF TypeOK
<1>2. ASSUME NEW r \in Requests, NEW d \in (0 - Behind)..Ahead, Take(r, d)
      PROVE  TypeOK'
  <2>1. d \in Int
    BY SelectionAssumption
  <2> QED BY <2>1, <1>0, <1>2 DEF Take, TypeOK, Stages
<1>3. ASSUME NEW r \in Requests, AnswerHonestly(r) PROVE TypeOK'
  BY <1>0, <1>3, HonestIsAnswer, AnswerTyped
<1>4. ASSUME NEW r \in Requests, AnswerAnything(r) PROVE TypeOK'
  <2>1. \A d \in Misdated : now + d \in Int
    <3>1. now \in Int
      BY <1>0 DEF TypeOK
    <3>2. Misdated \subseteq Int
      BY SelectionAssumption
    <3> QED BY <3>1, <3>2
  <2> QED BY <2>1, <1>0, <1>4, AnswerTyped DEF AnswerAnything
<1>5. ASSUME NEW r \in Requests, NEW s \in Requests, NEW c \in Spellings,
             Accept(r, s, c)
      PROVE  TypeOK'
  <2>1. asked[r] \in RequestType
    BY <1>0, <1>5 DEF Accept, AskedInv
  <2>2. [asked[r] EXCEPT !.config = c] \in RequestType
    BY <2>1 DEF RequestType
  <2>3. page[s] \in PageType
    BY <1>0, <1>5 DEF Accept, TypeOK
  <2> QED BY <2>2, <2>3, <1>0, <1>5 DEF Accept, TypeOK, Stages
<1>6. ASSUME NEW id \in Volatile, Change(id) PROVE TypeOK'
  <2>1. inventory' \subseteq Ids
    BY <1>0, <1>6, SelectionAssumption DEF Change, TypeOK
  <2>2. history' \in [0..now -> SUBSET SUBSET Ids]
    BY <2>1, <1>0, <1>6 DEF Change, TypeOK
  <2> QED BY <2>1, <2>2, <1>0, <1>6 DEF Change, TypeOK
<1>7. CASE Tick
  <2>1. history' \in [0..now' -> SUBSET SUBSET Ids]
    <3>1. now \in Nat /\ now' = now + 1
      BY <1>0, <1>7 DEF Tick, TypeOK
    <3>2. \A t \in 0..now' : t # now' => t \in 0..now
      BY <3>1
    <3> QED BY <3>1, <3>2, <1>0, <1>7 DEF Tick, TypeOK
  <2> QED BY <2>1, <1>0, <1>7 DEF Tick, TypeOK
<1>8. CASE UNCHANGED vars
  BY <1>0, <1>8 DEF vars, TypeOK
<1> QED BY <1>1, <1>2, <1>3, <1>4, <1>5, <1>6, <1>7, <1>8 DEF Next

\* A page that passes the service's checks is made for its request.
LEMMA AnswerStep ==
    ASSUME IInv, TypeOK', NEW r \in Requests, NEW p,
           p.of = r, p.digest = RequestDigest(asked[r]), Answer(r, p)
    PROVE  IInv'
<1>1. /\ stage[r] = "taken"
      /\ page' = [page EXCEPT ![r] = p]
      /\ stage' = [stage EXCEPT ![r] = "answered"]
      /\ UNCHANGED <<asked, loaded, accepted>>
  BY DEF Answer
<1>2. /\ page'[r] = p /\ stage'[r] = "answered"
      /\ \A s \in Requests : s # r => page'[s] = page[s] /\ stage'[s] = stage[s]
  BY <1>1 DEF IInv, TypeOK
<1>3. AskedInv'
  BY <1>1, <1>2 DEF IInv, AskedInv
<1>4. PageInv'
  BY <1>1, <1>2 DEF IInv, PageInv, RequestDigest
<1>5. AcceptedInv' /\ ExactlyClassified'
  BY <1>1, <1>2 DEF IInv, AcceptedInv, ExactlyClassified
<1> QED BY <1>3, <1>4, <1>5 DEF IInv

\* What the control plane accepts is the page made for the request, with a
\* configuration of the same canonical spelling.
LEMMA AcceptedIsOwn ==
    ASSUME IInv, NEW r \in Requests, NEW s \in Requests, NEW c \in Spellings,
           Accept(r, s, c)
    PROVE  /\ s = r
           /\ asked[r] \in RequestType
           /\ page[r] \in PageType /\ page[r].of = r
           /\ Canonical(asked[r].config) = Canonical(c)
           /\ ValidPage(page[r], [asked[r] EXCEPT !.config = c], now)
<1> DEFINE request == [asked[r] EXCEPT !.config = c]
<1>1. /\ page[s] # Absent /\ stage[r] # "new"
      /\ ValidPage(page[s], request, now)
  BY DEF Accept
<1>2. /\ asked[r] \in RequestType /\ asked[r].id = r
      /\ asked[s] \in RequestType /\ asked[s].id = s
      /\ page[s].of = s /\ page[s].digest = RequestDigest(asked[s])
  BY <1>1 DEF IInv, AskedInv, PageInv
<1>3. page[s] \in PageType
  BY <1>1 DEF IInv, TypeOK
<1>4. RequestDigest(asked[s]) = RequestDigest(request)
  BY <1>1, <1>2 DEF ValidPage
<1>5. request.id = r /\ request.config = c
  BY <1>2 DEF RequestType
<1>6. s = r /\ Canonical(asked[s].config) = Canonical(c)
  BY <1>2, <1>4, <1>5 DEF RequestDigest
<1> QED BY <1>1, <1>2, <1>3, <1>6

\* An accepted page of an exact request classifies it.
LEMMA AcceptedClassifies ==
    ASSUME NEW q \in RequestType, NEW p \in PageType, NEW clock,
           ValidPage(p, q, clock), q.ids # Absent
    PROVE  /\ Elements(p.resources) \cup Elements(p.missing) = Elements(q.ids)
           /\ Elements(p.resources) \cap Elements(p.missing) = {}
           /\ Len(p.resources) + Len(p.missing) = Len(q.ids)
<1>1. /\ q.ids \in Seq(Ids) /\ p.resources \in Seq(Ids) /\ p.missing \in Seq(Ids)
  BY DEF RequestType, PageType
<1>2. NoRepeats(q.ids) /\ NoRepeats(p.resources) /\ Covers(p, q)
  BY DEF ValidPage, ValidRequest
<1>3. /\ NoRepeats(p.missing)
      /\ Elements(p.resources) \cap Elements(p.missing) = {}
      /\ Cardinality(Elements(p.resources) \cup Elements(p.missing)) = Len(q.ids)
      /\ Elements(q.ids) \subseteq Elements(p.resources) \cup Elements(p.missing)
  BY <1>2 DEF Covers
<1> QED BY <1>1, <1>2, <1>3, CoversExactly

LEMMA AcceptStep ==
    ASSUME IInv, TypeOK', NEW r \in Requests, NEW s \in Requests,
           NEW c \in Spellings, Accept(r, s, c)
    PROVE  IInv'
<1> DEFINE request == [asked[r] EXCEPT !.config = c]
<1>1. /\ asked[r] \in RequestType
      /\ page[r] \in PageType /\ page[r].of = r
      /\ Canonical(asked[r].config) = Canonical(c)
      /\ ValidPage(page[r], request, now)
      /\ s = r
  BY AcceptedIsOwn
<1>2. /\ request \in RequestType /\ request.ids = asked[r].ids
      /\ request.config = c
  BY <1>1 DEF RequestType
<1>3. /\ accepted' = [accepted EXCEPT ![r] = page[r]]
      /\ loaded' = [loaded EXCEPT ![r] = request]
      /\ stage' = [stage EXCEPT ![r] = "accepted"]
      /\ stage[r] # "new"
      /\ UNCHANGED <<asked, page>>
  BY <1>1 DEF Accept
<1> HIDE DEF request
<1>4. /\ accepted'[r] = page[r] /\ loaded'[r] = request /\ stage'[r] = "accepted"
      /\ \A k \in Requests : k # r =>
            /\ accepted'[k] = accepted[k] /\ loaded'[k] = loaded[k]
            /\ stage'[k] = stage[k]
  BY <1>3 DEF IInv, TypeOK
<1>5. AskedInv'
  BY <1>3, <1>4 DEF IInv, AskedInv
<1>6. PageInv'
  BY <1>3, <1>4 DEF IInv, PageInv, RequestDigest
<1>7. AcceptedInv'
  BY <1>1, <1>2, <1>3, <1>4 DEF IInv, AcceptedInv
<1>8. ExactlyClassified'
  <2>1. asked[r].ids # Absent =>
          /\ Elements(page[r].resources) \cup Elements(page[r].missing)
               = Elements(asked[r].ids)
          /\ Elements(page[r].resources) \cap Elements(page[r].missing) = {}
          /\ Len(page[r].resources) + Len(page[r].missing) = Len(asked[r].ids)
    BY <1>1, <1>2, AcceptedClassifies
  <2> QED BY <2>1, <1>3, <1>4 DEF IInv, ExactlyClassified
<1> QED BY <1>5, <1>6, <1>7, <1>8 DEF IInv

LEMMA InvStep == IInv /\ [Next]_vars => IInv'
<1> SUFFICES ASSUME IInv, [Next]_vars PROVE IInv'
  OBVIOUS
<1>0. TypeOK /\ TypeOK'
  BY TypeStep DEF IInv
<1>1. ASSUME NEW r \in Requests, NEW q \in QuerySpace[r], Ask(r, q) PROVE IInv'
  <2> DEFINE request ==
        [id |-> r, ids |-> q.ids, query |-> q.query, cursor |-> q.cursor,
         limit |-> q.limit, config |-> q.config, now |-> now]
  <2>1. q \in QueryType
    BY SelectionAssumption
  <2>2. request \in RequestType /\ request.id = r
    BY <2>1, <1>0 DEF QueryType, RequestType, TypeOK
  <2>3. /\ stage[r] = "new" /\ asked' = [asked EXCEPT ![r] = request]
        /\ \E to \in {"sent", "refused"} : stage' = [stage EXCEPT ![r] = to]
        /\ UNCHANGED <<page, loaded, accepted>>
    BY <1>1 DEF Ask
  <2> HIDE DEF request
  <2>4. /\ asked'[r] = request
        /\ \A k \in Requests : k # r => asked'[k] = asked[k] /\ stage'[k] = stage[k]
        /\ page[r] = Absent /\ accepted[r] = Absent
    BY <2>3, <1>0 DEF IInv, TypeOK, PageInv, AcceptedInv
  <2>5. AskedInv'
    BY <2>2, <2>4 DEF IInv, AskedInv
  <2>6. PageInv'
    BY <2>3, <2>4 DEF IInv, PageInv, RequestDigest
  <2>7. AcceptedInv' /\ ExactlyClassified'
    BY <2>3, <2>4, ZenonT(60) DEF IInv, AcceptedInv, ExactlyClassified
  <2> QED BY <1>0, <2>5, <2>6, <2>7 DEF IInv
<1>2. ASSUME NEW r \in Requests, NEW d \in (0 - Behind)..Ahead, Take(r, d)
      PROVE  IInv'
  <2>1. /\ stage[r] = "sent" /\ stage' = [stage EXCEPT ![r] = "taken"]
        /\ UNCHANGED <<asked, page, loaded, accepted>>
    BY <1>2 DEF Take
  <2>2. AskedInv' /\ PageInv'
    BY <2>1, <1>0 DEF IInv, TypeOK, AskedInv, PageInv, RequestDigest
  <2>3. AcceptedInv' /\ ExactlyClassified'
    BY <2>1, <1>0 DEF IInv, TypeOK, AcceptedInv, ExactlyClassified
  <2> QED BY <1>0, <2>2, <2>3 DEF IInv
<1>3. ASSUME NEW r \in Requests, AnswerHonestly(r) PROVE IInv'
  <2>1. PICK p : p.of = r /\ p.digest = RequestDigest(asked[r]) /\ Answer(r, p)
    BY <1>0, <1>3, HonestIsAnswer
  <2> QED BY <2>1, <1>0, AnswerStep
<1>4. ASSUME NEW r \in Requests, AnswerAnything(r) PROVE IInv'
  <2>1. PICK p : p.of = r /\ p.digest = RequestDigest(asked[r]) /\ Answer(r, p)
    BY <1>4 DEF AnswerAnything
  <2> QED BY <2>1, <1>0, AnswerStep
<1>5. ASSUME NEW r \in Requests, NEW s \in Requests, NEW c \in Spellings,
             Accept(r, s, c)
      PROVE  IInv'
  BY <1>0, <1>5, AcceptStep
<1>6. CASE \/ \E id \in Volatile : Change(id)
           \/ Tick
           \/ UNCHANGED vars
  <2>1. UNCHANGED <<asked, stage, page, loaded, accepted>>
    BY <1>6 DEF Change, Tick, vars
  <2> QED BY <2>1, <1>0 DEF IInv, AskedInv, PageInv, AcceptedInv, ExactlyClassified,
                            RequestDigest
<1> QED BY <1>1, <1>2, <1>3, <1>4, <1>5, <1>6 DEF Next

LEMMA InvAlways == Spec => []IInv
<1>1. Init => IInv
  <2> SUFFICES ASSUME Init PROVE IInv
    OBVIOUS
  <2>1. history \in [0..now -> SUBSET SUBSET Ids]
    BY DEF Init
  <2>2. TypeOK
    BY <2>1 DEF Init, TypeOK, Stages
  <2>3. \A r \in Requests : stage[r] = "new" /\ page[r] = Absent /\ accepted[r] = Absent
    BY DEF Init
  <2> QED BY <2>2, <2>3 DEF IInv, AskedInv, PageInv, AcceptedInv, ExactlyClassified
<1> QED BY <1>1, InvStep, PTL DEF Spec

-----------------------------------------------------------------------------
(* The age of what a working provider reports. *)

\* The page tells a reading of the inventory that is as old as it says, up to the
\* clocks.
Reads(p) ==
    \E at \in 0..now : \E read \in history[at] :
        /\ p.observed <= at + Ahead
        /\ Elements(p.resources) \subseteq read
        /\ Elements(p.missing) \cap read = {}

HonestInv ==
    ~ faulty => \A s \in Requests : page[s] # Absent => Reads(page[s])

LEMMA SomeAnswer ==
    ASSUME TypeOK, NEW r \in Requests, AnswerHonestly(r) \/ AnswerAnything(r)
    PROVE  UNCHANGED <<faulty, now, history, accepted>>
<1>1. PICK p : Answer(r, p)
  BY HonestIsAnswer DEF AnswerAnything
<1> QED BY <1>1 DEF Answer

\* The inventories the provider had are not forgotten.
LEMMA HistoryGrows ==
    ASSUME TypeOK, [Next]_vars
    PROVE  /\ faulty' = faulty
           /\ \A at \in 0..now : at \in 0..now' /\ history[at] \subseteq history'[at]
<1>1. ASSUME NEW id \in Volatile, Change(id)
      PROVE  /\ faulty' = faulty
             /\ \A at \in 0..now : at \in 0..now' /\ history[at] \subseteq history'[at]
  BY <1>1 DEF Change, TypeOK
<1>2. CASE Tick
  <2>1. now \in Nat /\ now' = now + 1 /\ faulty' = faulty
    BY <1>2 DEF Tick, TypeOK
  <2>2. \A at \in 0..now : at \in 0..now' /\ at # now'
    BY <2>1
  <2> QED BY <2>1, <2>2, <1>2 DEF Tick
<1>3. CASE \/ \E r \in Requests : \E q \in QuerySpace[r] : Ask(r, q)
           \/ \E r \in Requests, d \in (0 - Behind)..Ahead : Take(r, d)
           \/ \E r \in Requests : AnswerHonestly(r) \/ AnswerAnything(r)
           \/ \E r, s \in Requests, c \in Spellings : Accept(r, s, c)
           \/ UNCHANGED vars
  <2>1. UNCHANGED <<faulty, now, history>>
    BY <1>3, SomeAnswer DEF Ask, Take, Accept, vars
  <2> QED BY <2>1
<1> QED BY <1>1, <1>2, <1>3 DEF Next

LEMMA HonestStep == IInv /\ HonestInv /\ [Next]_vars => HonestInv'
<1> SUFFICES ASSUME IInv, HonestInv, [Next]_vars, ~ faulty',
                    NEW s \in Requests, page'[s] # Absent
             PROVE  Reads(page[s])'
  BY DEF HonestInv
<1>0. TypeOK
  BY DEF IInv
<1>1. /\ ~ faulty
      /\ \A at \in 0..now : at \in 0..now' /\ history[at] \subseteq history'[at]
  BY <1>0, HistoryGrows
<1>2. CASE page'[s] = page[s]
  <2>1. Reads(page[s])
    BY <1>1, <1>2 DEF HonestInv
  <2> QED BY <2>1, <1>1, <1>2 DEF Reads
<1>3. CASE page'[s] # page[s]
  <2>1. PICK r \in Requests : AnswerHonestly(r)
    BY <1>1, <1>3 DEF Next, vars, Ask, Take, AnswerAnything, Accept, Change, Tick
  <2> DEFINE Told(at, read, found, missing, d, next) ==
          /\ d <= Ahead /\ at \in Int /\ at + d \in Int
          /\ Answer(r, [digest |-> RequestDigest(asked[r]), observed |-> at + d,
                        resources |-> found, missing |-> missing, next |-> next,
                        of |-> r])
  <2>2. PICK at \in 0..now : \E read \in history[at] :
            \E found \in {l \in Lists : Elements(l) \subseteq read} :
            \E missing \in {l \in Lists : Elements(l) \cap read = {}} :
            \E d \in Int, next \in {NoCursor} \cup Cursors :
              Told(at, read, found, missing, d, next)
    BY <1>0, <2>1, HonestIsAnswer
  <2>3. PICK read \in history[at] :
            \E found \in {l \in Lists : Elements(l) \subseteq read} :
            \E missing \in {l \in Lists : Elements(l) \cap read = {}} :
            \E d \in Int, next \in {NoCursor} \cup Cursors :
              Told(at, read, found, missing, d, next)
    BY <2>2
  <2>4. PICK found \in {l \in Lists : Elements(l) \subseteq read} :
            \E missing \in {l \in Lists : Elements(l) \cap read = {}} :
            \E d \in Int, next \in {NoCursor} \cup Cursors :
              Told(at, read, found, missing, d, next)
    BY <2>3
  <2>5. PICK missing \in {l \in Lists : Elements(l) \cap read = {}},
             d \in Int, next \in {NoCursor} \cup Cursors :
              Told(at, read, found, missing, d, next)
    BY <2>4
  <2> DEFINE p == [digest |-> RequestDigest(asked[r]), observed |-> at + d,
                   resources |-> found, missing |-> missing, next |-> next, of |-> r]
  <2>6. page' = [page EXCEPT ![r] = p]
    BY <2>5 DEF Answer
  <2>7. /\ p.observed = at + d /\ p.resources = found /\ p.missing = missing
    OBVIOUS
  <2> HIDE DEF p
  <2>8. page'[s] = p
    BY <2>6, <1>0, <1>3 DEF TypeOK
  <2>9. p.observed <= at + Ahead
    BY <2>5, <2>7, SelectionAssumption
  <2>10. /\ Elements(p.resources) \subseteq read /\ Elements(p.missing) \cap read = {}
        /\ at \in 0..now' /\ read \in history'[at]
    BY <2>7, <1>1
  <2> QED BY <2>8, <2>9, <2>10 DEF Reads
<1> QED BY <1>2, <1>3

LEMMA HonestAlways == Spec => [](IInv /\ HonestInv)
<1>1. Init => HonestInv
  BY DEF Init, HonestInv
<1> QED BY <1>1, InvAlways, HonestStep, PTL DEF Spec

-----------------------------------------------------------------------------
(* What an accepted page says. *)

\* The state keeps its types.
THEOREM TypeCorrect == Spec => []TypeOK
<1>1. IInv => TypeOK
  BY DEF IInv
<1> QED BY <1>1, InvAlways, PTL

\* An accepted answer to an exact revalidation, of whatever provider, partitions the
\* requested identities (the count at the end of DiscoveryPage.Validate).
THEOREM PartitionsRequest == Spec => []ExactlyClassified
<1>1. IInv => ExactlyClassified
  BY DEF IInv
<1> QED BY <1>1, InvAlways, PTL

\* Pages are accepted for the request they were made for, whatever number the database
\* made of its configuration (DiscoveryRequestDigest).
THEOREM PagesAreOwn == Spec => []OwnAnswer
<1>1. IInv => OwnAnswer
  <2> SUFFICES ASSUME IInv, NEW r \in Requests, accepted[r] # Absent
               PROVE  /\ accepted[r].of = r
                      /\ Compare(asked[r].config, loaded[r].config) = 0
    BY DEF OwnAnswer
  <2>1. /\ stage[r] = "accepted" /\ accepted[r].of = r
        /\ loaded[r] \in RequestType
        /\ Canonical(asked[r].config) = Canonical(loaded[r].config)
    BY DEF IInv, AcceptedInv
  <2>2. asked[r] \in RequestType
    BY <2>1 DEF IInv, AskedInv
  <2>3. asked[r].config \in Literals /\ loaded[r].config \in Literals
    BY <2>1, <2>2, SelectionAssumption DEF RequestType
  <2> QED BY <2>1, <2>3, SameSpellingSameNumber
<1> QED BY <1>1, InvAlways, PTL

\* The digest of a retained request changes precisely if its number does, in every
\* spelling the database may give it (canonicalDiscoveryNumbers).
THEOREM StorageIsHarmless == Spec => []StorageKeepsIdentity
<1>1. IInv => StorageKeepsIdentity
  <2> SUFFICES ASSUME IInv, NEW r \in Requests, NEW c \in Spellings, asked[r] # Absent
               PROVE  RequestDigest([asked[r] EXCEPT !.config = c]) = RequestDigest(asked[r])
                        <=> Compare(asked[r].config, c) = 0
    BY DEF StorageKeepsIdentity
  <2>1. asked[r] \in RequestType
    BY DEF IInv, TypeOK
  <2>2. asked[r].config \in Literals /\ c \in Literals
    BY <2>1, SelectionAssumption DEF RequestType
  <2>3. RequestDigest([asked[r] EXCEPT !.config = c]) = RequestDigest(asked[r])
          <=> Canonical(c) = Canonical(asked[r].config)
    BY <2>1 DEF RequestDigest, RequestType
  <2> QED BY <2>2, <2>3, CanonicalExactly
<1> QED BY <1>1, InvAlways, PTL

\* What a working provider reports of a resource was so less than the maximum age
\* and the clocks' difference before the page is accepted (the date of the evidence
\* in DiscoveryPage.Validate).
THEOREM ReportsAreLate == Spec => ReportedLately
<1> DEFINE Lately == {t \in 0..now : now < t + MaxAge + Ahead}
<1> DEFINE Fresh ==
      \A r \in Requests : (accepted'[r] # accepted[r] /\ ~ faulty) =>
          /\ \A id \in Elements(accepted'[r].resources) :
               \E t \in Lately : \E was \in history[t] : id \in was
          /\ \A id \in Elements(accepted'[r].missing) :
               \E t \in Lately : \E was \in history[t] : id \notin was
<1>1. IInv /\ HonestInv /\ [Next]_vars => [Fresh]_vars
  <2> SUFFICES ASSUME IInv, HonestInv, Next, NEW r \in Requests,
                      accepted'[r] # accepted[r], ~ faulty
               PROVE  /\ \A id \in Elements(accepted'[r].resources) :
                           \E t \in Lately : \E was \in history[t] : id \in was
                      /\ \A id \in Elements(accepted'[r].missing) :
                           \E t \in Lately : \E was \in history[t] : id \notin was
    OBVIOUS
  <2>0. TypeOK
    BY DEF IInv
  <2>1. PICK k \in Requests, s \in Requests, c \in Spellings : Accept(k, s, c)
    BY <2>0, SomeAnswer DEF Next, Ask, Take, Change, Tick
  <2>2. /\ accepted' = [accepted EXCEPT ![k] = page[s]] /\ page[s] # Absent
        /\ ValidPage(page[s], [asked[k] EXCEPT !.config = c], now)
    BY <2>1 DEF Accept
  <2>3. accepted'[r] = page[s]
    BY <2>0, <2>2 DEF TypeOK
  <2>4. now < page[s].observed + MaxAge
    BY <2>2 DEF ValidPage, ObservedLately
  <2>5. PICK at \in 0..now : \E read \in history[at] :
          /\ page[s].observed <= at + Ahead
          /\ Elements(page[s].resources) \subseteq read
          /\ Elements(page[s].missing) \cap read = {}
    BY <2>2 DEF HonestInv, Reads
  <2>6. now \in Nat /\ page[s].observed \in Int
    BY <2>0, <2>2 DEF TypeOK, PageType
  <2>7. at \in Lately
    BY <2>4, <2>5, <2>6, SelectionAssumption
  <2> QED BY <2>3, <2>5, <2>7
<1>2. ReportedLately <=> [][Fresh]_vars
  BY DEF ReportedLately
<1> HIDE DEF Fresh
<1> QED BY <1>1, <1>2, HonestAlways, PTL DEF Spec
=============================================================================
