--------------------------- MODULE ParameterCeilings ---------------------------
(***************************************************************************)
(* One parameter ceiling against one parameter object (ParameterLimits of  *)
(* src/constraints.go): which ceilings are well formed, and which objects, *)
(* as the text spells them, lie below one.                                 *)
(*                                                                         *)
(* A JSON text is a record that keeps what the decoder may refuse: an      *)
(* object is a sequence of members whose keys may repeat, a number is a    *)
(* literal.  Arrays and objects inside a parameter hold plain values.      *)
(* Around the functions the model puts an author who edits the ceiling and *)
(* an agent that sends parameters.                                         *)
(***************************************************************************)
EXTENDS ExactNumbers

CONSTANTS
    Unset,         \* a nil map, slice or pointer
    CeilingSpace,  \* bound: the ceilings an author may write
    RawSpace,      \* bound: the parameters an agent may send
    Precision      \* bound: no literal has more decimals than this

Zero == Literal(FALSE, <<0>>, 0, 0)

Text(kind, text) == [kind |-> kind, text |-> text, number |-> Zero, items |-> <<>>]

Number(n) == [kind |-> "number", text |-> "", number |-> n, items |-> <<>>]

Structure(kind, items) ==
    [kind |-> kind, text |-> "", number |-> Zero, items |-> items]

Structured == {"array", "object"}

Types == {"string", "boolean", "integer", "number"} \cup Structured

-----------------------------------------------------------------------------
(* What the trees look like. *)

DecimalShape(n) == n \in Literals /\ Scale(n) + Precision \in Nat

\* A value that holds no others; "garbage" is a text that is not JSON.
PlainShape(v) ==
    \/ v.kind \in {"garbage", "null", "string", "boolean"} /\ v = Text(v.kind, v.text)
    \/ v.kind = "number" /\ v = Number(v.number) /\ DecimalShape(v.number)

ItemsShape(v) ==
    /\ v.kind \in Structured /\ v = Structure(v.kind, v.items)
    /\ v.items \in Seq({v.items[i] : i \in DOMAIN v.items})
    /\ v.kind = "array" => \A i \in DOMAIN v.items : v.items[i].key = ""

ValueShape(v) ==
    PlainShape(v) \/ (ItemsShape(v) /\ \A i \in DOMAIN v.items : PlainShape(v.items[i].value))

ParametersShape(v) ==
    PlainShape(v) \/ (ItemsShape(v) /\ \A i \in DOMAIN v.items : ValueShape(v.items[i].value))

LimitShape(limit) ==
    /\ \A n \in {limit.minimum, limit.maximum} \ {Unset} : DecimalShape(n)
    /\ limit.allowed # Unset => \A i \in DOMAIN limit.allowed : ValueShape(limit.allowed[i])

ASSUME CeilingAssumption ==
    /\ Precision \in Nat
    /\ \A c \in CeilingSpace : \A f \in DOMAIN c : LimitShape(c[f])
    /\ \A v \in RawSpace : ParametersShape(v)
    /\ Structure("object", <<>>) \in RawSpace

-----------------------------------------------------------------------------
(* Decoding. *)

Keys(v) == {v.items[i].key : i \in DOMAIN v.items}

\* Mutant: repeated keys are not looked for, the decoder keeps the last one.
ReadsLastKey(v) ==
    /\ v.kind # "garbage"
    /\ v.kind = "number" => Readable(v.number)

\* readParameterValue, of one value and not of those inside it.
Reads(v) ==
    /\ v.kind # "garbage"
    /\ v.kind = "number" => Readable(v.number)
    /\ v.kind = "object" =>
         \A i, j \in DOMAIN v.items : v.items[i].key = v.items[j].key => i = j

\* decodeParameterJSON: nothing that is nested is left out.
Decodes(v) ==
    /\ Reads(v)
    /\ \A i \in DOMAIN v.items :
         LET w == v.items[i].value
         IN  Reads(w) /\ \A j \in DOMAIN w.items : Reads(w.items[j].value)

\* The decoded object at a key.
Member(v, key) ==
    LET last == CHOOSE i \in DOMAIN v.items :
                    /\ v.items[i].key = key
                    /\ \A j \in DOMAIN v.items : v.items[j].key = key => j <= i
    IN  v.items[last].value

\* Mutant: numbers are the same if they are spelled the same.
PlainEqualSpelling(a, b) ==
    /\ a.kind = b.kind
    /\ IF a.kind = "number" THEN a.number = b.number ELSE a.text = b.text

\* parameterEqual, of values that hold no others.
PlainEqual(a, b) ==
    /\ a.kind = b.kind
    /\ IF a.kind = "number" THEN Compare(a.number, b.number) = 0 ELSE a.text = b.text

\* parameterEqual.
ParameterEqual(a, b) ==
    /\ a.kind = b.kind
    /\ Len(a.items) = Len(b.items)
    /\ \/ a.kind \notin Structured /\ PlainEqual(a, b)
       \/ /\ a.kind = "array"
          /\ \A i \in DOMAIN a.items : PlainEqual(a.items[i].value, b.items[i].value)
       \/ /\ a.kind = "object" /\ Keys(a) = Keys(b)
          /\ \A key \in Keys(a) : PlainEqual(Member(a, key), Member(b, key))

-----------------------------------------------------------------------------
(* Ceilings: Unset or a function from fields to limits. *)

\* parameterType.
HasType(v, type) ==
    \/ v.kind = type
    \/ v.kind = "number" /\ type = "integer" /\ IsInteger(v.number)

\* ParameterLimit.inRange.
InRange(limit, v) ==
    IF v.kind # "number" THEN limit.minimum = Unset /\ limit.maximum = Unset
    ELSE /\ limit.minimum # Unset => Compare(v.number, limit.minimum) >= 0
         /\ limit.maximum # Unset => Compare(v.number, limit.maximum) <= 0

ValidBounds(limit) ==
    /\ \A n \in {limit.minimum, limit.maximum} \ {Unset} :
         /\ limit.type \in {"integer", "number"}
         /\ Readable(n) /\ HasType(Number(n), limit.type)
    /\ (limit.minimum # Unset /\ limit.maximum # Unset) =>
         Compare(limit.minimum, limit.maximum) <= 0

\* Mutant: an empty list of allowed values passes for no list.
ValidAllowedAnyLength(limit) ==
    /\ limit.type \in Structured => limit.allowed \notin {Unset, <<>>}
    /\ limit.allowed # Unset =>
         \A i \in DOMAIN limit.allowed :
            LET v == limit.allowed[i]
            IN  Decodes(v) /\ HasType(v, limit.type) /\ InRange(limit, v)

ValidAllowed(limit) ==
    /\ limit.allowed # <<>>
    /\ limit.type \in Structured => limit.allowed # Unset
    /\ limit.allowed # Unset =>
         \A i \in DOMAIN limit.allowed :
            LET v == limit.allowed[i]
            IN  Decodes(v) /\ HasType(v, limit.type) /\ InRange(limit, v)

\* ParameterLimits.Validate.
ValidCeiling(limits) ==
    /\ limits # Unset
    /\ \A f \in DOMAIN limits :
         /\ limits[f].type \in Types
         /\ ValidBounds(limits[f]) /\ ValidAllowed(limits[f])

\* One supplied parameter against its limit.
Admits(limit, v) ==
    /\ HasType(v, limit.type) /\ InRange(limit, v)
    /\ limit.allowed \notin {Unset, <<>>} =>
         \E i \in DOMAIN limit.allowed : ParameterEqual(v, limit.allowed[i])

\* ParameterLimits.Matches.
Matches(limits, v) ==
    /\ ValidCeiling(limits)
    /\ Decodes(v) /\ v.kind = "object"
    /\ Keys(v) \subseteq DOMAIN limits
    /\ \A f \in DOMAIN limits :
         IF f \in Keys(v) THEN Admits(limits[f], Member(v, f)) ELSE limits[f].optional

-----------------------------------------------------------------------------
VARIABLES
    ceiling,  \* ParameterLimits
    raw       \* the parameters of the request

ceilingVars == <<ceiling, raw>>

CeilingTypeOK == ceiling \in {Unset} \cup CeilingSpace /\ raw \in RawSpace

CeilingInit == ceiling = Unset /\ raw = Structure("object", <<>>)

\* The author writes another ceiling.
Edit(c) == ceiling' = c /\ UNCHANGED raw

\* The agent sends other parameters.
Send(v) == raw' = v /\ UNCHANGED ceiling

CeilingNext == \/ \E c \in CeilingSpace : Edit(c)
        \/ \E v \in RawSpace : Send(v)

CeilingSpec == CeilingInit /\ [][CeilingNext]_ceilingVars

-----------------------------------------------------------------------------
(* What values mean, without the code's comparisons. *)

\* A number in units of 10^-Precision.
Units(n) == Mantissa(n) * PowerOfTen[Scale(n) + Precision]

PlainMeaning(v) ==
    <<v.kind, v.text, IF v.kind = "number" THEN Units(v.number) ELSE 0>>

\* The places inside a value: keys of an object, in no order and maybe repeated;
\* positions of an array.
Meaning(v) ==
    <<PlainMeaning(v),
      {<<v.items[i].key, IF v.kind = "array" THEN i ELSE 0,
         PlainMeaning(v.items[i].value)>> : i \in DOMAIN v.items}>>

ObjectMeaning(v) ==
    <<v.kind, {<<v.items[i].key, Meaning(v.items[i].value)>> : i \in DOMAIN v.items}>>

\* A value lies below a limit.
Below(limit, v) ==
    /\ v.kind = "number" =>
         /\ limit.type = "integer" => Units(v.number) % PowerOfTen[Precision] = 0
         /\ limit.minimum # Unset => Units(limit.minimum) <= Units(v.number)
         /\ limit.maximum # Unset => Units(v.number) <= Units(limit.maximum)
    /\ limit.allowed # Unset =>
         \E i \in DOMAIN limit.allowed : Meaning(limit.allowed[i]) = Meaning(v)

\* Limit n asks for at least as much as limit w.
NarrowerLimit(n, w) ==
    /\ n.type = w.type \/ (n.type = "integer" /\ w.type = "number")
    /\ n.optional => w.optional
    /\ w.minimum # Unset =>
         n.minimum # Unset /\ Units(w.minimum) <= Units(n.minimum)
    /\ w.maximum # Unset =>
         n.maximum # Unset /\ Units(n.maximum) <= Units(w.maximum)
    /\ w.allowed # Unset =>
         /\ n.allowed # Unset
         /\ \A i \in DOMAIN n.allowed : \E j \in DOMAIN w.allowed :
                Meaning(n.allowed[i]) = Meaning(w.allowed[j])

Narrower(n, w) ==
    /\ DOMAIN n \subseteq DOMAIN w
    /\ \A f \in DOMAIN w \ DOMAIN n : w[f].optional
    /\ \A f \in DOMAIN n : NarrowerLimit(n[f], w[f])

(* Properties. *)

\* constraints.go: the decoder rejects duplicate keys "rather than accepting
\* differing JSON interpretations across the agent and provider".  Whichever
\* occurrence of a key the provider's decoder keeps, what it acts on has every
\* required parameter and lies below every limit.
EveryReaderBelow ==
    Matches(ceiling, raw) =>
        /\ \A i \in DOMAIN raw.items :
             Below(ceiling[raw.items[i].key], raw.items[i].value)
        /\ \A f \in DOMAIN ceiling : ceiling[f].optional \/ f \in Keys(raw)

\* Parameters that mean the same, whatever the order of their keys and the
\* spelling of their numbers, get the same verdict.
SpellingStable ==
    [][ (/\ ceiling' = ceiling /\ Decodes(raw) /\ Decodes(raw')
         /\ ObjectMeaning(raw) = ObjectMeaning(raw'))
        => (Matches(ceiling, raw) <=> Matches(ceiling, raw')) ]_ceilingVars

\* An author who tightens bounds, shortens a list of allowed values, requires a
\* parameter or removes one never lets through what was refused.
NarrowingHolds ==
    [][ (/\ raw' = raw /\ ValidCeiling(ceiling) /\ ceiling' # Unset
         /\ Narrower(ceiling', ceiling))
        => (Matches(ceiling', raw) => Matches(ceiling, raw)) ]_ceilingVars
=============================================================================
