------------------------ MODULE ParameterCeilingsProofs ------------------------
(***************************************************************************)
(* Theorems about ParameterCeilings for all ceilings and all parameters:   *)
(* what a ceiling admits lies below it for every reader, whatever the      *)
(* spelling, and a narrower ceiling admits nothing more.                   *)
(*                                                                         *)
(* The argument has two layers.  The code's comparisons agree with what    *)
(* values mean: Compare with the order of Units, ParameterEqual with the   *)
(* equality of Meaning.  And what Admits says of a value depends on its    *)
(* meaning only.                                                           *)
(***************************************************************************)
EXTENDS ParameterCeilings, ExactNumbersProofs, FiniteSetTheorems

LEMMA TypeStep == CeilingTypeOK /\ [CeilingNext]_ceilingVars => CeilingTypeOK'
BY DEF CeilingTypeOK, CeilingNext, Edit, Send, ceilingVars

\* Ceilings and parameters stay in their spaces (ParameterLimits).
THEOREM CeilingTypeCorrect == CeilingSpec => []CeilingTypeOK
<1>1. CeilingInit => CeilingTypeOK
  BY CeilingAssumption DEF CeilingInit, CeilingTypeOK
<1> QED BY <1>1, TypeStep, PTL DEF CeilingSpec

-----------------------------------------------------------------------------
(* Numbers. *)

LEMMA UnitsOrder ==
    ASSUME NEW a, NEW b, DecimalShape(a), DecimalShape(b)
    PROVE  /\ Units(a) \in Int /\ Units(b) \in Int
           /\ Compare(a, b) = 0 <=> Units(a) = Units(b)
           /\ Compare(a, b) <= 0 <=> Units(a) <= Units(b)
           /\ Compare(a, b) >= 0 <=> Units(b) <= Units(a)
<1> DEFINE low == -Precision
<1>1. /\ a \in Literals /\ b \in Literals /\ Precision \in Nat
      /\ Scale(a) + Precision \in Nat /\ Scale(b) + Precision \in Nat
  BY CeilingAssumption DEF DecimalShape
<1>2. Scale(a) \in Int /\ Scale(b) \in Int
  BY <1>1, MantissaTyped
<1>3. /\ low \in Int /\ low <= Scale(a) /\ low <= Scale(b)
      /\ Scale(a) - low = Scale(a) + Precision
      /\ Scale(b) - low = Scale(b) + Precision
  BY <1>1, <1>2
<1> HIDE DEF low
<1> QED BY <1>1, <1>3, CompareInUnits DEF Units

LEMMA UnitsWhole ==
    ASSUME NEW n, DecimalShape(n)
    PROVE  IsInteger(n) <=> Units(n) % PowerOfTen[Precision] = 0
BY CeilingAssumption, IntegerInUnits DEF DecimalShape, Units

-----------------------------------------------------------------------------
(* Values. *)

LEMMA Constructors ==
    /\ \A kind, text : Text(kind, text).items = <<>>
    /\ \A n : Number(n).items = <<>> /\ Number(n).text = ""
    /\ \A kind, items : Structure(kind, items).text = ""
BY DEF Text, Number, Structure

LEMMA PlainFields ==
    ASSUME NEW v, PlainShape(v)
    PROVE  /\ v.kind \notin Structured /\ v.items = <<>> /\ v.kind # "integer"
           /\ v.kind = "number" => v.text = "" /\ DecimalShape(v.number)
<1>1. CASE /\ v.kind \in {"garbage", "null", "string", "boolean"}
           /\ v = Text(v.kind, v.text)
  <2>1. v.items = <<>>
    BY <1>1, Constructors, Zenon
  <2> QED BY <1>1, <2>1 DEF Structured
<1>2. CASE v.kind = "number" /\ v = Number(v.number) /\ DecimalShape(v.number)
  <2>1. v.items = <<>> /\ v.text = ""
    BY <1>2, Constructors, Zenon
  <2> QED BY <1>2, <2>1 DEF Structured
<1> QED BY <1>1, <1>2 DEF PlainShape

LEMMA ItemsFields ==
    ASSUME NEW v, ItemsShape(v)
    PROVE  /\ v.kind \in Structured /\ v.kind # "number" /\ v.text = ""
           /\ v.kind # "integer"
           /\ Len(v.items) \in Nat /\ DOMAIN v.items = 1..Len(v.items)
<1>1. v.kind \in Structured /\ v.text = ""
  BY Constructors, Zenon DEF ItemsShape
<1>2. v.items \in Seq({v.items[i] : i \in DOMAIN v.items})
  BY DEF ItemsShape
<1>3. Len(v.items) \in Nat /\ DOMAIN v.items = 1..Len(v.items)
  BY <1>2
<1> QED BY <1>1, <1>3 DEF Structured

LEMMA PlainEqualMeaning ==
    ASSUME NEW a, NEW b, PlainShape(a), PlainShape(b)
    PROVE  PlainEqual(a, b) <=> PlainMeaning(a) = PlainMeaning(b)
<1>1. CASE a.kind = "number" /\ b.kind = "number"
  BY <1>1, PlainFields, UnitsOrder DEF PlainEqual, PlainMeaning
<1>2. CASE a.kind # "number" \/ b.kind # "number"
  BY <1>2 DEF PlainEqual, PlainMeaning
<1> QED BY <1>1, <1>2

\* Where no key repeats, the decoded object has each item at its key.
UniqueKeys(v) == \A i, j \in DOMAIN v.items : v.items[i].key = v.items[j].key => i = j

LEMMA MemberOfKey ==
    ASSUME NEW v, ItemsShape(v), UniqueKeys(v), NEW i \in DOMAIN v.items
    PROVE  Member(v, v.items[i].key) = v.items[i].value
<1> DEFINE key == v.items[i].key
           IsLast(k) == /\ v.items[k].key = key
                        /\ \A j \in DOMAIN v.items : v.items[j].key = key => j <= k
           last == CHOOSE k \in DOMAIN v.items : IsLast(k)
<1>1. DOMAIN v.items = 1..Len(v.items) /\ Len(v.items) \in Nat
  BY ItemsFields
<1>2. IsLast(i)
  BY <1>1 DEF UniqueKeys
<1>3. last \in DOMAIN v.items /\ IsLast(last)
  <2> HIDE DEF IsLast
  <2> QED BY <1>2
<1>4. last = i
  <2> HIDE DEF last
  <2> QED BY <1>3 DEF UniqueKeys
<1>5. Member(v, key) = v.items[last].value
  BY DEF Member
<1> QED BY <1>4, <1>5

Place(v, i) ==
    <<v.items[i].key, IF v.kind = "array" THEN i ELSE 0, PlainMeaning(v.items[i].value)>>

Places(v) == {Place(v, i) : i \in DOMAIN v.items}

LEMMA MeaningIs ==
    ASSUME NEW a, NEW b
    PROVE  Meaning(a) = Meaning(b)
             <=> PlainMeaning(a) = PlainMeaning(b) /\ Places(a) = Places(b)
BY DEF Meaning, Places, Place

LEMMA ArrayEqualMeaning ==
    ASSUME NEW a, NEW b, ItemsShape(a), ItemsShape(b),
           \A i \in DOMAIN a.items : PlainShape(a.items[i].value),
           \A i \in DOMAIN b.items : PlainShape(b.items[i].value),
           a.kind = "array", b.kind = "array"
    PROVE  ParameterEqual(a, b) <=> Places(a) = Places(b)
<1>1. /\ Len(a.items) \in Nat /\ DOMAIN a.items = 1..Len(a.items)
      /\ Len(b.items) \in Nat /\ DOMAIN b.items = 1..Len(b.items)
  BY ItemsFields
<1>2. ASSUME NEW v, ItemsShape(v), v.kind = "array", NEW i \in DOMAIN v.items
      PROVE  Place(v, i) = <<"", i, PlainMeaning(v.items[i].value)>>
  BY <1>2 DEF ItemsShape, Place
<1>3. ASSUME ParameterEqual(a, b) PROVE Places(a) = Places(b)
  <2>1. DOMAIN a.items = DOMAIN b.items
    BY <1>1, <1>3 DEF ParameterEqual
  <2>2. ASSUME NEW i \in DOMAIN a.items
        PROVE  PlainMeaning(a.items[i].value) = PlainMeaning(b.items[i].value)
    <3>1. PlainEqual(a.items[i].value, b.items[i].value)
      BY <1>3 DEF ParameterEqual, Structured
    <3> QED BY <2>1, <3>1, PlainEqualMeaning
  <2>3. \A i \in DOMAIN a.items : Place(a, i) = Place(b, i)
    BY <1>2, <2>1, <2>2
  <2> QED BY <2>1, <2>3 DEF Places
<1>4. ASSUME Places(a) = Places(b) PROVE ParameterEqual(a, b)
  <2>1. ASSUME NEW v, NEW w, ItemsShape(v), ItemsShape(w), v.kind = "array",
               w.kind = "array", Places(v) = Places(w), NEW i \in DOMAIN v.items
        PROVE  /\ i \in DOMAIN w.items
               /\ PlainMeaning(v.items[i].value) = PlainMeaning(w.items[i].value)
    <3>1. PICK j \in DOMAIN w.items : Place(v, i) = Place(w, j)
      BY <2>1 DEF Places
    <3>2. <<"", i, PlainMeaning(v.items[i].value)>> = <<"", j, PlainMeaning(w.items[j].value)>>
      BY <1>2, <2>1, <3>1
    <3>3. i = j
      BY <3>2
    <3> QED BY <3>2, <3>3
  <2>2. DOMAIN a.items = DOMAIN b.items
    BY <1>4, <2>1
  <2>3. Len(a.items) = Len(b.items)
    BY <1>1, <2>2
  <2>4. \A i \in DOMAIN a.items : PlainEqual(a.items[i].value, b.items[i].value)
    BY <1>4, <2>1, <2>2, PlainEqualMeaning
  <2> QED BY <2>3, <2>4 DEF ParameterEqual
<1> QED BY <1>3, <1>4

\* An object has as many keys as items.
LEMMA CountKeys ==
    ASSUME NEW v, ItemsShape(v), UniqueKeys(v)
    PROVE  IsFiniteSet(Keys(v)) /\ Cardinality(Keys(v)) = Len(v.items)
<1> DEFINE f == [i \in 1..Len(v.items) |-> v.items[i].key]
<1>1. DOMAIN v.items = 1..Len(v.items) /\ Len(v.items) \in Nat
  BY ItemsFields
<1>2. f \in Bijection(1..Len(v.items), Keys(v))
  BY <1>1 DEF Bijection, Injection, Surjection, IsInjective, Keys, UniqueKeys
<1>3. ExistsBijection(1..Len(v.items), Keys(v))
  BY <1>2 DEF ExistsBijection
<1> QED BY <1>1, <1>3, FS_CountingElements, FS_NatBijection

LEMMA ObjectEqualMeaning ==
    ASSUME NEW a, NEW b, ItemsShape(a), ItemsShape(b),
           \A i \in DOMAIN a.items : PlainShape(a.items[i].value),
           \A i \in DOMAIN b.items : PlainShape(b.items[i].value),
           a.kind = "object", b.kind = "object", UniqueKeys(a), UniqueKeys(b)
    PROVE  ParameterEqual(a, b) <=> Places(a) = Places(b)
<1>1. ASSUME NEW v, v.kind = "object", NEW i \in DOMAIN v.items
      PROVE  Place(v, i) = <<v.items[i].key, 0, PlainMeaning(v.items[i].value)>>
  BY <1>1 DEF Place
<1>2. ASSUME ParameterEqual(a, b) PROVE Places(a) = Places(b)
  <2>1. /\ Keys(a) = Keys(b)
        /\ \A key \in Keys(a) : PlainEqual(Member(a, key), Member(b, key))
    BY <1>2 DEF ParameterEqual, Structured
  <2>2. ASSUME NEW i \in DOMAIN a.items, NEW j \in DOMAIN b.items,
               a.items[i].key = b.items[j].key
        PROVE  Place(a, i) = Place(b, j)
    <3>1. /\ Member(a, a.items[i].key) = a.items[i].value
          /\ Member(b, b.items[j].key) = b.items[j].value
      BY MemberOfKey
    <3>2. a.items[i].key \in Keys(a)
      BY DEF Keys
    <3>3. PlainEqual(a.items[i].value, b.items[j].value)
      BY <2>1, <2>2, <3>1, <3>2
    <3>4. PlainMeaning(a.items[i].value) = PlainMeaning(b.items[j].value)
      BY <3>3, PlainEqualMeaning
    <3> QED BY <1>1, <2>2, <3>4
  <2>3. \A i \in DOMAIN a.items : \E j \in DOMAIN b.items : a.items[i].key = b.items[j].key
    BY <2>1 DEF Keys
  <2>4. \A j \in DOMAIN b.items : \E i \in DOMAIN a.items : a.items[i].key = b.items[j].key
    BY <2>1 DEF Keys
  <2> QED BY <2>2, <2>3, <2>4 DEF Places
<1>3. ASSUME Places(a) = Places(b) PROVE ParameterEqual(a, b)
  <2>1. ASSUME NEW v, NEW w, v.kind = "object", w.kind = "object",
               Places(v) = Places(w), NEW i \in DOMAIN v.items
        PROVE  \E j \in DOMAIN w.items :
                   /\ v.items[i].key = w.items[j].key
                   /\ PlainMeaning(v.items[i].value) = PlainMeaning(w.items[j].value)
    <3>1. PICK j \in DOMAIN w.items : Place(v, i) = Place(w, j)
      BY <2>1 DEF Places
    <3> QED BY <1>1, <2>1, <3>1
  <2>2. Keys(a) = Keys(b)
    <3>1. \A i \in DOMAIN a.items : \E j \in DOMAIN b.items : a.items[i].key = b.items[j].key
      BY <1>3, <2>1
    <3>2. \A j \in DOMAIN b.items : \E i \in DOMAIN a.items : b.items[j].key = a.items[i].key
      BY <1>3, <2>1
    <3> QED BY <3>1, <3>2 DEF Keys
  <2>3. Len(a.items) = Len(b.items)
    BY <2>2, CountKeys
  <2>4. ASSUME NEW key \in Keys(a) PROVE PlainEqual(Member(a, key), Member(b, key))
    <3>1. PICK i \in DOMAIN a.items : key = a.items[i].key
      BY DEF Keys
    <3>2. PICK j \in DOMAIN b.items :
              /\ a.items[i].key = b.items[j].key
              /\ PlainMeaning(a.items[i].value) = PlainMeaning(b.items[j].value)
      BY <1>3, <2>1
    <3>3. Member(a, key) = a.items[i].value /\ Member(b, key) = b.items[j].value
      BY <3>1, <3>2, MemberOfKey
    <3> QED BY <3>2, <3>3, PlainEqualMeaning
  <2> QED BY <2>2, <2>3, <2>4 DEF ParameterEqual
<1> QED BY <1>2, <1>3

\* parameterEqual is the equality of meaning.
LEMMA EqualMeaning ==
    ASSUME NEW a, NEW b, ValueShape(a), ValueShape(b),
           a.kind = "object" => UniqueKeys(a), b.kind = "object" => UniqueKeys(b)
    PROVE  ParameterEqual(a, b) <=> Meaning(a) = Meaning(b)
<1>1. CASE a.kind # b.kind
  BY <1>1, MeaningIs DEF ParameterEqual, PlainMeaning
<1>2. CASE PlainShape(a) /\ a.kind = b.kind
  <2>1. a.kind \notin Structured /\ PlainShape(b)
    BY <1>2, PlainFields, ItemsFields DEF ValueShape
  <2>2. a.items = <<>> /\ b.items = <<>>
    BY <1>2, <2>1, PlainFields
  <2>3. ParameterEqual(a, b) <=> PlainEqual(a, b)
    BY <2>1, <2>2 DEF ParameterEqual, PlainEqual, Structured
  <2>4. Places(a) = Places(b)
    BY <2>2 DEF Places
  <2> QED BY <1>2, <2>1, <2>3, <2>4, PlainEqualMeaning, MeaningIs
<1>3. CASE ItemsShape(a) /\ a.kind = b.kind
  <2>1. ItemsShape(b)
    BY <1>3, PlainFields, ItemsFields DEF ValueShape
  <2>2. /\ \A i \in DOMAIN a.items : PlainShape(a.items[i].value)
        /\ \A i \in DOMAIN b.items : PlainShape(b.items[i].value)
    BY <1>3, <2>1, PlainFields, ItemsFields DEF ValueShape
  <2>3. PlainMeaning(a) = PlainMeaning(b)
    BY <1>3, <2>1, ItemsFields DEF PlainMeaning
  <2>4. ParameterEqual(a, b) <=> Places(a) = Places(b)
    <3>1. a.kind \in {"array", "object"}
      BY <1>3, ItemsFields DEF Structured
    <3>2. CASE a.kind = "array"
      BY <1>3, <2>1, <2>2, <3>2, ArrayEqualMeaning
    <3>3. CASE a.kind = "object"
      BY <1>3, <2>1, <2>2, <3>3, ObjectEqualMeaning
    <3> QED BY <3>1, <3>2, <3>3
  <2> QED BY <2>3, <2>4, MeaningIs
<1> QED BY <1>1, <1>2, <1>3 DEF ValueShape

-----------------------------------------------------------------------------
(* Ceilings. *)

\* A value whose repeated keys were looked for.
Checked(v) == ValueShape(v) /\ (v.kind = "object" => UniqueKeys(v))

LEMMA CheckedAllowed ==
    ASSUME NEW limit, LimitShape(limit), ValidAllowed(limit), limit.allowed # Unset,
           NEW i \in DOMAIN limit.allowed
    PROVE  Checked(limit.allowed[i])
<1>1. Reads(limit.allowed[i]) /\ ValueShape(limit.allowed[i])
  BY DEF LimitShape, ValidAllowed, Decodes
<1> QED BY <1>1 DEF Checked, UniqueKeys, Reads

\* What the parameters of a request hold, once decodeParameterJSON has let them pass.
LEMMA DecodedObject ==
    ASSUME NEW v, ParametersShape(v), Decodes(v), v.kind = "object"
    PROVE  /\ ItemsShape(v) /\ UniqueKeys(v)
           /\ \A i \in DOMAIN v.items : Checked(v.items[i].value)
<1>1. /\ ItemsShape(v)
      /\ \A i \in DOMAIN v.items : ValueShape(v.items[i].value)
  BY PlainFields DEF ParametersShape, Structured
<1>2. UniqueKeys(v) /\ \A i \in DOMAIN v.items : Reads(v.items[i].value)
  BY DEF Decodes, Reads, UniqueKeys
<1> QED BY <1>1, <1>2 DEF Checked, Reads, UniqueKeys

LEMMA AllowedMeaning ==
    ASSUME NEW limit, LimitShape(limit), ValidAllowed(limit), limit.allowed # Unset,
           NEW v, Checked(v)
    PROVE  (\E i \in DOMAIN limit.allowed : ParameterEqual(v, limit.allowed[i]))
             <=> \E i \in DOMAIN limit.allowed : Meaning(limit.allowed[i]) = Meaning(v)
<1>1. ASSUME NEW i \in DOMAIN limit.allowed
      PROVE  ParameterEqual(v, limit.allowed[i])
               <=> Meaning(limit.allowed[i]) = Meaning(v)
  <2>1. Checked(limit.allowed[i])
    BY CheckedAllowed
  <2>2. ParameterEqual(v, limit.allowed[i]) <=> Meaning(v) = Meaning(limit.allowed[i])
    BY <2>1, EqualMeaning DEF Checked
  <2> QED BY <2>2
<1> QED BY <1>1

\* What the two bounds say of a number, in units.
InUnits(limit, v) ==
    /\ limit.minimum # Unset => Units(limit.minimum) <= Units(v.number)
    /\ limit.maximum # Unset => Units(v.number) <= Units(limit.maximum)

LEMMA RangeInUnits ==
    ASSUME NEW limit, LimitShape(limit), NEW v, v.kind = "number", DecimalShape(v.number)
    PROVE  InRange(limit, v) <=> InUnits(limit, v)
<1>1. limit.minimum # Unset => DecimalShape(limit.minimum)
  BY DEF LimitShape
<1>2. limit.maximum # Unset => DecimalShape(limit.maximum)
  BY DEF LimitShape
<1>3. limit.minimum # Unset =>
        (Compare(v.number, limit.minimum) >= 0 <=> Units(limit.minimum) <= Units(v.number))
  BY <1>1, UnitsOrder
<1>4. limit.maximum # Unset =>
        (Compare(v.number, limit.maximum) <= 0 <=> Units(v.number) <= Units(limit.maximum))
  BY <1>2, UnitsOrder
<1> QED BY <1>3, <1>4 DEF InRange, InUnits

LEMMA NumberShape ==
    ASSUME NEW v, ValueShape(v), v.kind = "number"
    PROVE  DecimalShape(v.number)
BY PlainFields, ItemsFields DEF ValueShape

LEMMA NoIntegerKind ==
    ASSUME NEW v, ValueShape(v) PROVE v.kind # "integer"
BY PlainFields, ItemsFields DEF ValueShape

LEMMA AdmittedIsBelow ==
    ASSUME NEW limit, LimitShape(limit), ValidAllowed(limit), NEW v, Checked(v),
           Admits(limit, v)
    PROVE  Below(limit, v)
<1>1. ValueShape(v) /\ v.kind # "integer"
  BY NoIntegerKind DEF Checked
<1>2. ASSUME v.kind = "number"
      PROVE  /\ limit.type = "integer" => Units(v.number) % PowerOfTen[Precision] = 0
             /\ InUnits(limit, v)
  <2>1. DecimalShape(v.number)
    BY <1>1, <1>2, NumberShape
  <2>2. limit.type = "integer" => IsInteger(v.number)
    BY <1>1 DEF Admits, HasType
  <2>3. InRange(limit, v)
    BY DEF Admits
  <2> QED BY <1>2, <2>1, <2>2, <2>3, UnitsWhole, RangeInUnits
<1>3. ASSUME limit.allowed # Unset
      PROVE  \E i \in DOMAIN limit.allowed : Meaning(limit.allowed[i]) = Meaning(v)
  <2>1. \E i \in DOMAIN limit.allowed : ParameterEqual(v, limit.allowed[i])
    BY <1>3 DEF ValidAllowed, Admits
  <2> QED BY <1>3, <2>1, AllowedMeaning
<1> QED BY <1>2, <1>3 DEF Below, InUnits

\* Whichever of several equal keys a provider's decoder keeps, what it acts on lies
\* below every limit and has every required parameter (ParameterLimits.Matches).
THEOREM ReadersStayBelow == CeilingSpec => []EveryReaderBelow
<1>1. CeilingTypeOK => EveryReaderBelow
  <2> SUFFICES ASSUME CeilingTypeOK, Matches(ceiling, raw)
               PROVE  /\ \A i \in DOMAIN raw.items :
                           Below(ceiling[raw.items[i].key], raw.items[i].value)
                      /\ \A f \in DOMAIN ceiling : ceiling[f].optional \/ f \in Keys(raw)
    BY DEF EveryReaderBelow
  <2>1. /\ ParametersShape(raw)
        /\ \A f \in DOMAIN ceiling : LimitShape(ceiling[f])
    BY CeilingAssumption DEF CeilingTypeOK, Matches, ValidCeiling
  <2>2. /\ ItemsShape(raw) /\ UniqueKeys(raw)
        /\ \A i \in DOMAIN raw.items : Checked(raw.items[i].value)
    BY <2>1, DecodedObject DEF Matches
  <2>3. ASSUME NEW i \in DOMAIN raw.items
        PROVE  Below(ceiling[raw.items[i].key], raw.items[i].value)
    <3> DEFINE f == raw.items[i].key
    <3>1. f \in Keys(raw) /\ f \in DOMAIN ceiling
      BY DEF Keys, Matches
    <3>2. Admits(ceiling[f], Member(raw, f)) /\ ValidAllowed(ceiling[f])
      BY <3>1 DEF Matches, ValidCeiling
    <3>3. Member(raw, f) = raw.items[i].value
      BY <2>2, MemberOfKey
    <3> QED BY <2>1, <2>2, <3>1, <3>2, <3>3, AdmittedIsBelow
  <2>4. \A f \in DOMAIN ceiling : ceiling[f].optional \/ f \in Keys(raw)
    BY DEF Matches
  <2> QED BY <2>3, <2>4
<1> QED BY <1>1, CeilingTypeCorrect, PTL

-----------------------------------------------------------------------------
(* Spellings. *)

LEMMA AdmitsByMeaning ==
    ASSUME NEW limit, LimitShape(limit), ValidAllowed(limit), NEW v, Checked(v),
           NEW w, Checked(w), Meaning(v) = Meaning(w), Admits(limit, v)
    PROVE  Admits(limit, w)
<1>1. /\ ValueShape(v) /\ ValueShape(w)
      /\ v.kind = w.kind
      /\ v.kind = "number" => Units(v.number) = Units(w.number)
  BY MeaningIs DEF Checked, PlainMeaning
<1>2. v.kind = "number" => DecimalShape(v.number) /\ DecimalShape(w.number)
  BY <1>1, NumberShape
<1>3. HasType(w, limit.type)
  <2>1. v.kind = "number" => (IsInteger(v.number) <=> IsInteger(w.number))
    BY <1>1, <1>2, UnitsWhole
  <2> QED BY <1>1, <2>1 DEF Admits, HasType
<1>4. InRange(limit, w)
  <2>1. CASE v.kind = "number"
    <3>1. InUnits(limit, v)
      BY <1>2, <2>1, RangeInUnits DEF Admits
    <3>2. InUnits(limit, w)
      BY <1>1, <2>1, <3>1 DEF InUnits
    <3> QED BY <1>1, <1>2, <2>1, <3>2, RangeInUnits
  <2>2. CASE v.kind # "number"
    BY <1>1, <2>2 DEF Admits, InRange
  <2> QED BY <2>1, <2>2
<1>5. ASSUME limit.allowed \notin {Unset, <<>>}
      PROVE  \E i \in DOMAIN limit.allowed : ParameterEqual(w, limit.allowed[i])
  <2>1. \E i \in DOMAIN limit.allowed : ParameterEqual(v, limit.allowed[i])
    BY <1>5 DEF Admits
  <2>2. \E i \in DOMAIN limit.allowed : Meaning(limit.allowed[i]) = Meaning(v)
    BY <1>5, <2>1, AllowedMeaning
  <2> QED BY <1>5, <2>2, AllowedMeaning
<1> QED BY <1>3, <1>4, <1>5 DEF Admits

LEMMA MatchesByMeaning ==
    ASSUME NEW limits, \A f \in DOMAIN limits : LimitShape(limits[f]),
           NEW v, ParametersShape(v), NEW w, ParametersShape(w), Decodes(w),
           ObjectMeaning(v) = ObjectMeaning(w), Matches(limits, v)
    PROVE  Matches(limits, w)
<1>1. /\ ValidCeiling(limits) /\ Decodes(v) /\ v.kind = "object"
      /\ Keys(v) \subseteq DOMAIN limits
  BY DEF Matches
<1>2. w.kind = "object"
  BY <1>1 DEF ObjectMeaning
<1>3. /\ ItemsShape(v) /\ UniqueKeys(v)
      /\ \A i \in DOMAIN v.items : Checked(v.items[i].value)
      /\ ItemsShape(w) /\ UniqueKeys(w)
      /\ \A i \in DOMAIN w.items : Checked(w.items[i].value)
  BY <1>1, <1>2, DecodedObject
<1> DEFINE Entry(x, i) == <<x.items[i].key, Meaning(x.items[i].value)>>
<1>4. {Entry(v, i) : i \in DOMAIN v.items} = {Entry(w, i) : i \in DOMAIN w.items}
  BY DEF ObjectMeaning
<1>5. ASSUME NEW j \in DOMAIN w.items
      PROVE  \E i \in DOMAIN v.items :
                 /\ v.items[i].key = w.items[j].key
                 /\ Meaning(v.items[i].value) = Meaning(w.items[j].value)
  <2>1. PICK i \in DOMAIN v.items : Entry(v, i) = Entry(w, j)
    BY <1>4
  <2> QED BY <2>1
<1>6. \A i \in DOMAIN v.items : \E j \in DOMAIN w.items : v.items[i].key = w.items[j].key
  <2> TAKE i \in DOMAIN v.items
  <2>1. PICK j \in DOMAIN w.items : Entry(v, i) = Entry(w, j)
    BY <1>4
  <2> QED BY <2>1
<1>7. Keys(v) = Keys(w)
  BY <1>5, <1>6 DEF Keys
<1>8. ASSUME NEW f \in DOMAIN limits, f \in Keys(w)
      PROVE  Admits(limits[f], Member(w, f))
  <2>1. PICK j \in DOMAIN w.items : f = w.items[j].key
    BY <1>8 DEF Keys
  <2>2. PICK i \in DOMAIN v.items :
            /\ v.items[i].key = w.items[j].key
            /\ Meaning(v.items[i].value) = Meaning(w.items[j].value)
    BY <1>5
  <2>3. Member(v, f) = v.items[i].value /\ Member(w, f) = w.items[j].value
    BY <1>3, <2>1, <2>2, MemberOfKey
  <2>4. Admits(limits[f], Member(v, f)) /\ ValidAllowed(limits[f])
    BY <1>1, <1>7, <1>8 DEF Matches, ValidCeiling
  <2> QED BY <1>3, <2>2, <2>3, <2>4, AdmitsByMeaning
<1>9. \A f \in DOMAIN limits : f \notin Keys(w) => limits[f].optional
  BY <1>7 DEF Matches
<1> QED BY <1>1, <1>2, <1>7, <1>8, <1>9 DEF Matches

\* The order of keys and the spelling of numbers do not decide (parameterEqual,
\* compareNumber).
THEOREM SpellingIsStable == CeilingSpec => SpellingStable
<1> DEFINE Stable ==
      (/\ ceiling' = ceiling /\ Decodes(raw) /\ Decodes(raw')
       /\ ObjectMeaning(raw) = ObjectMeaning(raw'))
      => (Matches(ceiling, raw) <=> Matches(ceiling, raw'))
<1>1. CeilingTypeOK /\ CeilingTypeOK' => Stable
  <2> SUFFICES ASSUME CeilingTypeOK, CeilingTypeOK', ceiling' = ceiling, Decodes(raw),
                      Decodes(raw'), ObjectMeaning(raw) = ObjectMeaning(raw')
               PROVE  Matches(ceiling, raw) <=> Matches(ceiling, raw')
    OBVIOUS
  <2>1. ParametersShape(raw) /\ ParametersShape(raw')
    BY CeilingAssumption DEF CeilingTypeOK
  <2>2. ceiling # Unset => \A f \in DOMAIN ceiling : LimitShape(ceiling[f])
    BY CeilingAssumption DEF CeilingTypeOK
  <2>3. CASE ceiling = Unset
    BY <2>3 DEF Matches, ValidCeiling
  <2>4. CASE ceiling # Unset
    BY <2>1, <2>2, <2>4, MatchesByMeaning
  <2> QED BY <2>3, <2>4
<1>2. CeilingTypeOK /\ [CeilingNext]_ceilingVars => [Stable]_ceilingVars
  BY <1>1, TypeStep
<1>3. CeilingSpec => [][Stable]_ceilingVars
  <2> HIDE DEF Stable
  <2> QED BY <1>2, CeilingTypeCorrect, PTL DEF CeilingSpec
<1> QED BY <1>3 DEF SpellingStable

-----------------------------------------------------------------------------
(* Narrower ceilings. *)

LEMMA AdmitsNarrower ==
    ASSUME NEW n, LimitShape(n), ValidAllowed(n), NEW w, LimitShape(w), ValidAllowed(w),
           NarrowerLimit(n, w), NEW v, Checked(v), Admits(n, v)
    PROVE  Admits(w, v)
<1>1. HasType(v, w.type)
  <2>1. v.kind # "integer"
    BY NoIntegerKind DEF Checked
  <2> QED BY <2>1 DEF Admits, HasType, NarrowerLimit
<1>2. InRange(w, v)
  <2>1. CASE v.kind # "number"
    BY <2>1 DEF Admits, InRange, NarrowerLimit
  <2>2. CASE v.kind = "number"
    <3>1. DecimalShape(v.number)
      BY <2>2, NumberShape DEF Checked
    <3>2. InUnits(n, v)
      BY <2>2, <3>1, RangeInUnits DEF Admits
    <3>3. ASSUME w.minimum # Unset PROVE Units(w.minimum) <= Units(v.number)
      <4>1. DecimalShape(w.minimum) /\ DecimalShape(n.minimum) /\ n.minimum # Unset
        BY <3>3 DEF LimitShape, NarrowerLimit
      <4>2. Units(w.minimum) <= Units(n.minimum) /\ Units(n.minimum) <= Units(v.number)
        BY <3>2, <3>3, <4>1 DEF InUnits, NarrowerLimit
      <4>3. Units(w.minimum) \in Int /\ Units(n.minimum) \in Int /\ Units(v.number) \in Int
        BY <3>1, <4>1, UnitsOrder
      <4> QED BY <4>2, <4>3
    <3>4. ASSUME w.maximum # Unset PROVE Units(v.number) <= Units(w.maximum)
      <4>1. DecimalShape(w.maximum) /\ DecimalShape(n.maximum) /\ n.maximum # Unset
        BY <3>4 DEF LimitShape, NarrowerLimit
      <4>2. Units(v.number) <= Units(n.maximum) /\ Units(n.maximum) <= Units(w.maximum)
        BY <3>2, <3>4, <4>1 DEF InUnits, NarrowerLimit
      <4>3. Units(w.maximum) \in Int /\ Units(n.maximum) \in Int /\ Units(v.number) \in Int
        BY <3>1, <4>1, UnitsOrder
      <4> QED BY <4>2, <4>3
    <3>5. InUnits(w, v)
      BY <3>3, <3>4 DEF InUnits
    <3> QED BY <2>2, <3>1, <3>5, RangeInUnits
  <2> QED BY <2>1, <2>2
<1>3. ASSUME w.allowed \notin {Unset, <<>>}
      PROVE  \E j \in DOMAIN w.allowed : ParameterEqual(v, w.allowed[j])
  <2>1. n.allowed \notin {Unset, <<>>}
    BY <1>3 DEF NarrowerLimit, ValidAllowed
  <2>2. \E i \in DOMAIN n.allowed : ParameterEqual(v, n.allowed[i])
    BY <2>1 DEF Admits
  <2>3. PICK i \in DOMAIN n.allowed : Meaning(n.allowed[i]) = Meaning(v)
    BY <2>1, <2>2, AllowedMeaning
  <2>4. PICK j \in DOMAIN w.allowed : Meaning(n.allowed[i]) = Meaning(w.allowed[j])
    BY <1>3 DEF NarrowerLimit
  <2>5. Meaning(w.allowed[j]) = Meaning(v)
    BY <2>3, <2>4
  <2> QED BY <1>3, <2>5, AllowedMeaning
<1> QED BY <1>1, <1>2, <1>3 DEF Admits

LEMMA MatchesNarrower ==
    ASSUME NEW n, \A f \in DOMAIN n : LimitShape(n[f]),
           NEW w, \A f \in DOMAIN w : LimitShape(w[f]), ValidCeiling(w), Narrower(n, w),
           NEW v, ParametersShape(v), Matches(n, v)
    PROVE  Matches(w, v)
<1>1. /\ ValidCeiling(n) /\ Decodes(v) /\ v.kind = "object"
      /\ Keys(v) \subseteq DOMAIN n /\ DOMAIN n \subseteq DOMAIN w
  BY DEF Matches, Narrower
<1>2. /\ ItemsShape(v) /\ UniqueKeys(v)
      /\ \A i \in DOMAIN v.items : Checked(v.items[i].value)
  BY <1>1, DecodedObject
<1>3. ASSUME NEW f \in DOMAIN w, f \in Keys(v)
      PROVE  Admits(w[f], Member(v, f))
  <2>1. f \in DOMAIN n /\ NarrowerLimit(n[f], w[f])
    BY <1>1, <1>3 DEF Narrower
  <2>2. Admits(n[f], Member(v, f)) /\ ValidAllowed(n[f]) /\ ValidAllowed(w[f])
    BY <1>3, <2>1 DEF Matches, ValidCeiling
  <2>3. Checked(Member(v, f))
    <3>1. PICK i \in DOMAIN v.items : f = v.items[i].key
      BY <1>3 DEF Keys
    <3>2. Member(v, f) = v.items[i].value
      BY <1>2, <3>1, MemberOfKey
    <3> QED BY <1>2, <3>2
  <2> QED BY <2>1, <2>2, <2>3, AdmitsNarrower
<1>4. ASSUME NEW f \in DOMAIN w, f \notin Keys(v)
      PROVE  w[f].optional
  <2>1. CASE f \in DOMAIN n
    <3>1. n[f].optional /\ NarrowerLimit(n[f], w[f])
      BY <1>4, <2>1 DEF Matches, Narrower
    <3> QED BY <3>1 DEF NarrowerLimit
  <2>2. CASE f \notin DOMAIN n
    BY <2>2 DEF Narrower
  <2> QED BY <2>1, <2>2
<1> QED BY <1>1, <1>3, <1>4 DEF Matches

\* Tightening a ceiling lets nothing through that was refused (ParameterLimits.Validate
\* and Matches).
THEOREM NarrowingIsSound == CeilingSpec => NarrowingHolds
<1> DEFINE Holds ==
      (/\ raw' = raw /\ ValidCeiling(ceiling) /\ ceiling' # Unset
       /\ Narrower(ceiling', ceiling))
      => (Matches(ceiling', raw) => Matches(ceiling, raw))
<1>1. CeilingTypeOK /\ CeilingTypeOK' => Holds
  <2> SUFFICES ASSUME CeilingTypeOK, CeilingTypeOK', raw' = raw, ValidCeiling(ceiling),
                      ceiling' # Unset, Narrower(ceiling', ceiling), Matches(ceiling', raw)
               PROVE  Matches(ceiling, raw)
    OBVIOUS
  <2>1. ParametersShape(raw) /\ ceiling # Unset
    BY CeilingAssumption DEF CeilingTypeOK, ValidCeiling
  <2>2. /\ \A f \in DOMAIN ceiling : LimitShape(ceiling[f])
        /\ \A f \in DOMAIN ceiling' : LimitShape(ceiling'[f])
    BY <2>1, CeilingAssumption DEF CeilingTypeOK
  <2> QED BY <2>1, <2>2, MatchesNarrower
<1>2. CeilingTypeOK /\ [CeilingNext]_ceilingVars => [Holds]_ceilingVars
  BY <1>1, TypeStep
<1>3. CeilingSpec => [][Holds]_ceilingVars
  <2> HIDE DEF Holds
  <2> QED BY <1>2, CeilingTypeCorrect, PTL DEF CeilingSpec
<1> QED BY <1>3 DEF NarrowingHolds
===============================================================================
