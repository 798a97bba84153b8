------------------------------ MODULE ExactNumbers ------------------------------
(***************************************************************************)
(* Numbers as JSON spells them, and what the code does with a spelling:    *)
(* the exact comparison of parameter ceilings (compareNumber,              *)
(* parameterType and readParameterValue of src/constraints.go) and the     *)
(* canonical spelling of request digests (canonicalDiscoveryNumbers of     *)
(* src/discovery.go).                                                      *)
(*                                                                         *)
(* A literal is its sign, its digits before and after the point, how many  *)
(* of them come after it, and its exponent: -12.50e3 is                    *)
(* [neg |-> TRUE, digits |-> <<1, 2, 5, 0>>, frac |-> 2, exp |-> 3].       *)
(***************************************************************************)
EXTENDS Integers, Sequences

CONSTANT MaxExponent  \* largest exponent readParameterValue accepts (128)

Literal(neg, digits, frac, exp) ==
    [neg |-> neg, digits |-> digits, frac |-> frac, exp |-> exp]

\* JSON's numbers.
Literals == [neg : BOOLEAN, digits : Seq(0..9), frac : Nat, exp : Int]

\* The bounds of readParameterValue on one number.
Readable(n) == -MaxExponent <= n.exp /\ n.exp <= MaxExponent

\* 10^n, as a function that theorems can be proved about.
PowerOfTen[n \in Nat] == IF n = 0 THEN 1 ELSE 10 * PowerOfTen[n - 1]

\* The numbers that the first digits spell, by how many they are.
Leading(digits) ==
    LET value[i \in 0..Len(digits)] ==
            IF i = 0 THEN 0 ELSE 10 * value[i - 1] + digits[i]
    IN  value

Magnitude(n) == Leading(n.digits)[Len(n.digits)]

Mantissa(n) == IF n.neg THEN -Magnitude(n) ELSE Magnitude(n)

\* The number is Mantissa(n) * 10^Scale(n).
Scale(n) == n.exp - n.frac

\* compareNumber: less than, equal to or greater than 0 as a is to b.
Compare(a, b) ==
    LET low == IF Scale(a) < Scale(b) THEN Scale(a) ELSE Scale(b)
    IN  Mantissa(a) * PowerOfTen[Scale(a) - low] - Mantissa(b) * PowerOfTen[Scale(b) - low]

\* big.Rat's IsInt.
IsInteger(n) == Scale(n) >= 0 \/ Mantissa(n) % PowerOfTen[-Scale(n)] = 0

\* Mutant: zeros at the end are trimmed, but the exponent is not moved.
CanonicalTrimmed(n) ==
    LET nonzero == {i \in DOMAIN n.digits : n.digits[i] # 0}
    IN  IF nonzero = {} THEN Literal(FALSE, <<0>>, 0, 0)
        ELSE LET first == CHOOSE i \in nonzero : \A j \in nonzero : i <= j
                 last == CHOOSE i \in nonzero : \A j \in nonzero : i >= j
             IN  Literal(n.neg, SubSeq(n.digits, first, last), 0, Scale(n))

\* canonicalDiscoveryNumbers: the point moves behind the last digit, zeros go
\* on both sides, and zero itself loses its sign.
Canonical(n) ==
    LET nonzero == {i \in DOMAIN n.digits : n.digits[i] # 0}
    IN  IF nonzero = {} THEN Literal(FALSE, <<0>>, 0, 0)
        ELSE LET first == CHOOSE i \in nonzero : \A j \in nonzero : i <= j
                 last == CHOOSE i \in nonzero : \A j \in nonzero : i >= j
             IN  Literal(n.neg, SubSeq(n.digits, first, last), 0,
                         Scale(n) + (Len(n.digits) - last))
=============================================================================
