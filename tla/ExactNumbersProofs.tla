--------------------------- MODULE ExactNumbersProofs ---------------------------
(***************************************************************************)
(* Theorems about ExactNumbers for every literal: the canonical spelling   *)
(* of a number keeps its value, and two numbers are equal in the code's    *)
(* exact comparison precisely if their canonical spellings are the same.   *)
(*                                                                         *)
(* Powers of ten and the value of a row of digits are recursive functions. *)
(* What they compute is proved by descent: the least number at which an    *)
(* equation fails is neither 0 nor a successor.                            *)
(***************************************************************************)
EXTENDS ExactNumbers, WellFoundedInduction, TLAPS

\* Every set of natural numbers that is not empty has a least element.
LEMMA Least ==
    ASSUME NEW T, T \subseteq Nat, T # {}
    PROVE  \E x \in T : \A y \in T : x <= y
<1> DEFINE R == OpToRel(<, Nat)
<1>1. IsWellFoundedOn(R, Nat)
  BY NatLessThanWellFounded
<1>2. \E x \in T : \A y \in T : ~ (<<y, x>> \in R)
  <2> HIDE DEF R
  <2> QED BY <1>1, WFMin
<1>3. PICK x \in T : \A y \in T : ~ (<<y, x>> \in R)
  BY <1>2
<1>4. \A y \in T : ~ (y < x)
  BY <1>3 DEF OpToRel
<1> HIDE DEF R
<1> QED BY <1>4

\* A set of natural numbers that is closed under the successor and has 0 is Nat.
LEMMA Descent ==
    ASSUME NEW S, 0 \in S, \A n \in Nat : n \in S => n + 1 \in S
    PROVE  Nat \subseteq S
<1> DEFINE T == {n \in Nat : n \notin S}
<1> SUFFICES ASSUME T # {} PROVE FALSE
  OBVIOUS
<1>1. PICK x \in T : \A y \in T : x <= y
  BY Least
<1>2. x # 0 /\ x \in Nat
  OBVIOUS
<1>3. x - 1 \in Nat /\ x - 1 \notin T
  BY <1>1, <1>2
<1>4. x \in S
  BY <1>2, <1>3
<1> QED BY <1>4

-----------------------------------------------------------------------------
(* Recursion. *)

\* g is the function that starts with c and goes on by 10 * g[i] + d[i], up to n.
GoesOn(g, c, d, n) ==
    /\ g \in [0..n -> Int]
    /\ g[0] = c
    /\ \A i \in 0..(n - 1) : g[i + 1] = 10 * g[i] + d[i]

LEMMA GoesOnExists ==
    ASSUME NEW c \in Int, NEW d \in [Nat -> Int]
    PROVE  \A n \in Nat : \E g : GoesOn(g, c, d, n)
<1> DEFINE S == {n \in Nat : \E g : GoesOn(g, c, d, n)}
<1>1. 0 \in S
  <2>1. GoesOn([i \in 0..0 |-> c], c, d, 0)
    BY DEF GoesOn
  <2> QED BY <2>1
<1>2. ASSUME NEW n \in Nat, n \in S PROVE n + 1 \in S
  <2>1. PICK g : GoesOn(g, c, d, n)
    BY <1>2
  <2> DEFINE h == [i \in 0..(n + 1) |-> IF i = n + 1 THEN 10 * g[n] + d[n] ELSE g[i]]
  <2>2. GoesOn(h, c, d, n + 1)
    BY <2>1 DEF GoesOn
  <2> QED BY <2>2
<1>3. Nat \subseteq S
  <2> HIDE DEF S
  <2> QED BY <1>1, <1>2, Descent
<1> QED BY <1>3

LEMMA GoesOnAgree ==
    ASSUME NEW c \in Int, NEW d \in [Nat -> Int], NEW m \in Nat, NEW n \in Nat,
           NEW g, NEW h, GoesOn(g, c, d, m), GoesOn(h, c, d, n)
    PROVE  \A i \in 0..m : i <= n => g[i] = h[i]
<1> DEFINE S == {i \in Nat : i <= m /\ i <= n => g[i] = h[i]}
<1>1. 0 \in S
  BY DEF GoesOn
<1>2. ASSUME NEW i \in Nat, i \in S PROVE i + 1 \in S
  BY <1>2 DEF GoesOn
<1>3. Nat \subseteq S
  <2> HIDE DEF S
  <2> QED BY <1>1, <1>2, Descent
<1> QED BY <1>3

LEMMA Recursion ==
    ASSUME NEW c \in Int, NEW d \in [Nat -> Int]
    PROVE  \E f \in [Nat -> Int] :
               f[0] = c /\ \A n \in Nat : f[n + 1] = 10 * f[n] + d[n]
<1> DEFINE G(n) == CHOOSE g : GoesOn(g, c, d, n)
           f == [n \in Nat |-> G(n)[n]]
<1>1. \A n \in Nat : GoesOn(G(n), c, d, n)
  BY GoesOnExists
<1>2. \A n \in Nat : G(n + 1)[n] = G(n)[n]
  <2> TAKE n \in Nat
  <2>1. GoesOn(G(n), c, d, n) /\ GoesOn(G(n + 1), c, d, n + 1)
    BY <1>1
  <2> HIDE DEF G
  <2> QED BY <2>1, GoesOnAgree
<1> HIDE DEF G
<1>3. \A n \in Nat : G(n)[n] \in Int
  BY <1>1 DEF GoesOn
<1>4. f[0] = c
  BY <1>1 DEF GoesOn
<1>5. \A n \in Nat : f[n + 1] = 10 * f[n] + d[n]
  <2> TAKE n \in Nat
  <2>1. GoesOn(G(n + 1), c, d, n + 1)
    BY <1>1
  <2>2. G(n + 1)[n + 1] = 10 * G(n + 1)[n] + d[n]
    BY <2>1 DEF GoesOn
  <2> QED BY <2>2, <1>2
<1> QED BY <1>3, <1>4, <1>5

-----------------------------------------------------------------------------
(* Powers of ten. *)

LEMMA PowerRecursion ==
    /\ PowerOfTen \in [Nat -> Int]
    /\ PowerOfTen[0] = 1
    /\ \A n \in Nat : PowerOfTen[n + 1] = 10 * PowerOfTen[n]
<1> DEFINE d == [n \in Nat |-> 0]
<1>1. PICK f \in [Nat -> Int] : f[0] = 1 /\ \A n \in Nat : f[n + 1] = 10 * f[n] + d[n]
  <2>1. d \in [Nat -> Int] /\ 1 \in Int
    OBVIOUS
  <2> HIDE DEF d
  <2> QED BY <2>1, Recursion
<1>2. f = [n \in Nat |-> IF n = 0 THEN 1 ELSE 10 * f[n - 1]]
  <2>1. \A n \in Nat : f[n] = IF n = 0 THEN 1 ELSE 10 * f[n - 1]
    <3> TAKE n \in Nat
    <3>1. CASE n = 0
      BY <3>1, <1>1
    <3>2. CASE n # 0
      <4>1. n - 1 \in Nat
        BY <3>2
      <4>2. f[(n - 1) + 1] = 10 * f[n - 1] + d[n - 1]
        BY <4>1, <1>1
      <4> QED BY <3>2, <4>1, <4>2
    <3> QED BY <3>1, <3>2
  <2> QED BY <2>1
<1>3. PowerOfTen = [n \in Nat |-> IF n = 0 THEN 1 ELSE 10 * PowerOfTen[n - 1]]
  BY <1>2 DEF PowerOfTen
<1>4. PowerOfTen[0] = 1 /\ \A n \in Nat : PowerOfTen[n + 1] = 10 * PowerOfTen[n]
  BY <1>3
<1> DEFINE S == {n \in Nat : PowerOfTen[n] \in Int}
<1>5. Nat \subseteq S
  <2>1. 0 \in S
    BY <1>4
  <2>2. ASSUME NEW n \in Nat, n \in S PROVE n + 1 \in S
    BY <2>2, <1>4
  <2> HIDE DEF S
  <2> QED BY <2>1, <2>2, Descent
<1> QED BY <1>3, <1>4, <1>5

LEMMA PowerPositive == \A n \in Nat : PowerOfTen[n] \in Int /\ PowerOfTen[n] > 0
<1> DEFINE S == {n \in Nat : PowerOfTen[n] > 0}
<1>1. 0 \in S
  BY PowerRecursion
<1>2. ASSUME NEW n \in Nat, n \in S PROVE n + 1 \in S
  BY <1>2, PowerRecursion
<1>3. Nat \subseteq S
  <2> HIDE DEF S
  <2> QED BY <1>1, <1>2, Descent
<1> QED BY <1>3, PowerRecursion

LEMMA PowerSum ==
    ASSUME NEW m \in Nat
    PROVE  \A n \in Nat : PowerOfTen[m + n] = PowerOfTen[m] * PowerOfTen[n]
<1> DEFINE S == {n \in Nat : PowerOfTen[m + n] = PowerOfTen[m] * PowerOfTen[n]}
<1>1. 0 \in S
  BY PowerRecursion
<1>2. ASSUME NEW n \in Nat, n \in S PROVE n + 1 \in S
  <2>1. PowerOfTen[m + (n + 1)] = 10 * PowerOfTen[m + n]
    <3>1. m + n \in Nat /\ (m + n) + 1 = m + (n + 1)
      OBVIOUS
    <3> QED BY <3>1, PowerRecursion
  <2>2. PowerOfTen[n + 1] = 10 * PowerOfTen[n]
    BY PowerRecursion
  <2>3. PowerOfTen[m] \in Int /\ PowerOfTen[n] \in Int
    BY PowerRecursion
  <2> QED BY <1>2, <2>1, <2>2, <2>3
<1>3. Nat \subseteq S
  <2> HIDE DEF S
  <2> QED BY <1>1, <1>2, Descent
<1> QED BY <1>3

-----------------------------------------------------------------------------
(* Rows of digits. *)

\* One digit more gives a number again.
LEMMA OneMoreDigit ==
    ASSUME NEW s \in Seq(0..9), NEW i \in 1..Len(s), NEW u \in Nat
    PROVE  10 * u + s[i] \in Nat
<1>1. s[i] \in 0..9
  OBVIOUS
<1>2. \A d \in 0..9 : 10 * u + d \in Nat
  OBVIOUS
<1> QED BY <1>1, <1>2

LEMMA LeadingRecursion ==
    ASSUME NEW s \in Seq(0..9)
    PROVE  /\ \A i \in 0..Len(s) : Leading(s)[i] \in Nat
           /\ Leading(s)[0] = 0
           /\ \A i \in 1..Len(s) : Leading(s)[i] = 10 * Leading(s)[i - 1] + s[i]
<1> DEFINE d == [n \in Nat |-> IF n + 1 \in 1..Len(s) THEN s[n + 1] ELSE 0]
<1>0. Len(s) \in Nat /\ \A i \in 1..Len(s) : s[i] \in 0..9
  OBVIOUS
<1>1. PICK f \in [Nat -> Int] : f[0] = 0 /\ \A n \in Nat : f[n + 1] = 10 * f[n] + d[n]
  <2>1. d \in [Nat -> Int] /\ 0 \in Int
    BY <1>0
  <2> HIDE DEF d
  <2> QED BY <2>1, Recursion
<1> DEFINE g == [i \in 0..Len(s) |-> f[i]]
<1>2. g = [i \in 0..Len(s) |-> IF i = 0 THEN 0 ELSE 10 * g[i - 1] + s[i]]
  <2>1. \A i \in 0..Len(s) : g[i] = IF i = 0 THEN 0 ELSE 10 * g[i - 1] + s[i]
    <3> TAKE i \in 0..Len(s)
    <3>1. CASE i = 0
      BY <3>1, <1>1
    <3>2. CASE i # 0
      <4>1. i - 1 \in Nat /\ i - 1 \in 0..Len(s) /\ i \in 1..Len(s)
        BY <3>2, <1>0
      <4>2. f[(i - 1) + 1] = 10 * f[i - 1] + d[i - 1]
        BY <4>1, <1>1
      <4>3. d[i - 1] = s[i]
        BY <4>1
      <4> QED BY <3>2, <4>1, <4>2, <4>3
    <3> QED BY <3>1, <3>2
  <2> QED BY <2>1
<1>3. Leading(s) = [i \in 0..Len(s) |-> IF i = 0 THEN 0 ELSE 10 * Leading(s)[i - 1] + s[i]]
  <2> HIDE DEF g
  <2> QED BY <1>2 DEF Leading
<1>4. /\ Leading(s)[0] = 0
      /\ \A i \in 1..Len(s) : Leading(s)[i] = 10 * Leading(s)[i - 1] + s[i]
  <2> DEFINE v == Leading(s)
  <2>1. v = [i \in 0..Len(s) |-> IF i = 0 THEN 0 ELSE 10 * v[i - 1] + s[i]]
    BY <1>3
  <2> HIDE DEF v, d, g
  <2>2. ASSUME NEW i \in 0..Len(s)
        PROVE  v[i] = IF i = 0 THEN 0 ELSE 10 * v[i - 1] + s[i]
    BY <2>1, Zenon
  <2>3. 0 \in 0..Len(s) /\ \A i \in 1..Len(s) : i \in 0..Len(s) /\ i # 0
    BY <1>0
  <2> QED BY <2>2, <2>3 DEF v
<1> DEFINE S == {n \in Nat : n <= Len(s) => Leading(s)[n] \in Nat}
<1>5. Nat \subseteq S
  <2>1. 0 \in S
    BY <1>4
  <2>2. ASSUME NEW n \in Nat, n \in S PROVE n + 1 \in S
    <3> HIDE DEF d, g
    <3> SUFFICES ASSUME n + 1 <= Len(s) PROVE Leading(s)[n + 1] \in Nat
      OBVIOUS
    <3>1. n + 1 \in 1..Len(s) /\ (n + 1) - 1 = n /\ n <= Len(s)
      BY <1>0
    <3>2. Leading(s)[n + 1] = 10 * Leading(s)[n] + s[n + 1]
      BY <3>1, <1>4
    <3>3. Leading(s)[n] \in Nat
      BY <3>1, <2>2
    <3> QED BY <3>1, <3>2, <3>3, OneMoreDigit
  <2> HIDE DEF S
  <2> QED BY <2>1, <2>2, Descent
<1>6. \A i \in 0..Len(s) : Leading(s)[i] \in Nat
  <2> HIDE DEF d, g
  <2> QED BY <1>0, <1>5
<1> QED BY <1>4, <1>6

\* Zeros at the end multiply.
LEMMA LeadingTrailingZeros ==
    ASSUME NEW s \in Seq(0..9), NEW last \in 0..Len(s),
           \A i \in (last + 1)..Len(s) : s[i] = 0
    PROVE  Leading(s)[Len(s)] = Leading(s)[last] * PowerOfTen[Len(s) - last]
<1>0. Len(s) \in Nat /\ last \in Nat /\ last <= Len(s)
  OBVIOUS
<1> DEFINE S == {k \in Nat : last + k <= Len(s) =>
                     Leading(s)[last + k] = Leading(s)[last] * PowerOfTen[k]}
<1>1. 0 \in S
  <2>1. Leading(s)[last] \in Nat
    BY LeadingRecursion
  <2>2. Leading(s)[last] * 1 = Leading(s)[last] /\ last + 0 = last
    BY <2>1, <1>0
  <2>3. PowerOfTen[0] = 1
    BY PowerRecursion
  <2> QED BY <2>2, <2>3
<1>2. ASSUME NEW k \in Nat, k \in S PROVE k + 1 \in S
  <2> SUFFICES ASSUME last + (k + 1) <= Len(s)
               PROVE Leading(s)[last + (k + 1)] = Leading(s)[last] * PowerOfTen[k + 1]
    OBVIOUS
  <2>1. last + (k + 1) \in 1..Len(s) /\ last + (k + 1) \in (last + 1)..Len(s)
    BY <1>0
  <2>2. Leading(s)[last + (k + 1)] = 10 * Leading(s)[last + k] + s[last + (k + 1)]
    <3>1. (last + (k + 1)) - 1 = last + k
      BY <1>0
    <3> QED BY <2>1, <3>1, LeadingRecursion
  <2>3. s[last + (k + 1)] = 0
    BY <2>1
  <2>4. Leading(s)[last + k] = Leading(s)[last] * PowerOfTen[k]
    BY <1>2, <1>0
  <2>5. PowerOfTen[k + 1] = 10 * PowerOfTen[k] /\ PowerOfTen[k] \in Int
    BY PowerRecursion
  <2>6. Leading(s)[last] \in Int
    BY LeadingRecursion
  <2> QED BY <2>2, <2>3, <2>4, <2>5, <2>6
<1>3. Nat \subseteq S
  <2> HIDE DEF S
  <2> QED BY <1>1, <1>2, Descent
<1>4. Len(s) - last \in Nat /\ last + (Len(s) - last) = Len(s)
  BY <1>0
<1> QED BY <1>3, <1>4

\* A digit that is not zero makes the row positive.
LEMMA LeadingPositive ==
    ASSUME NEW s \in Seq(0..9), NEW j \in 1..Len(s), s[j] # 0
    PROVE  \A i \in j..Len(s) : Leading(s)[i] > 0
<1>0. Len(s) \in Nat /\ j \in Nat /\ 1 <= j /\ j <= Len(s)
  OBVIOUS
<1> DEFINE S == {k \in Nat : j + k <= Len(s) => Leading(s)[j + k] > 0}
<1>1. 0 \in S
  <2>1. Leading(s)[j] = 10 * Leading(s)[j - 1] + s[j]
    BY LeadingRecursion
  <2>2. Leading(s)[j - 1] \in Nat
    <3>1. j - 1 \in 0..Len(s)
      BY <1>0
    <3> QED BY <3>1, LeadingRecursion
  <2>3. s[j] \in 1..9
    BY <1>0
  <2>4. Leading(s)[j] > 0 /\ j + 0 = j
    BY <2>1, <2>2, <2>3, <1>0
  <2> QED BY <2>4
<1>2. ASSUME NEW k \in Nat, k \in S PROVE k + 1 \in S
  <2> SUFFICES ASSUME j + (k + 1) <= Len(s) PROVE Leading(s)[j + (k + 1)] > 0
    OBVIOUS
  <2>1. /\ j + (k + 1) \in 1..Len(s) /\ (j + (k + 1)) - 1 = j + k
        /\ j + k \in 0..Len(s) /\ j + k <= Len(s)
    BY <1>0
  <2>2. Leading(s)[j + (k + 1)] = 10 * Leading(s)[j + k] + s[j + (k + 1)]
    BY <2>1, LeadingRecursion
  <2>3. Leading(s)[j + k] \in Nat /\ Leading(s)[j + k] > 0
    BY <1>2, <2>1, LeadingRecursion
  <2>4. s[j + (k + 1)] \in 0..9
    BY <2>1
  <2> QED BY <2>2, <2>3, <2>4
<1>3. Nat \subseteq S
  <2> HIDE DEF S
  <2> QED BY <1>1, <1>2, Descent
<1>4. \A i \in j..Len(s) : i - j \in Nat /\ j + (i - j) = i
  BY <1>0
<1> QED BY <1>3, <1>4

\* Zeros at the front do not count.
LEMMA LeadingZeros ==
    ASSUME NEW s \in Seq(0..9), NEW n \in 0..Len(s), \A i \in 1..n : s[i] = 0
    PROVE  Leading(s)[n] = 0
<1>0. Len(s) \in Nat /\ n \in Nat /\ n <= Len(s)
  OBVIOUS
<1> DEFINE S == {k \in Nat : k <= n => Leading(s)[k] = 0}
<1>1. 0 \in S
  BY LeadingRecursion
<1>2. ASSUME NEW k \in Nat, k \in S PROVE k + 1 \in S
  <2> SUFFICES ASSUME k + 1 <= n PROVE Leading(s)[k + 1] = 0
    OBVIOUS
  <2>1. k + 1 \in 1..Len(s) /\ k + 1 \in 1..n /\ (k + 1) - 1 = k /\ k <= n
    BY <1>0
  <2>2. Leading(s)[k + 1] = 10 * Leading(s)[k] + s[k + 1]
    BY <2>1, LeadingRecursion
  <2>3. Leading(s)[k] = 0 /\ s[k + 1] = 0
    BY <1>2, <2>1
  <2> QED BY <2>2, <2>3
<1>3. Nat \subseteq S
  <2> HIDE DEF S
  <2> QED BY <1>1, <1>2, Descent
<1> QED BY <1>0, <1>3

LEMMA LeadingSubSeq ==
    ASSUME NEW s \in Seq(0..9), NEW first \in 1..Len(s), NEW last \in first..Len(s),
           \A i \in 1..(first - 1) : s[i] = 0
    PROVE  LET t == SubSeq(s, first, last)
           IN  /\ t \in Seq(0..9)
               /\ Len(t) = last - first + 1
               /\ Leading(t)[Len(t)] = Leading(s)[last]
<1> DEFINE t == SubSeq(s, first, last)
<1>0. /\ Len(s) \in Nat /\ first \in Nat /\ last \in Nat
      /\ 1 <= first /\ first <= last /\ last <= Len(s)
  OBVIOUS
<1>1. /\ t \in Seq(0..9)
      /\ Len(t) = last - first + 1
      /\ \A i \in 1..Len(t) : t[i] = s[first + i - 1]
  BY <1>0
<1> HIDE DEF t
<1> DEFINE S == {k \in Nat : k <= Len(t) => Leading(t)[k] = Leading(s)[first - 1 + k]}
<1>2. 0 \in S
  <2>1. first - 1 \in 0..Len(s) /\ first - 1 + 0 = first - 1
    BY <1>0
  <2>2. Leading(s)[first - 1] = 0
    BY <2>1, LeadingZeros
  <2>3. Leading(t)[0] = 0
    BY <1>1, LeadingRecursion
  <2> QED BY <2>1, <2>2, <2>3
<1>3. ASSUME NEW k \in Nat, k \in S PROVE k + 1 \in S
  <2> SUFFICES ASSUME k + 1 <= Len(t)
               PROVE Leading(t)[k + 1] = Leading(s)[first - 1 + (k + 1)]
    OBVIOUS
  <2>1. /\ k + 1 \in 1..Len(t) /\ (k + 1) - 1 = k /\ k <= Len(t)
        /\ first - 1 + (k + 1) \in 1..Len(s)
        /\ (first - 1 + (k + 1)) - 1 = first - 1 + k
        /\ first + (k + 1) - 1 = first - 1 + (k + 1)
    BY <1>0, <1>1
  <2>2. Leading(t)[k + 1] = 10 * Leading(t)[k] + t[k + 1]
    BY <1>1, <2>1, LeadingRecursion
  <2>3. Leading(s)[first - 1 + (k + 1)]
          = 10 * Leading(s)[first - 1 + k] + s[first - 1 + (k + 1)]
    BY <2>1, LeadingRecursion
  <2>4. t[k + 1] = s[first - 1 + (k + 1)]
    BY <1>1, <2>1
  <2>5. Leading(t)[k] = Leading(s)[first - 1 + k]
    BY <1>3, <2>1
  <2> QED BY <2>2, <2>3, <2>4, <2>5
<1>4. Nat \subseteq S
  <2> HIDE DEF S
  <2> QED BY <1>2, <1>3, Descent
<1>5. Len(t) \in Nat /\ first - 1 + Len(t) = last
  BY <1>0, <1>1
<1>6. Leading(t)[Len(t)] = Leading(s)[first - 1 + Len(t)]
  BY <1>4, <1>5
<1> QED BY <1>1, <1>5, <1>6 DEF t

-----------------------------------------------------------------------------
(* Comparison. *)

LEMMA MantissaTyped ==
    ASSUME NEW n \in Literals
    PROVE  /\ Magnitude(n) \in Nat
           /\ Mantissa(n) \in Int
           /\ Scale(n) \in Int
<1>1. n.digits \in Seq(0..9) /\ n.exp \in Int /\ n.frac \in Nat /\ n.neg \in BOOLEAN
  BY DEF Literals
<1>2. Len(n.digits) \in 0..Len(n.digits)
  BY <1>1
<1>3. Magnitude(n) \in Nat
  BY <1>1, <1>2, LeadingRecursion DEF Magnitude
<1> QED BY <1>1, <1>3 DEF Mantissa, Scale

\* A factor that is positive does not change an order.
LEMMA PositiveFactor ==
    ASSUME NEW u \in Int, NEW v \in Int, NEW p \in Int, p > 0
    PROVE  /\ u * p \in Int /\ v * p \in Int
           /\ u * p = v * p <=> u = v
           /\ u * p <= v * p <=> u <= v
<1>1. u * p \in Int /\ v * p \in Int
  OBVIOUS
<1>2. CASE u < v
  <2>1. v - u > 0 /\ v - u \in Int
    BY <1>2
  <2>2. (v - u) * p > 0
    BY <2>1
  <2>3. (v - u) * p = v * p - u * p
    OBVIOUS
  <2> QED BY <1>1, <1>2, <2>2, <2>3
<1>3. CASE v < u
  <2>1. u - v > 0 /\ u - v \in Int
    BY <1>3
  <2>2. (u - v) * p > 0
    BY <2>1
  <2>3. (u - v) * p = u * p - v * p
    OBVIOUS
  <2> QED BY <1>1, <1>3, <2>2, <2>3
<1>4. CASE u = v
  BY <1>1, <1>4
<1> QED BY <1>2, <1>3, <1>4

\* Compare is the order of the numbers in units of any power of ten that is small
\* enough for both.
LEMMA CompareInUnits ==
    ASSUME NEW a \in Literals, NEW b \in Literals, NEW low \in Int,
           low <= Scale(a), low <= Scale(b)
    PROVE  LET x == Mantissa(a) * PowerOfTen[Scale(a) - low]
               y == Mantissa(b) * PowerOfTen[Scale(b) - low]
           IN  /\ x \in Int /\ y \in Int /\ Compare(a, b) \in Int
               /\ Compare(a, b) = 0 <=> x = y
               /\ Compare(a, b) <= 0 <=> x <= y
               /\ Compare(a, b) >= 0 <=> y <= x
<1> DEFINE least == IF Scale(a) < Scale(b) THEN Scale(a) ELSE Scale(b)
           p == PowerOfTen[least - low]
           u == Mantissa(a) * PowerOfTen[Scale(a) - least]
           v == Mantissa(b) * PowerOfTen[Scale(b) - least]
<1>1. /\ Mantissa(a) \in Int /\ Mantissa(b) \in Int
      /\ Scale(a) \in Int /\ Scale(b) \in Int
  BY MantissaTyped
<1>2. /\ least - low \in Nat /\ Scale(a) - least \in Nat /\ Scale(b) - least \in Nat
      /\ (Scale(a) - least) + (least - low) = Scale(a) - low
      /\ (Scale(b) - least) + (least - low) = Scale(b) - low
  BY <1>1
<1>3. Compare(a, b) = u - v
  BY DEF Compare
<1> HIDE DEF least
<1>4. /\ PowerOfTen[Scale(a) - low] = PowerOfTen[Scale(a) - least] * p
      /\ PowerOfTen[Scale(b) - low] = PowerOfTen[Scale(b) - least] * p
  BY <1>2, PowerSum
<1>5. /\ p \in Int /\ p > 0
      /\ PowerOfTen[Scale(a) - least] \in Int /\ PowerOfTen[Scale(b) - least] \in Int
  BY <1>2, PowerPositive
<1>6. u \in Int /\ v \in Int
  BY <1>1, <1>5
<1>7. /\ Mantissa(a) * PowerOfTen[Scale(a) - low] = u * p
      /\ Mantissa(b) * PowerOfTen[Scale(b) - low] = v * p
  BY <1>1, <1>4, <1>5
<1> HIDE DEF u, v, p
<1>8. /\ u * p \in Int /\ v * p \in Int
      /\ u * p = v * p <=> u = v
      /\ u * p <= v * p <=> u <= v
      /\ v * p <= u * p <=> v <= u
  BY <1>5, <1>6, PositiveFactor
<1> QED BY <1>3, <1>6, <1>7, <1>8

\* There is a unit small enough for any three numbers.
LEMMA CommonUnit ==
    ASSUME NEW a \in Literals, NEW b \in Literals, NEW c \in Literals
    PROVE  \E low \in Int : low <= Scale(a) /\ low <= Scale(b) /\ low <= Scale(c)
<1>1. Scale(a) \in Int /\ Scale(b) \in Int /\ Scale(c) \in Int
  BY MantissaTyped
<1>2. CASE Scale(a) <= Scale(b) /\ Scale(a) <= Scale(c)
  BY <1>1, <1>2
<1>3. CASE Scale(b) <= Scale(a) /\ Scale(b) <= Scale(c)
  BY <1>1, <1>3
<1>4. CASE Scale(c) <= Scale(a) /\ Scale(c) <= Scale(b)
  BY <1>1, <1>4
<1> QED BY <1>1, <1>2, <1>3, <1>4

\* compareNumber orders the numbers, whatever their spelling: the bounds of a ceiling
\* and its list of allowed values agree on which of two numbers is the smaller.
THEOREM ComparisonOrders ==
    ASSUME NEW a \in Literals, NEW b \in Literals, NEW c \in Literals
    PROVE  /\ Compare(a, b) <= 0 \/ Compare(b, a) <= 0
           /\ Compare(a, b) <= 0 /\ Compare(b, c) <= 0 => Compare(a, c) <= 0
           /\ Compare(a, b) = 0 <=> Compare(a, b) <= 0 /\ Compare(b, a) <= 0
<1>1. PICK low \in Int : low <= Scale(a) /\ low <= Scale(b) /\ low <= Scale(c)
  BY CommonUnit
<1> DEFINE InUnits(n) == Mantissa(n) * PowerOfTen[Scale(n) - low]
<1>2. \A m, n \in {a, b, c} :
        /\ InUnits(m) \in Int
        /\ Compare(m, n) = 0 <=> InUnits(m) = InUnits(n)
        /\ Compare(m, n) <= 0 <=> InUnits(m) <= InUnits(n)
  BY <1>1, CompareInUnits
<1> HIDE DEF InUnits
<1> QED BY <1>2

-----------------------------------------------------------------------------
(* Canonical spellings. *)

\* What canonicalDiscoveryNumbers writes for a number that is not zero: no zero at
\* either end.
Normal(c) ==
    /\ c \in Literals /\ c.frac = 0
    /\ Len(c.digits) \in Nat \ {0}
    /\ c.digits[1] # 0 /\ c.digits[Len(c.digits)] # 0

LEMMA CanonicalOfZero ==
    ASSUME NEW n \in Literals, \A i \in DOMAIN n.digits : n.digits[i] = 0
    PROVE  Canonical(n) = Literal(FALSE, <<0>>, 0, 0) /\ Mantissa(n) = 0
<1>1. n.digits \in Seq(0..9)
  BY DEF Literals
<1>2. Len(n.digits) \in 0..Len(n.digits) /\ \A i \in 1..Len(n.digits) : n.digits[i] = 0
  BY <1>1
<1>3. Magnitude(n) = 0
  BY <1>1, <1>2, LeadingZeros DEF Magnitude
<1>4. Mantissa(n) = 0
  <2>1. \A m \in Int : -m = 0 - m
    OBVIOUS
  <2>2. Magnitude(n) \in Int /\ -Magnitude(n) = 0 - Magnitude(n)
    BY <2>1, MantissaTyped
  <2>3. -Magnitude(n) = 0
    BY <1>3, <2>2
  <2> QED BY <1>3, <2>3 DEF Mantissa
<1>5. {i \in DOMAIN n.digits : n.digits[i] # 0} = {}
  OBVIOUS
<1> QED BY <1>4, <1>5 DEF Canonical

\* The last of the places where a row of digits is not zero.
LEMMA Ends ==
    ASSUME NEW s \in Seq(0..9), NEW at, at = {i \in DOMAIN s : s[i] # 0}, at # {}
    PROVE  /\ \E i \in at : \A j \in at : i <= j
           /\ \E i \in at : \A j \in at : i >= j
<1>0. Len(s) \in Nat /\ DOMAIN s = 1..Len(s) /\ at \subseteq Nat
  OBVIOUS
<1>1. \E i \in at : \A j \in at : i <= j
  BY <1>0, Least
<1> DEFINE T == {Len(s) - i : i \in at}
<1>2. T \subseteq Nat /\ T # {}
  BY <1>0
<1>3. PICK x \in T : \A y \in T : x <= y
  <2> HIDE DEF T
  <2> QED BY <1>2, Least
<1>4. PICK i \in at : x = Len(s) - i
  OBVIOUS
<1>5. ASSUME NEW j \in at PROVE i >= j
  <2>1. Len(s) - i <= Len(s) - j
    BY <1>3, <1>4
  <2> QED BY <2>1, <1>0
<1> QED BY <1>1, <1>5

LEMMA CanonicalOfOther ==
    ASSUME NEW n \in Literals, NEW z \in DOMAIN n.digits, n.digits[z] # 0
    PROVE  /\ Normal(Canonical(n))
           /\ Canonical(n).neg = n.neg
           /\ Mantissa(n) # 0
           /\ Scale(Canonical(n)) - Scale(n) \in Nat
           /\ Mantissa(n) = Mantissa(Canonical(n))
                              * PowerOfTen[Scale(Canonical(n)) - Scale(n)]
<1> DEFINE s == n.digits
           at == {i \in DOMAIN s : s[i] # 0}
           first == CHOOSE i \in at : \A j \in at : i <= j
           last == CHOOSE i \in at : \A j \in at : i >= j
           t == SubSeq(s, first, last)
           c == Literal(n.neg, t, 0, Scale(n) + (Len(s) - last))
<1>1. /\ s \in Seq(0..9) /\ n.neg \in BOOLEAN /\ Scale(n) \in Int
      /\ Len(s) \in Nat /\ DOMAIN s = 1..Len(s)
  BY MantissaTyped DEF Literals
<1>2. at # {}
  OBVIOUS
<1>3. Canonical(n) = c
  BY <1>2 DEF Canonical
<1>4. first \in at /\ \A j \in at : first <= j
  <2>1. \E i \in at : \A j \in at : i <= j
    BY <1>1, <1>2, Ends
  <2> HIDE DEF at
  <2> QED BY <2>1
<1>5. last \in at /\ \A j \in at : last >= j
  <2>1. \E i \in at : \A j \in at : i >= j
    BY <1>1, <1>2, Ends
  <2> HIDE DEF at
  <2> QED BY <2>1
<1> HIDE DEF first, last
<1>6. /\ first \in 1..Len(s) /\ last \in first..Len(s)
      /\ s[first] # 0 /\ s[last] # 0
      /\ \A i \in 1..(first - 1) : s[i] = 0
      /\ \A i \in (last + 1)..Len(s) : s[i] = 0
  <2>1. first \in 1..Len(s) /\ last \in first..Len(s) /\ s[first] # 0 /\ s[last] # 0
    BY <1>1, <1>4, <1>5
  <2>2. ASSUME NEW i \in 1..(first - 1) PROVE s[i] = 0
    BY <1>1, <1>4, <2>1
  <2>3. ASSUME NEW i \in (last + 1)..Len(s) PROVE s[i] = 0
    BY <1>1, <1>5, <2>1
  <2> QED BY <2>1, <2>2, <2>3
<1>7. /\ t \in Seq(0..9) /\ Len(t) = last - first + 1
      /\ Leading(t)[Len(t)] = Leading(s)[last]
  BY <1>1, <1>6, LeadingSubSeq
<1>8. t[1] = s[first] /\ t[Len(t)] = s[last] /\ Len(t) \in Nat \ {0}
  BY <1>1, <1>6, <1>7
<1> HIDE DEF t
<1>9. /\ c.neg = n.neg /\ c.digits = t /\ c.frac = 0
      /\ c.exp = Scale(n) + (Len(s) - last)
      /\ Len(s) - last \in Nat
  BY <1>1, <1>6 DEF Literal
<1>10. Scale(c) - Scale(n) = Len(s) - last
  BY <1>1, <1>9 DEF Scale
<1>11. c \in Literals
  BY <1>1, <1>7, <1>9 DEF Literals, Literal
<1>12. Normal(c)
  BY <1>6, <1>8, <1>9, <1>11 DEF Normal
<1>13. Magnitude(n) = Magnitude(c) * PowerOfTen[Len(s) - last]
  <2>1. Leading(s)[Len(s)] = Leading(s)[last] * PowerOfTen[Len(s) - last]
    <3>1. last \in 0..Len(s) /\ s \in Seq(0..9)
      BY <1>1, <1>6
    <3>2. \A i \in (last + 1)..Len(s) : s[i] = 0
      BY <1>6
    <3> HIDE DEF s
    <3> QED BY <3>1, <3>2, LeadingTrailingZeros
  <2> QED BY <2>1, <1>7, <1>9 DEF Magnitude
<1>14. /\ Magnitude(c) \in Nat /\ PowerOfTen[Len(s) - last] \in Int
  BY <1>9, <1>11, MantissaTyped, PowerPositive
<1>15. Mantissa(n) = Mantissa(c) * PowerOfTen[Len(s) - last]
  BY <1>9, <1>13, <1>14 DEF Mantissa
<1>16. Mantissa(n) # 0
  <2>1. Magnitude(n) > 0 /\ Magnitude(n) \in Nat
    BY <1>1, LeadingPositive, MantissaTyped DEF Magnitude
  <2> QED BY <2>1 DEF Mantissa
<1> HIDE DEF c
<1> QED BY <1>3, <1>9, <1>10, <1>12, <1>15, <1>16

LEMMA CanonicalIsLiteral ==
    ASSUME NEW n \in Literals
    PROVE  Canonical(n) \in Literals
<1>1. CASE \A i \in DOMAIN n.digits : n.digits[i] = 0
  <2>1. <<0>> \in Seq(0..9)
    OBVIOUS
  <2>2. Literal(FALSE, <<0>>, 0, 0) \in Literals
    BY <2>1 DEF Literals, Literal
  <2> QED BY <1>1, <2>2, CanonicalOfZero
<1>2. CASE \E i \in DOMAIN n.digits : n.digits[i] # 0
  BY <1>2, CanonicalOfOther DEF Normal
<1> QED BY <1>1, <1>2

\* The canonical spelling has the same value in units of any power of ten.
LEMMA CanonicalInUnits ==
    ASSUME NEW n \in Literals, NEW low \in Int, low <= Scale(n),
           NEW z \in DOMAIN n.digits, n.digits[z] # 0
    PROVE  /\ low <= Scale(Canonical(n))
           /\ Mantissa(n) * PowerOfTen[Scale(n) - low]
                = Mantissa(Canonical(n)) * PowerOfTen[Scale(Canonical(n)) - low]
<1> DEFINE c == Canonical(n)
<1>1. /\ Scale(c) - Scale(n) \in Nat
      /\ Mantissa(n) = Mantissa(c) * PowerOfTen[Scale(c) - Scale(n)]
  BY CanonicalOfOther
<1>2. c \in Literals
  BY CanonicalIsLiteral
<1>3. Scale(c) \in Int /\ Mantissa(c) \in Int /\ Scale(n) \in Int
  BY <1>2, MantissaTyped
<1> HIDE DEF c
<1>4. /\ Scale(n) - low \in Nat /\ low <= Scale(c)
      /\ (Scale(c) - Scale(n)) + (Scale(n) - low) = Scale(c) - low
  BY <1>1, <1>3
<1>5. PowerOfTen[Scale(c) - low]
        = PowerOfTen[Scale(c) - Scale(n)] * PowerOfTen[Scale(n) - low]
  BY <1>1, <1>4, PowerSum
<1>6. PowerOfTen[Scale(c) - Scale(n)] \in Int /\ PowerOfTen[Scale(n) - low] \in Int
  BY <1>1, <1>4, PowerPositive
<1>7. Mantissa(n) * PowerOfTen[Scale(n) - low] = Mantissa(c) * PowerOfTen[Scale(c) - low]
  BY <1>1, <1>3, <1>5, <1>6
<1> QED BY <1>4, <1>7 DEF c

\* Canonical spellings (canonicalDiscoveryNumbers) are only the same if the numbers
\* are equal in the exact comparison of parameter ceilings (compareNumber).
THEOREM SameSpellingSameNumber ==
    ASSUME NEW a \in Literals, NEW b \in Literals, Canonical(a) = Canonical(b)
    PROVE  Compare(a, b) = 0
<1> DEFINE low == IF Scale(a) < Scale(b) THEN Scale(a) ELSE Scale(b)
           c == Canonical(a)
           x == Mantissa(a) * PowerOfTen[Scale(a) - low]
           y == Mantissa(b) * PowerOfTen[Scale(b) - low]
<1>1. /\ Mantissa(a) \in Int /\ Mantissa(b) \in Int
      /\ Scale(a) \in Int /\ Scale(b) \in Int
  BY MantissaTyped
<1>2. low \in Int /\ Scale(a) - low \in Nat /\ Scale(b) - low \in Nat
  BY <1>1
<1>3. low <= Scale(a) /\ low <= Scale(b)
  BY <1>1
<1> HIDE DEF low
<1>4. Compare(a, b) = 0 <=> x = y
  BY <1>2, <1>3, CompareInUnits
<1>5. CASE c = Literal(FALSE, <<0>>, 0, 0)
  <2>1. ASSUME NEW n \in Literals, Canonical(n) = c PROVE Mantissa(n) = 0
    <3>1. ~ Normal(c)
      BY <1>5 DEF Normal, Literal
    <3>2. \A i \in DOMAIN n.digits : n.digits[i] = 0
      BY <2>1, <3>1, CanonicalOfOther
    <3> QED BY <3>2, CanonicalOfZero
  <2>2. Mantissa(a) = 0 /\ Mantissa(b) = 0
    BY <2>1
  <2>3. x = 0 /\ y = 0
    BY <2>2, <1>2, PowerPositive
  <2> QED BY <1>4, <2>3
<1>6. CASE c # Literal(FALSE, <<0>>, 0, 0)
  <2>1. /\ \E z \in DOMAIN a.digits : a.digits[z] # 0
        /\ \E z \in DOMAIN b.digits : b.digits[z] # 0
    BY <1>6, CanonicalOfZero
  <2>2. x = y
    BY <2>1, <1>2, <1>3, CanonicalInUnits
  <2> QED BY <1>4, <2>2
<1> QED BY <1>5, <1>6

-----------------------------------------------------------------------------
(* Numbers have one canonical spelling. *)

\* Rows of digits that do not begin with zero are the same if their values are: the
\* digits agree from the end.
LEMMA DigitsFromEnd ==
    ASSUME NEW s \in Seq(0..9), NEW t \in Seq(0..9),
           Leading(s)[Len(s)] = Leading(t)[Len(t)]
    PROVE  \A k \in Nat : (k <= Len(s) /\ k <= Len(t)) =>
               /\ Leading(s)[Len(s) - k] = Leading(t)[Len(t) - k]
               /\ k < Len(s) /\ k < Len(t) => s[Len(s) - k] = t[Len(t) - k]
<1>0. Len(s) \in Nat /\ Len(t) \in Nat
  OBVIOUS
<1>1. ASSUME NEW k \in Nat, k < Len(s), k < Len(t),
             Leading(s)[Len(s) - k] = Leading(t)[Len(t) - k]
      PROVE  /\ s[Len(s) - k] = t[Len(t) - k]
             /\ Leading(s)[Len(s) - (k + 1)] = Leading(t)[Len(t) - (k + 1)]
  <2>1. /\ Len(s) - k \in 1..Len(s) /\ (Len(s) - k) - 1 = Len(s) - (k + 1)
        /\ Len(t) - k \in 1..Len(t) /\ (Len(t) - k) - 1 = Len(t) - (k + 1)
        /\ Len(s) - (k + 1) \in 0..Len(s) /\ Len(t) - (k + 1) \in 0..Len(t)
    BY <1>0, <1>1
  <2>2. /\ Leading(s)[Len(s) - k] = 10 * Leading(s)[Len(s) - (k + 1)] + s[Len(s) - k]
        /\ Leading(t)[Len(t) - k] = 10 * Leading(t)[Len(t) - (k + 1)] + t[Len(t) - k]
    BY <2>1, LeadingRecursion
  <2>3. /\ Leading(s)[Len(s) - (k + 1)] \in Nat /\ Leading(t)[Len(t) - (k + 1)] \in Nat
        /\ s[Len(s) - k] \in 0..9 /\ t[Len(t) - k] \in 0..9
    BY <2>1, LeadingRecursion
  <2> DEFINE x == Leading(s)[Len(s) - (k + 1)]
             y == Leading(t)[Len(t) - (k + 1)]
             d == s[Len(s) - k]
             e == t[Len(t) - k]
  <2>4. 10 * x + d = 10 * y + e
    BY <1>1, <2>2
  <2>5. x \in Nat /\ y \in Nat /\ d \in 0..9 /\ e \in 0..9
    BY <2>3
  <2> HIDE DEF x, y, d, e
  <2>6. x = y /\ d = e
    BY <2>4, <2>5
  <2> QED BY <2>6 DEF x, y, d, e
<1> DEFINE S == {k \in Nat : (k <= Len(s) /\ k <= Len(t)) =>
                     Leading(s)[Len(s) - k] = Leading(t)[Len(t) - k]}
<1>2. 0 \in S
  <2>1. Len(s) - 0 = Len(s) /\ Len(t) - 0 = Len(t)
    BY <1>0
  <2> QED BY <2>1
<1>3. ASSUME NEW k \in Nat, k \in S PROVE k + 1 \in S
  <2> SUFFICES ASSUME k + 1 <= Len(s), k + 1 <= Len(t)
               PROVE Leading(s)[Len(s) - (k + 1)] = Leading(t)[Len(t) - (k + 1)]
    OBVIOUS
  <2>1. k < Len(s) /\ k < Len(t) /\ k <= Len(s) /\ k <= Len(t)
    BY <1>0
  <2> QED BY <1>1, <1>3, <2>1
<1>4. Nat \subseteq S
  <2> HIDE DEF S
  <2> QED BY <1>2, <1>3, Descent
<1> QED BY <1>0, <1>1, <1>4

LEMMA DigitsUnique ==
    ASSUME NEW s \in Seq(0..9), NEW t \in Seq(0..9),
           Len(s) > 0, Len(t) > 0, s[1] # 0, t[1] # 0,
           Leading(s)[Len(s)] = Leading(t)[Len(t)]
    PROVE  s = t
<1>0. Len(s) \in Nat /\ Len(t) \in Nat
  OBVIOUS
<1>1. ASSUME NEW u \in Seq(0..9), NEW v \in Seq(0..9), v[1] # 0,
             Leading(u)[Len(u)] = Leading(v)[Len(v)], Len(u) < Len(v)
      PROVE  FALSE
  <2>1. /\ Len(u) \in Nat /\ Len(v) \in Nat /\ Len(u) - Len(u) = 0
        /\ Len(v) - Len(u) \in 1..Len(v) /\ 1 \in 1..Len(v)
    BY <1>1
  <2>2. Leading(u)[Len(u) - Len(u)] = Leading(v)[Len(v) - Len(u)]
    BY <1>1, <2>1, DigitsFromEnd
  <2>3. Leading(u)[0] = 0
    BY LeadingRecursion
  <2>4. Leading(v)[Len(v) - Len(u)] > 0
    BY <1>1, <2>1, LeadingPositive
  <2> QED BY <2>1, <2>2, <2>3, <2>4
<1>2. Len(s) = Len(t)
  BY <1>0, <1>1
<1>3. ASSUME NEW i \in 1..Len(s) PROVE s[i] = t[i]
  <2>1. /\ Len(s) - i \in Nat /\ Len(s) - i < Len(s)
        /\ Len(s) - (Len(s) - i) = i
    BY <1>0
  <2>2. s[Len(s) - (Len(s) - i)] = t[Len(t) - (Len(s) - i)]
    BY <1>2, <2>1, DigitsFromEnd, SMTT(30)
  <2> QED BY <1>2, <2>1, <2>2
<1> QED BY <1>2, <1>3

\* A number in canonical spelling is not zero and not a multiple of ten.
LEMMA NormalMagnitude ==
    ASSUME NEW c, Normal(c)
    PROVE  /\ Magnitude(c) \in Nat /\ Magnitude(c) > 0
           /\ \A x \in Int : Mantissa(c) # 10 * x
<1> DEFINE s == c.digits
           m == Leading(s)[Len(s) - 1]
           d == s[Len(s)]
<1>1. /\ c \in Literals /\ s \in Seq(0..9) /\ c.neg \in BOOLEAN
      /\ Len(s) \in Nat \ {0} /\ s[1] # 0 /\ d # 0
  BY DEF Normal, Literals
<1>2. /\ Len(s) \in 1..Len(s) /\ Len(s) - 1 \in 0..Len(s) /\ 1 \in 1..Len(s)
  BY <1>1
<1>3. Magnitude(c) = 10 * m + d
  BY <1>1, <1>2, LeadingRecursion DEF Magnitude
<1>4. m \in Nat
  BY <1>1, <1>2, LeadingRecursion
<1>5. d \in 1..9
  BY <1>1, <1>2
<1> HIDE DEF m, d
<1>6. Magnitude(c) \in Nat /\ Magnitude(c) > 0
  BY <1>3, <1>4, <1>5
<1>7. Mantissa(c) = Magnitude(c) \/ Mantissa(c) = -Magnitude(c)
  BY DEF Mantissa
<1>8. ASSUME NEW x \in Int PROVE Mantissa(c) # 10 * x
  <2>1. 10 * x # 10 * m + d
    BY <1>4, <1>5
  <2>2. 10 * x # -(10 * m + d)
    BY <1>4, <1>5
  <2> QED BY <1>3, <1>7, <2>1, <2>2
<1> QED BY <1>6, <1>8

LEMMA NormalScale ==
    ASSUME NEW c, NEW e, Normal(c), Normal(e), NEW low \in Int,
           low <= Scale(c), low <= Scale(e),
           Mantissa(c) * PowerOfTen[Scale(c) - low]
             = Mantissa(e) * PowerOfTen[Scale(e) - low]
    PROVE  Scale(c) <= Scale(e)
<1> SUFFICES ASSUME Scale(e) < Scale(c) PROVE FALSE
  BY MantissaTyped DEF Normal
<1> DEFINE k == (Scale(c) - Scale(e)) - 1
           p == PowerOfTen[Scale(e) - low]
<1>1. /\ Mantissa(c) \in Int /\ Scale(c) \in Int
      /\ Mantissa(e) \in Int /\ Scale(e) \in Int
  BY MantissaTyped DEF Normal
<1>2. /\ k \in Nat /\ k + 1 \in Nat /\ Scale(e) - low \in Nat
      /\ (k + 1) + (Scale(e) - low) = Scale(c) - low
  BY <1>1
<1> HIDE DEF k
<1>3. PowerOfTen[Scale(c) - low] = PowerOfTen[k + 1] * p
  BY <1>2, PowerSum
<1>4. PowerOfTen[k + 1] = 10 * PowerOfTen[k]
  BY <1>2, PowerRecursion
<1>5. p \in Int /\ p > 0 /\ PowerOfTen[k] \in Int
  BY <1>2, PowerPositive
<1>6. Mantissa(c) * PowerOfTen[k] \in Int
  BY <1>1, <1>5
<1>7. Mantissa(c) * PowerOfTen[Scale(c) - low] = (10 * (Mantissa(c) * PowerOfTen[k])) * p
  BY <1>1, <1>3, <1>4, <1>5
<1>8. Mantissa(e) = 10 * (Mantissa(c) * PowerOfTen[k])
  <2> DEFINE u == 10 * (Mantissa(c) * PowerOfTen[k])
  <2>1. u \in Int
    BY <1>6
  <2>2. Mantissa(e) * p = u * p
    BY <1>7
  <2> HIDE DEF u, p
  <2>3. Mantissa(e) = u
    BY <1>1, <1>5, <2>1, <2>2, PositiveFactor
  <2> QED BY <2>3 DEF u
<1> QED BY <1>6, <1>8, NormalMagnitude

\* A literal is its sign, its digits, its fraction length and its exponent.
LEMMA FieldByField ==
    ASSUME NEW a \in Literals, NEW b \in Literals,
           a.neg = b.neg, a.digits = b.digits, a.frac = b.frac, a.exp = b.exp
    PROVE  a = b
<1>1. a = [neg |-> a.neg, digits |-> a.digits, frac |-> a.frac, exp |-> a.exp]
  BY DEF Literals
<1>2. b = [neg |-> b.neg, digits |-> b.digits, frac |-> b.frac, exp |-> b.exp]
  BY DEF Literals
<1> QED BY <1>1, <1>2

\* Numbers that are equal in the exact comparison have the same canonical spelling.
THEOREM SameNumberSameSpelling ==
    ASSUME NEW a \in Literals, NEW b \in Literals, Compare(a, b) = 0
    PROVE  Canonical(a) = Canonical(b)
<1> DEFINE low == IF Scale(a) < Scale(b) THEN Scale(a) ELSE Scale(b)
           Zeros(n) == \A i \in DOMAIN n.digits : n.digits[i] = 0
<1>1. /\ Mantissa(a) \in Int /\ Mantissa(b) \in Int
      /\ Scale(a) \in Int /\ Scale(b) \in Int
  BY MantissaTyped
<1>2. /\ low \in Int /\ low <= Scale(a) /\ low <= Scale(b)
      /\ Scale(a) - low \in Nat /\ Scale(b) - low \in Nat
  BY <1>1
<1> HIDE DEF low
<1>3. Mantissa(a) * PowerOfTen[Scale(a) - low] = Mantissa(b) * PowerOfTen[Scale(b) - low]
  BY <1>2, CompareInUnits
<1>4. /\ PowerOfTen[Scale(a) - low] \in Int /\ PowerOfTen[Scale(a) - low] > 0
      /\ PowerOfTen[Scale(b) - low] \in Int /\ PowerOfTen[Scale(b) - low] > 0
  BY <1>2, PowerPositive
<1>5. Mantissa(a) = 0 <=> Mantissa(b) = 0
  <2>1. ASSUME NEW u \in Int, NEW p \in Int, p > 0 PROVE u * p = 0 <=> u = 0
    <3>1. u * p = 0 * p <=> u = 0
      BY <2>1, PositiveFactor
    <3>2. 0 * p = 0
      OBVIOUS
    <3> QED BY <3>1, <3>2
  <2> QED BY <1>1, <1>3, <1>4, <2>1
<1>6. CASE Zeros(a) /\ Zeros(b)
  BY <1>6, CanonicalOfZero
<1>7. CASE ~ Zeros(a) /\ ~ Zeros(b)
  <2> DEFINE c == Canonical(a)
             e == Canonical(b)
  <2>1. /\ Normal(c) /\ Normal(e)
    BY <1>7, CanonicalOfOther
  <2>2. /\ low <= Scale(c) /\ low <= Scale(e)
        /\ Mantissa(c) * PowerOfTen[Scale(c) - low]
             = Mantissa(e) * PowerOfTen[Scale(e) - low]
    BY <1>2, <1>3, <1>7, CanonicalInUnits
  <2> HIDE DEF c, e
  <2>3. /\ Mantissa(c) \in Int /\ Scale(c) \in Int
        /\ Mantissa(e) \in Int /\ Scale(e) \in Int
    BY <2>1, MantissaTyped DEF Normal
  <2>4. Scale(c) = Scale(e)
    <3>1. Scale(c) <= Scale(e)
      BY <1>2, <2>1, <2>2, NormalScale
    <3>2. Scale(e) <= Scale(c)
      BY <1>2, <2>1, <2>2, NormalScale
    <3> QED BY <2>3, <3>1, <3>2
  <2>5. Mantissa(c) = Mantissa(e)
    <3>1. Scale(c) - low \in Nat
      BY <1>2, <2>2, <2>3
    <3>2. PowerOfTen[Scale(c) - low] \in Int /\ PowerOfTen[Scale(c) - low] > 0
      BY <3>1, PowerPositive
    <3> QED BY <2>2, <2>3, <2>4, <3>2, PositiveFactor
  <2>6. /\ Magnitude(c) \in Nat /\ Magnitude(c) > 0
        /\ Magnitude(e) \in Nat /\ Magnitude(e) > 0
    BY <2>1, NormalMagnitude
  <2>7. c \in Literals /\ e \in Literals /\ c.neg \in BOOLEAN /\ e.neg \in BOOLEAN
    BY <2>1 DEF Normal, Literals
  <2>8. c.neg = e.neg /\ Magnitude(c) = Magnitude(e)
    BY <2>5, <2>6, <2>7 DEF Mantissa
  <2>9. c.digits = e.digits
    <3>1. /\ c.digits \in Seq(0..9) /\ Len(c.digits) > 0 /\ c.digits[1] # 0
          /\ e.digits \in Seq(0..9) /\ Len(e.digits) > 0 /\ e.digits[1] # 0
      BY <2>1 DEF Normal, Literals
    <3>2. Leading(c.digits)[Len(c.digits)] = Leading(e.digits)[Len(e.digits)]
      BY <2>8 DEF Magnitude
    <3> QED BY <3>1, <3>2, DigitsUnique
  <2>10. c.frac = e.frac /\ c.exp = e.exp
    BY <2>1, <2>4, <2>7 DEF Normal, Scale, Literals
  <2>11. c = e
    BY <2>7, <2>8, <2>9, <2>10, FieldByField
  <2> QED BY <2>11 DEF c, e
<1>8. Zeros(a) <=> Zeros(b)
  BY <1>5, CanonicalOfZero, CanonicalOfOther
<1> QED BY <1>6, <1>7, <1>8

\* The two ways in which the code tells numbers apart agree: request digests by
\* canonical spelling (canonicalDiscoveryNumbers), parameter ceilings by exact
\* comparison (compareNumber).
THEOREM CanonicalExactly ==
    \A a, b \in Literals : Canonical(a) = Canonical(b) <=> Compare(a, b) = 0
BY SameSpellingSameNumber, SameNumberSameSpelling

-----------------------------------------------------------------------------
(* Integers. *)

LEMMA Multiples ==
    ASSUME NEW a \in Int, NEW p \in Int, p > 0
    PROVE  a % p = 0 <=> \E q \in Int : a = q * p
<1>1. ASSUME NEW q \in Int, a = q * p PROVE a % p = 0
  BY <1>1
<1>2. a = (a \div p) * p + (a % p) /\ a \div p \in Int
  OBVIOUS
<1>3. ASSUME a % p = 0 PROVE \E q \in Int : a = q * p
  <2>1. (a \div p) * p \in Int /\ a = (a \div p) * p
    BY <1>2, <1>3
  <2> QED BY <1>2, <2>1
<1> QED BY <1>1, <1>3

\* big.Rat's IsInt holds precisely of the numbers that are whole, in whatever units
\* they are counted.
LEMMA IntegerInUnits ==
    ASSUME NEW n \in Literals, NEW p \in Nat, Scale(n) + p \in Nat
    PROVE  IsInteger(n)
             <=> (Mantissa(n) * PowerOfTen[Scale(n) + p]) % PowerOfTen[p] = 0
<1> DEFINE u == Mantissa(n) * PowerOfTen[Scale(n) + p]
           w == PowerOfTen[p]
<1>1. Mantissa(n) \in Int /\ Scale(n) \in Int
  BY MantissaTyped
<1>2. /\ w \in Int /\ w > 0
      /\ PowerOfTen[Scale(n) + p] \in Int /\ PowerOfTen[Scale(n) + p] > 0
  BY PowerPositive
<1>3. u \in Int
  BY <1>1, <1>2
<1>4. CASE Scale(n) >= 0
  <2>0. Scale(n) \in Nat
    <3> HIDE DEF u, w
    <3> QED BY <1>1, <1>4
  <2>1. Scale(n) \in Nat /\ PowerOfTen[Scale(n) + p] = PowerOfTen[Scale(n)] * w
    BY <2>0, PowerSum
  <2>2. PowerOfTen[Scale(n)] \in Int
    BY <2>1, PowerPositive
  <2>3. /\ Mantissa(n) * PowerOfTen[Scale(n)] \in Int
        /\ u = (Mantissa(n) * PowerOfTen[Scale(n)]) * w
    BY <1>1, <1>2, <2>1, <2>2
  <2> HIDE DEF u, w
  <2>4. u % w = 0
    BY <1>2, <1>3, <2>3, Multiples
  <2> QED BY <1>4, <2>4 DEF u, w, IsInteger
<1>5. CASE Scale(n) < 0
  <2> DEFINE k == -Scale(n)
             f == PowerOfTen[k]
             g == PowerOfTen[Scale(n) + p]
  <2>1. k \in Nat /\ k + (Scale(n) + p) = p /\ ~ (Scale(n) >= 0)
    BY <1>1, <1>5
  <2>2. w = f * g
    <3> HIDE DEF k
    <3> QED BY <2>1, PowerSum
  <2>3. f \in Int /\ f > 0 /\ g \in Int /\ g > 0
    <3> HIDE DEF k
    <3> QED BY <1>2, <2>1, PowerPositive
  <2>4. IsInteger(n) <=> Mantissa(n) % f = 0
    BY <2>1 DEF IsInteger
  <2>5. u = Mantissa(n) * g
    OBVIOUS
  <2> HIDE DEF f, g, u, w
  <2>6. ASSUME NEW q \in Int PROVE Mantissa(n) = q * f <=> u = q * w
    <3>1. q * w = (q * f) * g /\ q * f \in Int
      BY <2>2, <2>3
    <3> QED BY <1>1, <2>3, <2>5, <3>1, PositiveFactor
  <2>7. /\ Mantissa(n) % f = 0 <=> \E q \in Int : Mantissa(n) = q * f
        /\ u % w = 0 <=> \E q \in Int : u = q * w
    BY <1>1, <1>2, <1>3, <2>3, Multiples
  <2> QED BY <2>4, <2>6, <2>7 DEF u, w
<1> QED BY <1>1, <1>4, <1>5
=============================================================================
