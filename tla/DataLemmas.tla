---------------------------- MODULE DataLemmas -----------------------------
(***************************************************************************)
(* Facts about data that the proofs of this project need.  Induction and   *)
(* recursion are stated over sets of numbers and functions, which the      *)
(* provers instantiate, where the library's theorems take predicates.  The *)
(* facts about lists are those of the community modules' operators.        *)
(***************************************************************************)
EXTENDS Integers, FiniteSets, FiniteSetTheorems, SequencesExt, SequenceTheorems,
        WellFoundedInduction, TLAPS

(* A set of numbers that is not empty has a least element.                 *)
LEMMA LeastElement ==
  ASSUME NEW S \in SUBSET Nat, S # {}
  PROVE  \E m \in S : \A n \in S : m <= n
<1> DEFINE R == OpToRel(<, Nat)
<1>1. PICK m \in S : \A n \in S : ~ (<<n, m>> \in R)
  <2> HIDE DEF R
  <2>1. IsWellFoundedOn(R, Nat)  BY NatLessThanWellFounded DEF R
  <2> QED  BY <2>1, WFMin
<1>2. \A x, y \in Nat : x < y => <<x, y>> \in R  BY DEF OpToRel
<1> HIDE DEF R
<1>3. \A n \in S : ~ (n < m)  BY <1>1, <1>2
<1> QED  BY <1>3

(* A set that holds 0 and is closed under successor holds every number.    *)
LEMMA NatSetInduction ==
  ASSUME NEW S \in SUBSET Nat, 0 \in S, \A n \in S : n + 1 \in S
  PROVE  S = Nat
<1> SUFFICES ASSUME S # Nat PROVE FALSE  OBVIOUS
<1>1. PICK x \in Nat \ S : \A y \in Nat \ S : x <= y
  BY LeastElement, Nat \ S # {}, Nat \ S \in SUBSET Nat
<1>2. x # 0 /\ x - 1 \in Nat /\ ~ (x <= x - 1)  BY <1>1
<1>3. x - 1 \in S  BY <1>1, <1>2
<1>4. (x - 1) + 1 = x  OBVIOUS
<1> QED  BY <1>3, <1>4

(* The same for the numbers up to a bound.                                 *)
LEMMA UpToInduction ==
  ASSUME NEW n \in Nat, NEW S, 0 \in S, \A i \in 0 .. n - 1 : i \in S => i + 1 \in S
  PROVE  \A i \in 0 .. n : i \in S
<1> DEFINE T == {i \in Nat : i <= n => i \in S}
<1>1. T = Nat
  <2>1. 0 \in T  OBVIOUS
  <2>2. \A i \in T : i + 1 \in T  OBVIOUS
  <2>3. T \in SUBSET Nat  OBVIOUS
  <2> HIDE DEF T
  <2> QED  BY <2>1, <2>2, <2>3, NatSetInduction
<1> QED  BY <1>1

(* The values of a recursive definition up to n: b, then g[1], g[2] ...    *)
(* applied in turn.                                                        *)
Recursion(n, S, b, g) ==
    {f \in [0 .. n -> S] : f[0] = b /\ \A i \in 1 .. n : f[i] = g[i][f[i - 1]]}

(* Such a definition has a value at every number up to n.                  *)
LEMMA RecursionExists ==
  ASSUME NEW n \in Nat, NEW S, NEW b \in S, NEW g \in [1 .. n -> [S -> S]]
  PROVE  \E f : f \in Recursion(n, S, b, g)
<1> DEFINE T == {m \in Nat : \E f : f \in Recursion(m, S, b, g)}
<1>1. 0 \in T
  <2>1. [i \in 0 .. 0 |-> b] \in Recursion(0, S, b, g)  BY DEF Recursion
  <2> QED  BY <2>1
<1>2. ASSUME NEW m \in 0 .. n - 1, m \in T  PROVE m + 1 \in T
  <2>1. PICK f : f \in Recursion(m, S, b, g)  BY <1>2
  <2> DEFINE h == [i \in 0 .. m + 1 |-> IF i <= m THEN f[i] ELSE g[m + 1][f[m]]]
  <2>2. h \in [0 .. m + 1 -> S]  BY <2>1 DEF Recursion
  <2>3. h[0] = b  BY <2>1 DEF Recursion
  <2>4. \A i \in 1 .. m + 1 : h[i] = g[i][h[i - 1]]  BY <2>1 DEF Recursion
  <2>5. h \in Recursion(m + 1, S, b, g)  BY <2>2, <2>3, <2>4 DEF Recursion
  <2> QED  BY <2>5, m + 1 \in Nat
<1> HIDE DEF T
<1>3. \A i \in 0 .. n : i \in T  BY <1>1, <1>2, UpToInduction
<1>4. n \in T  BY <1>3, n \in 0 .. n
<1> QED  BY <1>4 DEF T

-----------------------------------------------------------------------------
(* Arithmetic.                                                             *)
LEMMA TimesMonotone ==
  ASSUME NEW x \in Nat, NEW y \in Nat, NEW z \in Nat, x <= y
  PROVE  x * z <= y * z
<1>1. (y - x) * z >= 0  OBVIOUS
<1>2. (y - x) * z = (y * z) - (x * z)  OBVIOUS
<1>3. x * z \in Nat /\ y * z \in Nat  OBVIOUS
<1> QED  BY <1>1, <1>2, <1>3

(* A quotient and a remainder are determined by what they stand for.       *)
LEMMA QuotientUnique ==
  ASSUME NEW q \in Nat, NEW r \in Nat, NEW m \in Nat, r < m
  PROVE  ((q * m) + r) \div m = q /\ ((q * m) + r) % m = r
<1> DEFINE n == (q * m) + r
           p == n \div m
           s == n % m
<1>1. q * m \in Nat /\ n \in Nat  OBVIOUS
<1>2. p \in Int /\ s \in 0 .. m - 1 /\ (p * m) + s = n  BY <1>1
<1>3. p * m = (q * m) + r - s  BY <1>1, <1>2
<1> HIDE DEF p, s
<1>4. ~ (p < q)
  <2> SUFFICES ASSUME p < q  PROVE FALSE  OBVIOUS
  <2>1. (q - p) >= 1  BY <1>2
  <2>2. (q - p) * m >= m  BY <1>2, <2>1
  <2>3. (q - p) * m = (q * m) - (p * m)  BY <1>2
  <2>4. p * m \in Int  BY <1>2
  <2> QED  BY <1>1, <1>2, <1>3, <2>2, <2>3, <2>4
<1>5. ~ (q < p)
  <2> SUFFICES ASSUME q < p  PROVE FALSE  OBVIOUS
  <2>1. (p - q) >= 1  BY <1>2
  <2>2. (p - q) * m >= m  BY <1>2, <2>1
  <2>3. (p - q) * m = (p * m) - (q * m)  BY <1>2
  <2>4. p * m \in Int  BY <1>2
  <2> QED  BY <1>1, <1>2, <1>3, <2>2, <2>3, <2>4
<1>6. p = q  BY <1>2, <1>4, <1>5
<1>7. s = r  BY <1>1, <1>2, <1>3, <1>6
<1> QED  BY <1>6, <1>7 DEF p, s

(* Division with a remainder, where the divisor may be an expression.      *)
LEMMA Quotient ==
  ASSUME NEW n \in Nat, NEW m \in Nat, m > 0
  PROVE  /\ n \div m \in Nat
         /\ n % m \in 0 .. m - 1
         /\ ((n \div m) * m) + (n % m) = n
  OBVIOUS

(* Dividing twice is dividing by the product: a prefix of a prefix.        *)
LEMMA QuotientOfQuotient ==
  ASSUME NEW n \in Nat, NEW x \in Nat, x > 0, NEW y \in Nat, y > 0
  PROVE  (n \div x) \div y = n \div (y * x)
<1> DEFINE q == n \div x
           p == q \div y
           r == n % x
           s == q % y
           t == (s * x) + r
<1>1. q \in Nat /\ r \in 0 .. x - 1 /\ (q * x) + r = n  BY Quotient
<1>2. p \in Nat /\ s \in 0 .. y - 1 /\ (p * y) + s = q
  <2> HIDE DEF q
  <2> QED  BY <1>1, Quotient
<1> HIDE DEF p, q, r, s
<1>3. (p * (y * x)) + t = n
  <2>1. q * x = ((p * y) * x) + (s * x)  BY <1>1, <1>2
  <2>2. (p * y) * x = p * (y * x)  BY <1>2
  <2>3. s * x \in Nat /\ p * (y * x) \in Nat  BY <1>2
  <2> QED  BY <1>1, <2>1, <2>2, <2>3
<1>4. t \in Nat /\ t < y * x
  <2>1. s * x <= (y - 1) * x  BY <1>2, TimesMonotone
  <2>2. (y - 1) * x = (y * x) - x  OBVIOUS
  <2>3. s * x \in Nat /\ y * x \in Nat  BY <1>2
  <2> QED  BY <1>1, <2>1, <2>2, <2>3
<1>5. y * x \in Nat  OBVIOUS
<1> HIDE DEF t
<1>6. n \div (y * x) = p  BY <1>2, <1>3, <1>4, <1>5, QuotientUnique
<1> QED  BY <1>6 DEF p, q

(* The powers of a base, up to the n-th.                                   *)
PowersUpTo(base, n, f) == [d \in 0 .. n |-> IF d = 0 THEN 1 ELSE base * f[d - 1]]

LEMMA PowersExist ==
  ASSUME NEW base \in Nat, NEW n \in Nat
  PROVE  \E f : f = PowersUpTo(base, n, f)
<1> DEFINE g == [i \in 1 .. n |-> [x \in Nat |-> base * x]]
<1>1. g \in [1 .. n -> [Nat -> Nat]]  OBVIOUS
<1>2. PICK f : f \in Recursion(n, Nat, 1, g)
  <2> HIDE DEF g
  <2> QED  BY <1>1, RecursionExists
<1>3. f \in [0 .. n -> Nat] /\ f[0] = 1 /\ \A i \in 1 .. n : f[i] = g[i][f[i - 1]]
  BY <1>2 DEF Recursion
<1>4. \A d \in 0 .. n : f[d] = IF d = 0 THEN 1 ELSE base * f[d - 1]
  <2> TAKE d \in 0 .. n
  <2>1. CASE d = 0  BY <1>3, <2>1
  <2>2. CASE d # 0
    <3>1. d \in 1 .. n /\ d - 1 \in 0 .. n  BY <2>2
    <3>2. f[d - 1] \in Nat  BY <1>3, <3>1
    <3> QED  BY <1>3, <2>2, <3>1, <3>2
  <2> QED  BY <2>1, <2>2
<1> QED  BY <1>3, <1>4 DEF PowersUpTo

LEMMA PowersProperties ==
  ASSUME NEW base \in Nat, base > 0, NEW n \in Nat, NEW P, P = PowersUpTo(base, n, P)
  PROVE  /\ P[0] = 1
         /\ \A d \in 0 .. n : P[d] \in Nat /\ P[d] > 0
         /\ \A d \in 0 .. n - 1 : P[d + 1] = base * P[d]
<1>1. \A d \in 0 .. n : P[d] = IF d = 0 THEN 1 ELSE base * P[d - 1]  BY DEF PowersUpTo
<1>2. \A d \in 0 .. n - 1 : P[d + 1] = base * P[d]
  <2> TAKE d \in 0 .. n - 1
  <2>1. d + 1 \in 0 .. n /\ d + 1 # 0 /\ (d + 1) - 1 = d  OBVIOUS
  <2> QED  BY <1>1, <2>1
<1>3. P[0] = 1  BY <1>1
<1>4. \A d \in 0 .. n : P[d] \in Nat /\ P[d] > 0
  <2> DEFINE U == {d \in Nat : P[d] \in Nat /\ P[d] > 0}
  <2>1. 0 \in U  BY <1>3
  <2>2. ASSUME NEW d \in 0 .. n - 1, d \in U  PROVE d + 1 \in U
    <3>1. P[d + 1] = base * P[d]  BY <1>2
    <3>2. P[d] \in Nat /\ P[d] > 0  BY <2>2
    <3>3. base * P[d] \in Nat /\ base * P[d] > 0  BY <3>2
    <3> QED  BY <3>1, <3>3
  <2> HIDE DEF U
  <2>3. \A d \in 0 .. n : d \in U  BY <2>1, <2>2, UpToInduction
  <2> QED  BY <2>3 DEF U
<1> QED  BY <1>2, <1>3, <1>4

(* The power of a sum is the product of the powers.                        *)
LEMMA PowersOfSum ==
  ASSUME NEW base \in Nat, base > 0, NEW n \in Nat, NEW P, P = PowersUpTo(base, n, P),
         NEW i \in 0 .. n
  PROVE  \A j \in 0 .. n - i : P[i + j] = P[i] * P[j]
<1> DEFINE U == {j \in Nat : P[i + j] = P[i] * P[j]}
<1>1. /\ P[0] = 1
      /\ \A d \in 0 .. n : P[d] \in Nat
      /\ \A d \in 0 .. n - 1 : P[d + 1] = base * P[d]
  BY PowersProperties
<1>2. 0 \in U  BY <1>1
<1>3. ASSUME NEW j \in 0 .. (n - i) - 1, j \in U  PROVE j + 1 \in U
  <2>1. /\ i + j \in 0 .. n - 1 /\ j \in 0 .. n - 1 /\ i + (j + 1) = (i + j) + 1 /\ j \in 0 .. n
    OBVIOUS
  <2>2. P[i + (j + 1)] = base * P[i + j] /\ P[j + 1] = base * P[j]  BY <1>1, <2>1
  <2>3. P[i + j] = P[i] * P[j] /\ P[i] \in Nat /\ P[j] \in Nat  BY <1>1, <1>3, <2>1
  <2>4. base * (P[i] * P[j]) = P[i] * (base * P[j])  BY <2>3
  <2> QED  BY <2>2, <2>3, <2>4
<1>4. n - i \in Nat  OBVIOUS
<1> HIDE DEF U
<1>5. \A j \in 0 .. n - i : j \in U  BY <1>2, <1>3, <1>4, UpToInduction
<1> QED  BY <1>5 DEF U

-----------------------------------------------------------------------------
(* The part of a list that was gone through, extended.                    *)
LEMMA ConcatPrefix ==
  ASSUME NEW S, NEW r \in Seq(S), NEW q \in Seq(S), NEW i \in 0 .. Len(q) - 1
  PROVE  Append(r \o SubSeq(q, 1, i), q[i + 1]) = r \o SubSeq(q, 1, i + 1)
  BY SMTT(40)

(* RemoveFirst takes out an occurrence of the element, if there is one.    *)
WithoutPlace(r, q, x) ==
    /\ Len(r) = Len(q) - 1
    /\ \A n \in 1 .. Len(q) - 1 : r[n] = IF n < x THEN q[n] ELSE q[n + 1]

LEMMA RemoveFirstProperties ==
  ASSUME NEW S, NEW q \in Seq(S), NEW e, NEW i \in 1 .. Len(q), q[i] = e
  PROVE  \E j \in 1 .. Len(q) :
            /\ q[j] = e
            /\ RemoveFirst(q, e) \in Seq(S)
            /\ WithoutPlace(RemoveFirst(q, e), q, j)
<1> DEFINE I == {n \in 1 .. Len(q) : q[n] = e}
           j == Min(I)
<1>1. PICK m \in I : \A n \in I : m <= n  BY LeastElement, I \in SUBSET Nat, i \in I
<1>2. j \in I  BY <1>1 DEF Min
<1>3. RemoveFirst(q, e) = RemoveAt(q, j)  BY DEF RemoveFirst, SelectInSeq
<1>4. \A x \in 1 .. Len(q) :
        /\ RemoveAt(q, x) \in Seq(S)
        /\ WithoutPlace(RemoveAt(q, x), q, x)
  <2> TAKE x \in 1 .. Len(q)
  <2> DEFINE a == SubSeq(q, 1, x - 1)
             b == SubSeq(q, x + 1, Len(q))
  <2>1. /\ a \in Seq(S) /\ Len(a) = x - 1 /\ \A n \in 1 .. x - 1 : a[n] = q[n]
        /\ b \in Seq(S) /\ Len(b) = Len(q) - x
        /\ \A n \in 1 .. Len(q) - x : b[n] = q[n + x]
    OBVIOUS
  <2>2. RemoveAt(q, x) = a \o b  BY DEF RemoveAt
  <2> HIDE DEF a, b
  <2>3. /\ a \o b \in Seq(S) /\ Len(a \o b) = Len(q) - 1
        /\ \A n \in 1 .. Len(q) - 1 :
              (a \o b)[n] = IF n < x THEN q[n] ELSE q[n + 1]
    <3>1. a \o b \in Seq(S) /\ Len(a \o b) = Len(q) - 1
      <4>0. a \in Seq(S) /\ b \in Seq(S)  BY <2>1
      <4>1. a \o b \in Seq(S)  BY <2>1
      <4>2. Len(a \o b) = Len(a) + Len(b)  BY <4>0, ConcatProperties
      <4>3. Len(a) + Len(b) = Len(q) - 1  BY <2>1
      <4> QED  BY <4>1, <4>2, <4>3
    <3>2. ASSUME NEW n \in 1 .. Len(q) - 1, n < x  PROVE (a \o b)[n] = q[n]
      BY <2>1, <3>2
    <3>3. ASSUME NEW n \in 1 .. Len(q) - 1, ~ (n < x)  PROVE (a \o b)[n] = q[n + 1]
      <4>1. (a \o b)[n] = b[n - (x - 1)]  BY <2>1, <3>3
      <4>2. n - (x - 1) \in 1 .. Len(q) - x /\ (n - (x - 1)) + x = n + 1  BY <3>3
      <4> QED  BY <2>1, <4>1, <4>2
    <3> QED  BY <3>1, <3>2, <3>3
  <2> QED  BY <2>2, <2>3 DEF WithoutPlace
<1> QED  BY <1>2, <1>3, <1>4

LEMMA RemoveFirstType ==
  ASSUME NEW S, NEW q \in Seq(S), NEW e
  PROVE  RemoveFirst(q, e) \in Seq(S)
<1>1. CASE \E i \in 1 .. Len(q) : q[i] = e  BY <1>1, RemoveFirstProperties
<1>2. CASE ~ \E i \in 1 .. Len(q) : q[i] = e  BY <1>2 DEF RemoveFirst
<1> QED  BY <1>1, <1>2

(* Lists without repetition, and the sets of their elements.               *)
LEMMA ListElements ==
  ASSUME NEW S, NEW q \in Seq(S)
  PROVE  /\ Len(q) \in Nat
         /\ ToSet(q) = {q[i] : i \in 1 .. Len(q)}
         /\ ToSet(q) \subseteq S
         /\ IsInjective(q) <=> \A i, j \in 1 .. Len(q) : q[i] = q[j] => i = j
<1>1. Len(q) \in Nat /\ DOMAIN q = 1 .. Len(q) /\ \A i \in 1 .. Len(q) : q[i] \in S  OBVIOUS
<1>2. ToSet(q) = {q[i] : i \in 1 .. Len(q)}  BY <1>1 DEF ToSet
<1>3. ToSet(q) \subseteq S  BY <1>1, <1>2
<1>4. IsInjective(q) <=> \A i, j \in 1 .. Len(q) : q[i] = q[j] => i = j
  BY <1>1 DEF IsInjective
<1> QED  BY <1>1, <1>2, <1>3, <1>4

LEMMA InjectiveAppend ==
  ASSUME NEW S, NEW q \in Seq(S), IsInjective(q), NEW e \in S, e \notin ToSet(q)
  PROVE  /\ IsInjective(Append(q, e))
         /\ ToSet(Append(q, e)) = ToSet(q) \cup {e}
         /\ Append(q, e) # <<>>
         /\ q # <<>> => Head(Append(q, e)) = Head(q)
<1> DEFINE r == Append(q, e)
           n == Len(q)
<1>1. /\ r \in Seq(S) /\ r # <<>> /\ Len(r) = n + 1
      /\ r[n + 1] = e /\ \A i \in 1 .. n : r[i] = q[i]
  BY AppendProperties
<1>2. n \in Nat /\ ToSet(q) = {q[i] : i \in 1 .. n}
      /\ \A i, j \in 1 .. n : q[i] = q[j] => i = j
  BY ListElements
<1>3. ToSet(r) = {r[i] : i \in 1 .. n + 1}
  <2> HIDE DEF r, n
  <2>1. ToSet(r) = {r[i] : i \in 1 .. Len(r)}  BY <1>1, ListElements
  <2> QED  BY <1>1, <2>1
<1>4. q # <<>> => Head(r) = Head(q)  BY HeadTailAppend
<1> HIDE DEF r, n
<1>5. \A i \in 1 .. n : q[i] # e  BY <1>2
<1>6. \A i, j \in 1 .. n + 1 : r[i] = r[j] => i = j
  <2> TAKE i, j \in 1 .. n + 1
  <2>1. (i \in 1 .. n \/ i = n + 1) /\ (j \in 1 .. n \/ j = n + 1)  BY <1>2
  <2> QED  BY <1>1, <1>2, <1>5, <2>1
<1>7. ToSet(r) = ToSet(q) \cup {e}
  <2>1. ASSUME NEW x \in ToSet(r)  PROVE x \in ToSet(q) \cup {e}
    <3>1. PICK i \in 1 .. n + 1 : x = r[i]  BY <1>3
    <3>2. i \in 1 .. n \/ i = n + 1  BY <1>2
    <3> QED  BY <1>1, <1>2, <3>1, <3>2
  <2>2. ASSUME NEW x \in ToSet(q) \cup {e}  PROVE x \in ToSet(r)
    <3>1. CASE x = e  BY <1>1, <1>2, <1>3, <3>1, n + 1 \in 1 .. n + 1
    <3>2. CASE x \in ToSet(q)
      <4>1. PICK i \in 1 .. n : x = q[i]  BY <1>2, <3>2
      <4>2. i \in 1 .. n + 1  BY <1>2
      <4> QED  BY <1>1, <1>3, <4>1, <4>2
    <3> QED  BY <3>1, <3>2
  <2> QED  BY <2>1, <2>2
<1> QED  BY <1>1, <1>4, <1>6, <1>7, ListElements DEF r, n

LEMMA InjectiveTail ==
  ASSUME NEW S, NEW q \in Seq(S), IsInjective(q), q # <<>>
  PROVE  /\ IsInjective(Tail(q))
         /\ ToSet(Tail(q)) = ToSet(q) \ {Head(q)}
         /\ Head(q) \in ToSet(q)
<1> DEFINE r == Tail(q)
           n == Len(q)
<1>1. /\ r \in Seq(S) /\ Len(r) = n - 1 /\ Head(q) = q[1]
      /\ \A i \in 1 .. n - 1 : r[i] = q[i + 1]
  BY HeadTailProperties
<1>2. n \in Nat /\ n # 0 /\ ToSet(q) = {q[i] : i \in 1 .. n}
      /\ \A i, j \in 1 .. n : q[i] = q[j] => i = j
  BY ListElements
<1>3. ToSet(r) = {r[i] : i \in 1 .. n - 1}
  <2>1. ToSet(r) = {r[i] : i \in 1 .. Len(r)}  BY <1>1, ListElements
  <2> HIDE DEF r
  <2> QED  BY <1>1, <2>1
<1> HIDE DEF r, n
<1>4. \A i \in 1 .. n - 1 : i + 1 \in 1 .. n /\ i + 1 # 1  BY <1>2
<1>5. \A i, j \in 1 .. n - 1 : r[i] = r[j] => i = j
  <2> TAKE i, j \in 1 .. n - 1
  <2>1. r[i] = r[j] => i + 1 = j + 1  BY <1>1, <1>2, <1>4
  <2> QED  BY <2>1
<1>6. ToSet(r) = ToSet(q) \ {q[1]}
  <2>1. ASSUME NEW x \in ToSet(r)  PROVE x \in ToSet(q) \ {q[1]}
    <3>1. PICK i \in 1 .. n - 1 : x = r[i]  BY <1>3
    <3>2. x = q[i + 1] /\ i + 1 \in 1 .. n /\ i + 1 # 1 /\ 1 \in 1 .. n  BY <1>1, <1>2, <1>4, <3>1
    <3> QED  BY <1>2, <3>2
  <2>2. ASSUME NEW x \in ToSet(q) \ {q[1]}  PROVE x \in ToSet(r)
    <3>1. PICK i \in 1 .. n : x = q[i]  BY <1>2
    <3>2. i - 1 \in 1 .. n - 1 /\ (i - 1) + 1 = i  BY <1>2, <3>1
    <3> QED  BY <1>1, <1>3, <3>1, <3>2
  <2> QED  BY <2>1, <2>2
<1>7. q[1] \in ToSet(q)
  <2>1. 1 \in 1 .. n  BY <1>2
  <2> QED  BY <1>2, <2>1
<1> QED  BY <1>1, <1>5, <1>6, <1>7, ListElements DEF r, n

LEMMA InjectiveConcat ==
  ASSUME NEW S, NEW q \in Seq(S), NEW r \in Seq(S), IsInjective(q), IsInjective(r),
         ToSet(q) \cap ToSet(r) = {}
  PROVE  /\ IsInjective(q \o r)
         /\ ToSet(q \o r) = ToSet(q) \cup ToSet(r)
         /\ q # <<>> => q \o r # <<>> /\ Head(q \o r) = Head(q)
<1> DEFINE c == q \o r
           m == Len(q)
           n == Len(r)
<1>1. /\ c \in Seq(S) /\ Len(c) = m + n
      /\ \A i \in 1 .. m + n : c[i] = IF i <= m THEN q[i] ELSE r[i - m]
  BY ConcatProperties
<1>2. /\ m \in Nat /\ ToSet(q) = {q[i] : i \in 1 .. m}
      /\ \A i, j \in 1 .. m : q[i] = q[j] => i = j
      /\ n \in Nat /\ ToSet(r) = {r[i] : i \in 1 .. n}
      /\ \A i, j \in 1 .. n : r[i] = r[j] => i = j
  BY ListElements
<1>3. ToSet(c) = {c[i] : i \in 1 .. m + n}
  <2> HIDE DEF c, m, n
  <2>1. ToSet(c) = {c[i] : i \in 1 .. Len(c)}  BY <1>1, ListElements
  <2> QED  BY <1>1, <2>1
<1>4. q # <<>> => c # <<>> /\ Head(c) = Head(q)
  <2> SUFFICES ASSUME q # <<>>  PROVE c # <<>> /\ Head(c) = Head(q)  OBVIOUS
  <2>1. m # 0  BY EmptySeq
  <2>2. c # <<>>  BY <1>1, <1>2, <2>1
  <2>3. Head(c) = c[1] /\ Head(q) = q[1]  BY <1>1, <2>2
  <2>4. c[1] = q[1]  BY <1>1, <1>2, <2>1
  <2> QED  BY <2>2, <2>3, <2>4
<1> HIDE DEF c, m, n
<1>5. /\ \A i \in 1 .. m : i \in 1 .. m + n /\ c[i] = q[i]
      /\ \A i \in 1 .. n : m + i \in 1 .. m + n /\ c[m + i] = r[i]
      /\ \A i \in 1 .. m + n : i \in 1 .. m \/ (i - m \in 1 .. n /\ i = m + (i - m))
  <2>1. \A i \in 1 .. m : i \in 1 .. m + n /\ c[i] = q[i]  BY <1>1, <1>2
  <2>2. \A i \in 1 .. n : m + i \in 1 .. m + n /\ c[m + i] = r[i]
    <3> TAKE i \in 1 .. n
    <3>1. m + i \in 1 .. m + n /\ ~ (m + i <= m) /\ (m + i) - m = i  BY <1>2
    <3> QED  BY <1>1, <3>1
  <2>3. \A i \in 1 .. m + n : i \in 1 .. m \/ (i - m \in 1 .. n /\ i = m + (i - m))  BY <1>2
  <2> QED  BY <2>1, <2>2, <2>3
<1>6. \A i \in 1 .. m, j \in 1 .. n : q[i] # r[j]  BY <1>2
<1>7. \A i, j \in 1 .. m + n : c[i] = c[j] => i = j
  <2> SUFFICES ASSUME NEW i \in 1 .. m + n, NEW j \in 1 .. m + n, c[i] = c[j]
               PROVE  i = j
    OBVIOUS
  <2>1. CASE i \in 1 .. m /\ j \in 1 .. m  BY <1>2, <1>5, <2>1
  <2>2. CASE i \in 1 .. m /\ j \notin 1 .. m  BY <1>5, <1>6, <2>2
  <2>3. CASE i \notin 1 .. m /\ j \in 1 .. m  BY <1>5, <1>6, <2>3
  <2>4. CASE i \notin 1 .. m /\ j \notin 1 .. m
    <3>1. i - m \in 1 .. n /\ j - m \in 1 .. n /\ i = m + (i - m) /\ j = m + (j - m)
      BY <1>5, <2>4
    <3>2. r[i - m] = r[j - m]  BY <1>5, <3>1
    <3> QED  BY <1>2, <3>1, <3>2
  <2> QED  BY <2>1, <2>2, <2>3, <2>4
<1>8. ToSet(c) = ToSet(q) \cup ToSet(r)
  <2>1. ASSUME NEW x \in ToSet(c)  PROVE x \in ToSet(q) \cup ToSet(r)
    <3>1. PICK i \in 1 .. m + n : x = c[i]  BY <1>3, <2>1
    <3>2. CASE i \in 1 .. m  BY <1>2, <1>5, <3>1, <3>2
    <3>3. CASE i - m \in 1 .. n /\ i = m + (i - m)
      <4>1. x = r[i - m]  BY <1>5, <3>1, <3>3
      <4> QED  BY <1>2, <3>3, <4>1
    <3> QED  BY <1>5, <3>2, <3>3
  <2>2. ASSUME NEW x \in ToSet(q) \cup ToSet(r)  PROVE x \in ToSet(c)
    BY <1>2, <1>3, <1>5, <2>2
  <2> QED  BY <2>1, <2>2
<1> QED  BY <1>1, <1>4, <1>7, <1>8, ListElements DEF c, m, n

LEMMA InjectiveRemove ==
  ASSUME NEW S, NEW q \in Seq(S), IsInjective(q), NEW e
  PROVE  /\ IsInjective(RemoveFirst(q, e))
         /\ ToSet(RemoveFirst(q, e)) = ToSet(q) \ {e}
         /\ q # <<>> /\ Head(q) # e =>
               RemoveFirst(q, e) # <<>> /\ Head(RemoveFirst(q, e)) = Head(q)
<1> DEFINE r == RemoveFirst(q, e)
           n == Len(q)
<1>1. n \in Nat /\ ToSet(q) = {q[i] : i \in 1 .. n}
      /\ \A i, j \in 1 .. n : q[i] = q[j] => i = j
  BY ListElements
<1>2. CASE ~ \E i \in 1 .. n : q[i] = e
  <2>1. r = q  BY <1>2 DEF RemoveFirst
  <2>2. e \notin ToSet(q)  BY <1>1, <1>2
  <2> QED  BY <2>1, <2>2
<1>3. CASE \E i \in 1 .. n : q[i] = e
  <2>1. PICK x \in 1 .. n :
           /\ q[x] = e /\ r \in Seq(S) /\ Len(r) = n - 1
           /\ \A i \in 1 .. n - 1 : r[i] = IF i < x THEN q[i] ELSE q[i + 1]
    <3>1. PICK i \in 1 .. Len(q) : q[i] = e  BY <1>3
    <3>2. PICK x \in 1 .. Len(q) :
             q[x] = e /\ RemoveFirst(q, e) \in Seq(S) /\ WithoutPlace(RemoveFirst(q, e), q, x)
      BY <3>1, RemoveFirstProperties
    <3> QED  BY <3>2 DEF WithoutPlace
  <2>2. ToSet(r) = {r[i] : i \in 1 .. n - 1}
    <3>1. ToSet(r) = {r[i] : i \in 1 .. Len(r)}  BY <2>1, ListElements
    <3> HIDE DEF r, n
    <3> QED  BY <2>1, <3>1
  <2>3. q # <<>> /\ Head(q) # e => r # <<>> /\ Head(r) = Head(q)
    <3> SUFFICES ASSUME q # <<>>, Head(q) # e  PROVE r # <<>> /\ Head(r) = Head(q)
      OBVIOUS
    <3>1. Head(q) = q[1]  OBVIOUS
    <3>2. x > 1 /\ n - 1 >= 1  BY <1>1, <2>1, <3>1
    <3>3. r # <<>> /\ r[1] = q[1]  BY <1>1, <2>1, <3>2
    <3>4. Head(r) = r[1]  BY <2>1, <3>3
    <3> QED  BY <3>1, <3>3, <3>4
  <2> HIDE DEF r, n
  <2>4. \A i \in 1 .. n - 1 :
           LET s == IF i < x THEN i ELSE i + 1
           IN  s \in 1 .. n /\ s # x /\ r[i] = q[s]
    BY <1>1, <2>1
  <2>5. \A i, j \in 1 .. n - 1 : r[i] = r[j] => i = j
    <3> SUFFICES ASSUME NEW i \in 1 .. n - 1, NEW j \in 1 .. n - 1, r[i] = r[j]
                 PROVE  i = j
      OBVIOUS
    <3>1. (IF i < x THEN i ELSE i + 1) = (IF j < x THEN j ELSE j + 1)  BY <1>1, <2>4
    <3> QED  BY <1>1, <2>1, <3>1
  <2>6. ToSet(r) = ToSet(q) \ {e}
    <3>1. ASSUME NEW y \in ToSet(r)  PROVE y \in ToSet(q) \ {e}
      <4>1. PICK i \in 1 .. n - 1 : y = r[i]  BY <2>2
      <4>2. PICK s \in 1 .. n : s # x /\ y = q[s]  BY <2>4, <4>1
      <4> QED  BY <1>1, <2>1, <4>2
    <3>2. ASSUME NEW y \in ToSet(q) \ {e}  PROVE y \in ToSet(r)
      <4>1. PICK s \in 1 .. n : y = q[s] /\ s # x  BY <1>1, <2>1
      <4>2. CASE s < x  BY <1>1, <2>1, <2>2, <4>1, <4>2, s \in 1 .. n - 1
      <4>3. CASE s > x
        <5>1. s - 1 \in 1 .. n - 1 /\ ~ (s - 1 < x) /\ (s - 1) + 1 = s  BY <1>1, <2>1, <4>3
        <5> QED  BY <2>1, <2>2, <4>1, <5>1
      <4> QED  BY <1>1, <2>1, <4>1, <4>2, <4>3
    <3> QED  BY <3>1, <3>2
  <2> QED  BY <1>1, <2>1, <2>3, <2>5, <2>6, ListElements DEF r, n
<1> QED  BY <1>2, <1>3

(* What is removed is removed from the tail, unless it is the head.        *)
LEMMA RemoveFromTail ==
  ASSUME NEW S, NEW q \in Seq(S), IsInjective(q), q # <<>>, NEW e, Head(q) # e
  PROVE  Tail(RemoveFirst(q, e)) = RemoveFirst(Tail(q), e)
<1> DEFINE n == Len(q)
           r == Tail(q)
<1>1. /\ n \in Nat /\ n > 0 /\ r \in Seq(S) /\ Len(r) = n - 1
      /\ \A i \in 1 .. n - 1 : r[i] = q[i + 1]
  OBVIOUS
<1>2. CASE ~ \E i \in 1 .. n : q[i] = e
  <2>1. ~ \E i \in 1 .. Len(r) : r[i] = e  BY <1>1, <1>2
  <2> QED  BY <1>2, <2>1 DEF RemoveFirst
<1>3. CASE \E i \in 1 .. n : q[i] = e
  <2>1. PICK j \in 1 .. n : /\ q[j] = e /\ RemoveFirst(q, e) \in Seq(S)
                            /\ WithoutPlace(RemoveFirst(q, e), q, j)
    BY <1>3, RemoveFirstProperties
  <2>2. j # 1  BY <2>1
  <2>3. j - 1 \in 1 .. Len(r) /\ r[j - 1] = e  BY <1>1, <2>1, <2>2
  <2> HIDE DEF r
  <2>4. PICK h \in 1 .. Len(r) : /\ r[h] = e /\ RemoveFirst(r, e) \in Seq(S)
                                 /\ WithoutPlace(RemoveFirst(r, e), r, h)
    BY <1>1, <2>3, RemoveFirstProperties
  <2>5. h = j - 1
    <3>1. h + 1 \in 1 .. n /\ q[h + 1] = e  BY <1>1, <2>4
    <3>2. h + 1 = j  BY <2>1, <3>1, ListElements
    <3> QED  BY <1>1, <2>1, <2>4, <3>2
  <2> DEFINE a == RemoveFirst(q, e)
             b == RemoveFirst(r, e)
  <2>6. /\ a \in Seq(S) /\ b \in Seq(S) /\ Len(a) = n - 1 /\ Len(b) = n - 2 /\ n >= 2
        /\ \A i \in 1 .. n - 1 : a[i] = IF i < j THEN q[i] ELSE q[i + 1]
        /\ \A i \in 1 .. n - 2 : b[i] = IF i < j - 1 THEN r[i] ELSE r[i + 1]
    BY <1>1, <2>1, <2>2, <2>4, <2>5 DEF WithoutPlace
  <2> HIDE DEF a, b
  <2> DEFINE c == Tail(a)
  <2>7. c \in Seq(S) /\ Len(c) = n - 2 /\ \A i \in 1 .. n - 2 : c[i] = a[i + 1]
    BY <2>6
  <2> HIDE DEF c
  <2>8. \A i \in 1 .. n - 2 : c[i] = b[i]
    <3> TAKE i \in 1 .. n - 2
    <3>1. i + 1 \in 1 .. n - 1 /\ i \in 1 .. n - 1 /\ (i + 1 < j <=> i < j - 1)  BY <1>1
    <3>2. c[i] = IF i + 1 < j THEN q[i + 1] ELSE q[(i + 1) + 1]  BY <2>6, <2>7, <3>1
    <3>3. b[i] = IF i < j - 1 THEN q[i + 1] ELSE q[(i + 1) + 1]  BY <1>1, <2>6, <3>1
    <3> QED  BY <3>1, <3>2, <3>3
  <2>9. c = b
    <3>1. c = [i \in 1 .. n - 2 |-> c[i]] /\ b = [i \in 1 .. n - 2 |-> b[i]]
      BY <2>6, <2>7
    <3> QED  BY <2>8, <3>1
  <2> QED  BY <2>9 DEF a, b, c, r
<1> QED  BY <1>2, <1>3

(* Tails and ends of lists that are joined.                                *)
LEMMA TailOfConcat ==
  ASSUME NEW S, NEW q \in Seq(S), NEW r \in Seq(S), q # <<>>
  PROVE  Tail(q \o r) = Tail(q) \o r /\ Head(q \o r) = Head(q)
  OBVIOUS

LEMMA AppendToConcat ==
  ASSUME NEW S, NEW q \in Seq(S), NEW r \in Seq(S), NEW e \in S
  PROVE  Append(q \o r, e) = q \o (r \o <<e>>) /\ q \o (r \o <<>>) = q \o r
<1> DEFINE m == Len(q)
           n == Len(r)
           a == Append(q \o r, e)
           b == r \o <<e>>
           c == q \o b
<1>1. m \in Nat /\ n \in Nat /\ q \o r \in Seq(S) /\ Len(q \o r) = m + n
      /\ \A i \in 1 .. m + n : (q \o r)[i] = IF i <= m THEN q[i] ELSE r[i - m]
  BY ConcatProperties
<1>2. a \in Seq(S) /\ Len(a) = m + n + 1 /\ a[m + n + 1] = e
      /\ \A i \in 1 .. m + n : a[i] = (q \o r)[i]
  <2> HIDE DEF m, n
  <2> QED  BY <1>1, AppendProperties
<1>3. <<e>> \in Seq(S) /\ Len(<<e>>) = 1 /\ <<e>>[1] = e  OBVIOUS
<1>4. b \in Seq(S) /\ Len(b) = n + 1
      /\ \A i \in 1 .. n + 1 : b[i] = IF i <= n THEN r[i] ELSE <<e>>[i - n]
  BY <1>3, ConcatProperties
<1>5. c \in Seq(S) /\ Len(c) = m + (n + 1)
      /\ \A i \in 1 .. m + (n + 1) : c[i] = IF i <= m THEN q[i] ELSE b[i - m]
  <2> HIDE DEF b
  <2>1. c \in Seq(S) /\ Len(c) = Len(q) + Len(b)
        /\ \A i \in 1 .. Len(q) + Len(b) : c[i] = IF i <= Len(q) THEN q[i] ELSE b[i - Len(q)]
    <3>1. b \in Seq(S)  BY <1>4
    <3> QED  BY <3>1, ConcatProperties
  <2> HIDE DEF c
  <2> QED  BY <1>4, <2>1
<1> HIDE DEF a, b, c, m, n
<1>6. \A i \in 1 .. Len(a) : a[i] = c[i]
  <2> TAKE i \in 1 .. Len(a)
  <2>1. CASE i = m + n + 1
    <3>1. ~(i <= m) /\ i - m = n + 1 /\ ~(n + 1 <= n) /\ n + 1 - n = 1  BY <1>1, <2>1
    <3>2. c[i] = b[n + 1]  BY <1>1, <1>5, <2>1, <3>1
    <3>3. b[n + 1] = e  BY <1>1, <1>3, <1>4, <3>1
    <3> QED  BY <1>2, <2>1, <3>2, <3>3
  <2>2. CASE i \in 1 .. m + n
    <3>1. a[i] = IF i <= m THEN q[i] ELSE r[i - m]  BY <1>1, <1>2, <2>2
    <3>2. c[i] = IF i <= m THEN q[i] ELSE b[i - m]  BY <1>1, <1>5, <2>2
    <3>3. ~(i <= m) => i - m \in 1 .. n + 1 /\ i - m <= n  BY <1>1, <2>2
    <3>4. ~(i <= m) => b[i - m] = r[i - m]  BY <1>4, <3>3
    <3> QED  BY <3>1, <3>2, <3>4
  <2> QED  BY <1>1, <1>2, <2>1, <2>2
<1>7. Len(a) = Len(c)  BY <1>1, <1>2, <1>5
<1>8. a = c  BY <1>2, <1>5, <1>6, <1>7, SeqEqual
<1>9. r \o <<>> = r  OBVIOUS
<1> QED  BY <1>8, <1>9 DEF a, b, c

(* Lists with nothing in them, longer by one, and one after another.       *)
LEMMA EmptyList ==
  ASSUME NEW S, NEW q \in Seq(S), Len(q) = 0
  PROVE  1 .. Len(q) = {} /\ ToSet(q) = {} /\ IsInjective(q)
<1>2. \A i \in 1 .. Len(q) : FALSE  OBVIOUS
<1>3. ToSet(q) = {q[i] : i \in 1 .. Len(q)}
      /\ (IsInjective(q) <=> \A i, j \in 1 .. Len(q) : q[i] = q[j] => i = j)
  BY ListElements
<1>4. ToSet(q) = {}  BY <1>2, <1>3
<1>5. IsInjective(q)  BY <1>2, <1>3
<1> QED  BY <1>2, <1>4, <1>5

LEMMA AppendElements ==
  ASSUME NEW S, NEW q \in Seq(S), NEW e \in S
  PROVE  /\ Append(q, e) \in Seq(S)
         /\ Len(Append(q, e)) = Len(q) + 1
         /\ ToSet(Append(q, e)) = ToSet(q) \cup {e}
<1> DEFINE r == Append(q, e)
           n == Len(q)
<1>1. /\ n \in Nat /\ r \in Seq(S) /\ Len(r) = n + 1
      /\ \A i \in 1 .. n : r[i] = q[i]
      /\ r[n + 1] = e
  OBVIOUS
<1>2. ToSet(q) = {q[i] : i \in 1 .. n} /\ ToSet(r) = {r[i] : i \in 1 .. n + 1}
  BY <1>1, ListElements
<1> HIDE DEF r, n
<1>3. ToSet(r) = ToSet(q) \cup {e}
  <2>1. \A i \in 1 .. n + 1 : i \in 1 .. n \/ i = n + 1  BY <1>1
  <2>2. n + 1 \in 1 .. n + 1 /\ \A i \in 1 .. n : i \in 1 .. n + 1  BY <1>1
  <2>3. ToSet(r) \subseteq ToSet(q) \cup {e}  BY <1>1, <1>2, <2>1
  <2>4. ToSet(q) \cup {e} \subseteq ToSet(r)  BY <1>1, <1>2, <2>2
  <2> QED  BY <2>3, <2>4
<1> QED  BY <1>1, <1>3 DEF r, n

LEMMA ConcatAt ==
  ASSUME NEW S, NEW q \in Seq(S), NEW r \in Seq(S)
  PROVE  /\ q \o r \in Seq(S) /\ Len(q \o r) = Len(q) + Len(r)
         /\ \A i \in 1 .. Len(q) : (q \o r)[i] = q[i]
         /\ \A i \in 1 .. Len(r) : (q \o r)[Len(q) + i] = r[i]
OBVIOUS

(* The elements of a list without repetition are as many as its places.    *)
LEMMA InjectiveLength ==
  ASSUME NEW S, NEW q \in Seq(S), IsInjective(q)
  PROVE  IsFiniteSet(ToSet(q)) /\ Cardinality(ToSet(q)) = Len(q)
<1> DEFINE n == Len(q)
           f == [i \in 1 .. n |-> q[i]]
<1>1. n \in Nat /\ ToSet(q) = {q[i] : i \in 1 .. n}
      /\ \A i, j \in 1 .. n : q[i] = q[j] => i = j
  BY ListElements
<1>2. IsFiniteSet(1 .. n) /\ Cardinality(1 .. n) = n
  <2>1. /\ IsFiniteSet(1 .. n)
        /\ Cardinality(1 .. n) = IF 1 > n THEN 0 ELSE n - 1 + 1
    BY <1>1, FS_Interval
  <2> QED  BY <1>1, <2>1
<1> HIDE DEF n
<1>3. f \in Bijection(1 .. n, ToSet(q))
  <2>1. f \in Injection(1 .. n, ToSet(q))
    BY <1>1 DEF Injection, IsInjective
  <2>2. f \in Surjection(1 .. n, ToSet(q))
    BY <1>1 DEF Surjection
  <2> QED  BY <2>1, <2>2 DEF Bijection
<1>4. ExistsBijection(1 .. n, ToSet(q))  BY <1>3 DEF ExistsBijection
<1> QED  BY <1>2, <1>4, FS_Bijection DEF n

(* The two parts of a list, the second of them backwards.                  *)
LEMMA SplitReversed ==
  ASSUME NEW S, NEW q \in Seq(S), IsInjective(q), NEW k \in 0 .. Len(q)
  PROVE  LET a == SubSeq(q, 1, k)
             b == Reverse(SubSeq(q, k + 1, Len(q)))
         IN  /\ a \in Seq(S) /\ Len(a) = k /\ \A i \in 1 .. k : a[i] = q[i]
             /\ IsInjective(a)
             /\ ToSet(a) = {q[i] : i \in 1 .. k}
             /\ b \in Seq(S) /\ IsInjective(b)
             /\ ToSet(b) = {q[i] : i \in k + 1 .. Len(q)}
<1> DEFINE n == Len(q)
           a == SubSeq(q, 1, k)
           c == SubSeq(q, k + 1, n)
           b == Reverse(c)
<1>1. n \in Nat /\ \A i, j \in 1 .. n : q[i] = q[j] => i = j
  BY ListElements
<1>2. a \in Seq(S) /\ Len(a) = k /\ \A i \in 1 .. k : a[i] = q[i]
  OBVIOUS
<1>3. c \in Seq(S) /\ Len(c) = n - k /\ \A i \in 1 .. n - k : c[i] = q[k + i]
  OBVIOUS
<1>4. b = [i \in 1 .. Len(c) |-> c[Len(c) - i + 1]]  BY DEF Reverse
<1> HIDE DEF a, b, c, n
<1>5. k \in 0 .. n  BY DEF n
<1>6. b \in Seq(S) /\ Len(b) = n - k /\ \A i \in 1 .. n - k : b[i] = q[n - i + 1]
  <2>1. \A i \in 1 .. n - k : (n - k) - i + 1 \in 1 .. n - k /\ k + ((n - k) - i + 1) = n - i + 1
    BY <1>1, <1>5
  <2>2. b = [i \in 1 .. n - k |-> q[n - i + 1]]
    <3>1. b = [i \in 1 .. n - k |-> c[(n - k) - i + 1]]  BY <1>3, <1>4
    <3>2. ASSUME NEW i \in 1 .. n - k  PROVE c[(n - k) - i + 1] = q[n - i + 1]
      <4>1. c[(n - k) - i + 1] = q[k + ((n - k) - i + 1)]  BY <1>3, <2>1
      <4> QED  BY <2>1, <4>1
    <3> QED  BY <3>1, <3>2
  <2>3. \A i \in 1 .. n - k : q[n - i + 1] \in S
    <3>1. \A i \in 1 .. n : q[i] \in S  BY DEF n
    <3>2. \A i \in 1 .. n - k : n - i + 1 \in 1 .. n  BY <1>1, <1>5
    <3> QED  BY <3>1, <3>2
  <2>4. n - k \in Nat  BY <1>1, <1>5
  <2> QED  BY <2>2, <2>3, <2>4
<1>7. ToSet(a) = {a[i] : i \in 1 .. k} /\ ToSet(b) = {b[i] : i \in 1 .. n - k}
  <2>1. ToSet(a) = {a[i] : i \in 1 .. Len(a)} /\ ToSet(b) = {b[i] : i \in 1 .. Len(b)}
    BY <1>2, <1>6, ListElements
  <2> QED  BY <1>2, <1>6, <2>1
<1>8. IsInjective(a)
  <2>1. \A i, j \in 1 .. k : a[i] = a[j] => i = j  BY <1>1, <1>2, <1>5
  <2> QED  BY <1>2, <2>1, ListElements
<1>9. IsInjective(b)
  <2>1. \A i, j \in 1 .. n - k : b[i] = b[j] => i = j
    <3> TAKE i, j \in 1 .. n - k
    <3>1. n - i + 1 \in 1 .. n /\ n - j + 1 \in 1 .. n  BY <1>1, <1>5
    <3>2. b[i] = b[j] => n - i + 1 = n - j + 1  BY <1>1, <1>6, <3>1
    <3> QED  BY <1>1, <1>5, <3>2
  <2> QED  BY <1>6, <2>1, ListElements
<1>10. ToSet(a) = {q[i] : i \in 1 .. k}  BY <1>2, <1>7
<1>11. ToSet(b) = {q[i] : i \in k + 1 .. n}
  <2>1. ASSUME NEW x \in ToSet(b)  PROVE x \in {q[i] : i \in k + 1 .. n}
    <3>1. PICK i \in 1 .. n - k : x = q[n - i + 1]  BY <1>6, <1>7
    <3>2. n - i + 1 \in k + 1 .. n  BY <1>1, <1>5
    <3> QED  BY <3>1, <3>2
  <2>2. ASSUME NEW i \in k + 1 .. n  PROVE q[i] \in ToSet(b)
    <3>1. n - i + 1 \in 1 .. n - k /\ n - (n - i + 1) + 1 = i  BY <1>1, <1>5
    <3> QED  BY <1>6, <1>7, <3>1
  <2> QED  BY <2>1, <2>2
<1> QED  BY <1>2, <1>6, <1>8, <1>9, <1>10, <1>11 DEF a, b, c, n

(* Each of the lists of a finite set holds each of its elements once.      *)
LEMMA ListOfSet ==
  ASSUME NEW S, IsFiniteSet(S), NEW s \in SetToSeqs(S)
  PROVE  s \in Seq(S) /\ IsInjective(s) /\ ToSet(s) = S
<1> DEFINE n == Cardinality(S)
<1>1. n \in Nat  BY FS_CardinalityType
<1>2. s \in [1 .. n -> S] /\ \A i, j \in 1 .. n : i # j => s[i] # s[j]
  BY DEF SetToSeqs
<1>3. IsFiniteSet(1 .. n) /\ Cardinality(1 .. n) = n
  <2>1. /\ IsFiniteSet(1 .. n)
        /\ Cardinality(1 .. n) = IF 1 > n THEN 0 ELSE n - 1 + 1
    BY <1>1, FS_Interval
  <2> HIDE DEF n
  <2> QED  BY <1>1, <2>1
<1>4. s \in Injection(1 .. n, S)
  BY <1>2 DEF Injection, IsInjective
<1>5. s \in Surjection(1 .. n, S)  BY <1>3, <1>4, FS_Injection
<1> HIDE DEF n
<1>6. s \in Seq(S) /\ Len(s) = n  BY <1>1, <1>2
<1>7. IsInjective(s)
  <2>1. \A i, j \in 1 .. n : s[i] = s[j] => i = j  BY <1>2
  <2> QED  BY <1>6, <2>1, ListElements
<1>8. ToSet(s) = S
  <2>1. ToSet(s) = {s[i] : i \in 1 .. n}  BY <1>6, ListElements
  <2>2. \A x \in S : \E i \in 1 .. n : s[i] = x  BY <1>5 DEF Surjection
  <2> QED  BY <1>2, <2>1, <2>2
<1> QED  BY <1>6, <1>7, <1>8

(* A list without repetition is an order of its elements.                  *)
LEMMA ListIsOrder ==
  ASSUME NEW S, NEW q \in Seq(S), IsInjective(q)
  PROVE  q \in SetToSeqs(ToSet(q))
<1>1. Cardinality(ToSet(q)) = Len(q)  BY InjectiveLength
<1>2. q \in [1 .. Len(q) -> ToSet(q)]  BY DEF ToSet
<1>3. \A i, j \in 1 .. Len(q) : i # j => q[i] # q[j]  BY ListElements
<1> QED  BY <1>1, <1>2, <1>3 DEF SetToSeqs

(* Lists that repeat nothing and have nothing in common.                   *)
Apart(ss) ==
    /\ \A i \in 1 .. Len(ss) : IsInjective(ss[i])
    /\ \A i, j \in 1 .. Len(ss) : i # j => ToSet(ss[i]) \cap ToSet(ss[j]) = {}

(* One after the other, they are a list that repeats nothing either.       *)
LEMMA FlattenApart ==
  ASSUME NEW S, NEW ss \in Seq(Seq(S)), Apart(ss)
  PROVE  /\ FlattenSeq(ss) \in Seq(S)
         /\ IsInjective(FlattenSeq(ss))
         /\ ToSet(FlattenSeq(ss)) = UNION {ToSet(ss[i]) : i \in 1 .. Len(ss)}
<1> DEFINE n == Len(ss)
           step(f, i) == IF i = 1 THEN ss[i] ELSE f[i - 1] \o ss[i]
           F(f) == f = [i \in 1 .. n |-> step(f, i)]
           good == CHOOSE f : F(f)
<1>1. n \in Nat /\ \A i \in 1 .. n : ss[i] \in Seq(S)  OBVIOUS
<1>2. CASE n = 0
  <2>1. FlattenSeq(ss) = ss /\ ss = <<>>  BY <1>2 DEF FlattenSeq
  <2>2. \A i \in 1 .. n : FALSE  BY <1>2
  <2>3. <<>> \in Seq(S) /\ Len(<<>>) = 0  OBVIOUS
  <2>4. ToSet(<<>>) = {} /\ IsInjective(<<>>)  BY DEF ToSet, IsInjective
  <2> QED  BY <2>1, <2>2, <2>3, <2>4
<1>3. CASE n # 0
  <2>1. FlattenSeq(ss) = good[n]  BY <1>3 DEF FlattenSeq
  <2>2. \E f : F(f)
    <3> DEFINE g == [i \in 1 .. n |-> [x \in Seq(S) |-> IF i = 1 THEN ss[i] ELSE x \o ss[i]]]
    <3>1. g \in [1 .. n -> [Seq(S) -> Seq(S)]]
      <4>1. ASSUME NEW i \in 1 .. n, NEW x \in Seq(S)
            PROVE  (IF i = 1 THEN ss[i] ELSE x \o ss[i]) \in Seq(S)
        BY <1>1
      <4> QED  BY <4>1
    <3>2. PICK f : f \in Recursion(n, Seq(S), <<>>, g)
      <4>0. <<>> \in Seq(S)  OBVIOUS
      <4> HIDE DEF g, n
      <4> QED  BY <1>1, <3>1, <4>0, RecursionExists
    <3>3. f \in [0 .. n -> Seq(S)] /\ \A i \in 1 .. n : f[i] = g[i][f[i - 1]]
      BY <3>2 DEF Recursion
    <3> DEFINE h == [i \in 1 .. n |-> f[i]]
    <3>4. \A i \in 1 .. n : h[i] = step(h, i)
      <4> TAKE i \in 1 .. n
      <4>0. i - 1 \in 0 .. n
        <5> HIDE DEF n
        <5> QED  BY <1>1
      <4>1. i - 1 \in 0 .. n /\ f[i - 1] \in Seq(S)  BY <3>3, <4>0
      <4>2. f[i] = IF i = 1 THEN ss[i] ELSE f[i - 1] \o ss[i]  BY <3>3, <4>1
      <4>3. i # 1 => i - 1 \in 1 .. n  BY <1>1
      <4> QED  BY <4>2, <4>3
    <3>5. F(h)  BY <3>4
    <3> QED  BY <3>5
  <2>3. F(good)  BY <2>2
  <2> HIDE DEF good, n
  <2>4. \A i \in 1 .. n : good[i] = step(good, i)  BY <2>3
  <2> DEFINE G(i) == /\ good[i] \in Seq(S)
                     /\ IsInjective(good[i])
                     /\ ToSet(good[i]) = UNION {ToSet(ss[j]) : j \in 1 .. i}
             T == {i \in 0 .. n : i # 0 => G(i)}
  <2> HIDE DEF G
  <2>5. 0 \in T  BY <1>1
  <2>6. \A i \in 0 .. n - 1 : i \in T => i + 1 \in T
    <3>0. \A i \in 0 .. n - 1 : i + 1 \in 0 .. n /\ i \in 0 .. n  BY <1>1
    <3> SUFFICES ASSUME NEW i \in 0 .. n - 1, i # 0 => G(i)
                 PROVE  G(i + 1)
      BY <3>0
    <3>1. i + 1 \in 1 .. n /\ ss[i + 1] \in Seq(S) /\ IsInjective(ss[i + 1])
      BY <1>1 DEF Apart, n
    <3>2. CASE i = 0
      <4>1. good[1] = ss[1]  BY <2>4, <3>1, <3>2
      <4>2. UNION {ToSet(ss[j]) : j \in 1 .. 1} = ToSet(ss[1])
        <5>1. 1 .. 1 = {1}  OBVIOUS
        <5> QED  BY <5>1
      <4> QED  BY <3>1, <3>2, <4>1, <4>2 DEF G
    <3>3. CASE i # 0
      <4>1. good[i + 1] = good[i] \o ss[i + 1]
        <5>1. good[i + 1] = step(good, i + 1)  BY <2>4, <3>1
        <5>2. i + 1 # 1 /\ (i + 1) - 1 = i  BY <3>3
        <5> QED  BY <5>1, <5>2
      <4>2. /\ good[i] \in Seq(S) /\ IsInjective(good[i])
            /\ ToSet(good[i]) = UNION {ToSet(ss[j]) : j \in 1 .. i}
        BY <3>3 DEF G
      <4>3. ToSet(good[i]) \cap ToSet(ss[i + 1]) = {}
        <5>1. ASSUME NEW j \in 1 .. i  PROVE ToSet(ss[j]) \cap ToSet(ss[i + 1]) = {}
          <6>1. j \in 1 .. n /\ j # i + 1  BY <1>1
          <6> QED  BY <3>1, <6>1 DEF Apart, n
        <5> QED  BY <4>2, <5>1
      <4>4. /\ IsInjective(good[i] \o ss[i + 1])
            /\ ToSet(good[i] \o ss[i + 1]) = ToSet(good[i]) \cup ToSet(ss[i + 1])
        BY <3>1, <4>2, <4>3, InjectiveConcat
      <4>5. good[i] \o ss[i + 1] \in Seq(S)  BY <3>1, <4>2
      <4>6. UNION {ToSet(ss[j]) : j \in 1 .. i + 1}
              = (UNION {ToSet(ss[j]) : j \in 1 .. i}) \cup ToSet(ss[i + 1])
        <5>1. 1 .. i + 1 = (1 .. i) \cup {i + 1}  BY <3>3
        <5> QED  BY <5>1
      <4> QED  BY <4>1, <4>2, <4>4, <4>5, <4>6 DEF G
    <3> QED  BY <3>2, <3>3
  <2> HIDE DEF T
  <2>7. \A i \in 0 .. n : i \in T  BY <1>1, <2>5, <2>6, UpToInduction
  <2>8. G(n)  BY <1>1, <1>3, <2>7 DEF T
  <2> QED  BY <2>1, <2>8 DEF n, G
<1> QED  BY <1>2, <1>3
=============================================================================
