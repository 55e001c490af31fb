--------------------------- MODULE AddressProofs ---------------------------
(***************************************************************************)
(* What the operators of SubnetHosts compute, for addresses of any number  *)
(* of bytes of any number of bits: the loops over bytes and bits agree     *)
(* with arithmetic on the numbers that the bytes write.                    *)
(***************************************************************************)
EXTENDS SubnetHosts, FiniteSetTheorems, TLAPS

-----------------------------------------------------------------------------
(* Induction, and the solutions of recursive definitions.                  *)

(* A set of naturals that has 0 and every successor of its members is Nat. *)
(* Otherwise some m is missing, and adding one maps the members up to m    *)
(* one to one into themselves, hence onto themselves; but nothing is       *)
(* mapped to 0.  All induction below is over sets, which the provers can   *)
(* instantiate.                                                            *)
LEMMA NatSetInduction ==
    ASSUME NEW S, S \subseteq Nat, 0 \in S, \A k \in S : k + 1 \in S
    PROVE  S = Nat
<1>1. SUFFICES ASSUME NEW m \in Nat, m \notin S
               PROVE  FALSE
  OBVIOUS
<1> DEFINE A == {k \in S : k <= m}
           f == [k \in A |-> k + 1]
<1>2. IsFiniteSet(A)
  <2>1. \A k \in A : k \in 0..m
    OBVIOUS
  <2> HIDE DEF A
  <2>2. A \in SUBSET (0..m)
    BY <2>1
  <2>3. IsFiniteSet(0..m)
    BY FS_Interval
  <2>4. QED
    BY <2>2, <2>3, FS_Subset
<1>3. f \in Injection(A, A)
  <2>1. ASSUME NEW k \in A PROVE k + 1 \in A
    BY <1>1
  <2>2. f \in [A -> A]
    BY <2>1
  <2>3. IsInjective(f)
    BY DEF IsInjective
  <2>4. QED
    BY <2>2, <2>3 DEF Injection
<1>4. f \in Surjection(A, A)
  BY <1>2, <1>3, FS_Injection
<1>5. \E k \in A : f[k] = 0
  <2>1. 0 \in A
    OBVIOUS
  <2>2. QED
    BY <1>4, <2>1 DEF Surjection
<1>6. QED
  BY <1>5

\* g begins with d0, and F makes each value from the one before.
RecursionUpTo(g, d0, F, m) ==
    \A i \in 0..m : g[i] = IF i = 0 THEN d0 ELSE F[i][g[i - 1]]

Recursion(g, d0, F) == g = [i \in Nat |-> IF i = 0 THEN d0 ELSE F[i][g[i - 1]]]

(* A recursive definition has a solution up to every bound.                *)
LEMMA ChosenFixpoint ==
    ASSUME NEW D, NEW d0 \in D, NEW F \in [Nat -> [D -> D]], NEW m \in Nat
    PROVE  \E g \in [0..m -> D] : RecursionUpTo(g, d0, F, m)
<1> USE DEF RecursionUpTo
<1> DEFINE Eq(g, k) == \A i \in 0..k : g[i] = IF i = 0 THEN d0 ELSE F[i][g[i - 1]]
           S == {k \in Nat : \E g \in [0..k -> D] : Eq(g, k)}
<1>1. 0 \in S
  <2>1. [i \in 0..0 |-> d0] \in [0..0 -> D] /\ Eq([i \in 0..0 |-> d0], 0)
    OBVIOUS
  <2>2. QED
    BY <2>1
<1>2. ASSUME NEW k \in S PROVE k + 1 \in S
  <2>1. PICK g \in [0..k -> D] : Eq(g, k)
    OBVIOUS
  <2> DEFINE h == [i \in 0..(k + 1) |-> IF i = k + 1 THEN F[k + 1][g[k]] ELSE g[i]]
  <2>2. h \in [0..(k + 1) -> D]
    OBVIOUS
  <2>3. ASSUME NEW i \in 0..(k + 1)
        PROVE  h[i] = IF i = 0 THEN d0 ELSE F[i][h[i - 1]]
    <3>1. CASE i = k + 1
      <4>1. i - 1 = k /\ h[i - 1] = g[k] /\ i # 0
        BY <3>1
      <4>2. h[i] = F[k + 1][g[k]]
        BY <3>1
      <4>3. QED
        BY <3>1, <4>1, <4>2
    <3>2. CASE i # k + 1
      <4>1. i \in 0..k /\ h[i] = g[i] /\ (i # 0 => h[i - 1] = g[i - 1])
        BY <3>2
      <4>2. QED
        BY <4>1, <2>1
    <3>3. QED
      BY <3>1, <3>2
  <2> HIDE DEF h
  <2>4. k + 1 \in Nat /\ Eq(h, k + 1)
    BY <2>3
  <2>5. QED
    BY <2>2, <2>4
<1>3. S = Nat
  <2> HIDE DEF S
  <2>1. S \subseteq Nat
    BY DEF S
  <2>2. QED
    BY <1>1, <1>2, <2>1, NatSetInduction
<1>4. PICK g \in [0..m -> D] : Eq(g, m)
  BY <1>3
<1>5. QED
  BY <1>4

(* The solutions up to the bounds agree, so there is one on Nat.           *)
LEMMA NatFixpoint ==
    ASSUME NEW D, NEW d0 \in D, NEW F \in [Nat -> [D -> D]]
    PROVE  \E g \in [Nat -> D] : Recursion(g, d0, F)
<1> DEFINE Eq(g, k) == \A i \in 0..k : g[i] = IF i = 0 THEN d0 ELSE F[i][g[i - 1]]
           G(m) == CHOOSE g \in [0..m -> D] : Eq(g, m)
           h == [i \in Nat |-> G(i)[i]]
<1>1. ASSUME NEW m \in Nat PROVE G(m) \in [0..m -> D] /\ Eq(G(m), m)
  <2>1. \E g \in [0..m -> D] : RecursionUpTo(g, d0, F, m)
    BY ChosenFixpoint
  <2>2. \E g \in [0..m -> D] : Eq(g, m)
    BY <2>1 DEF RecursionUpTo
  <2> HIDE DEF Eq
  <2>3. QED
    BY <2>2
<1> HIDE DEF G
<1>2. ASSUME NEW j \in Nat, NEW m \in Nat, j <= m
      PROVE  G(m)[j] = IF j = 0 THEN d0 ELSE F[j][G(m)[j - 1]]
  <2>1. j \in 0..m
    BY <1>2
  <2>2. QED
    BY <1>1, <2>1
<1>3. \A j \in Nat : \A m \in Nat : j <= m => G(m)[j] = G(j)[j]
  <2> DEFINE S == {j \in Nat : \A m \in Nat : j <= m => G(m)[j] = G(j)[j]}
  <2>1. 0 \in S
    <3>1. \A m \in Nat : 0 <= m /\ G(m)[0] = d0
      BY <1>2
    <3>2. QED
      BY <3>1
  <2>2. ASSUME NEW j \in S PROVE j + 1 \in S
    <3>1. SUFFICES ASSUME NEW m \in Nat, j + 1 <= m
                   PROVE  G(m)[j + 1] = G(j + 1)[j + 1]
      OBVIOUS
    <3>2. G(m)[j] = G(j)[j] /\ G(j + 1)[j] = G(j)[j]
      BY <3>1
    <3>3. G(m)[j + 1] = F[j + 1][G(m)[j]]
      <4>1. j + 1 \in Nat /\ j + 1 # 0 /\ j + 1 - 1 = j
        OBVIOUS
      <4>2. QED
        BY <1>2, <3>1, <4>1
    <3>4. G(j + 1)[j + 1] = F[j + 1][G(j + 1)[j]]
      <4>1. j + 1 \in Nat /\ j + 1 # 0 /\ j + 1 - 1 = j
        OBVIOUS
      <4>2. QED
        BY <1>2, <4>1
    <3>5. QED
      BY <3>2, <3>3, <3>4
  <2> HIDE DEF S
  <2>3. S = Nat
    <3>1. S \subseteq Nat
      BY DEF S
    <3>2. QED
      BY <2>1, <2>2, <3>1, NatSetInduction
  <2>4. QED
    BY <2>3 DEF S
<1>4. h \in [Nat -> D] /\ h = [i \in Nat |-> IF i = 0 THEN d0 ELSE F[i][h[i - 1]]]
  <2>1. ASSUME NEW i \in Nat PROVE h[i] \in D
    <3>1. G(i) \in [0..i -> D] /\ i \in 0..i
      BY <1>1
    <3>2. QED
      BY <3>1
  <2>2. ASSUME NEW i \in Nat PROVE h[i] = IF i = 0 THEN d0 ELSE F[i][h[i - 1]]
    <3>1. CASE i = 0
      <4>1. G(0)[0] = d0
        BY <1>2
      <4>2. QED
        BY <3>1, <4>1
    <3>2. CASE i # 0
      <4>1. i - 1 \in Nat /\ i - 1 <= i
        BY <3>2
      <4>2. h[i - 1] = G(i)[i - 1]
        BY <1>3, <4>1
      <4>3. G(i)[i] = F[i][G(i)[i - 1]]
        BY <1>2, <3>2
      <4>4. QED
        BY <3>2, <4>2, <4>3
    <3>3. QED
      BY <3>1, <3>2
  <2>3. h \in [Nat -> D]
    BY <2>1
  <2> DEFINE hh == [i \in Nat |-> IF i = 0 THEN d0 ELSE F[i][h[i - 1]]]
  <2>4. h = hh
    <3>1. \A i \in Nat : h[i] = hh[i]
      BY <2>2
    <3>2. h = [i \in Nat |-> h[i]] /\ hh = [i \in Nat |-> hh[i]]
      OBVIOUS
    <3> HIDE DEF h, hh
    <3>3. QED
      BY <3>1, <3>2
  <2>5. QED
    BY <2>3, <2>4
<1>5. QED
  BY <1>4 DEF Recursion

-----------------------------------------------------------------------------
(* Powers of two, quotients and remainders.                                *)

(* The function Pow2 satisfies the equation that defines it.               *)
LEMMA Pow2Equation ==
    Pow2 = [i \in Nat |-> IF i = 0 THEN 1 ELSE 2 * Pow2[i - 1]]
<1> DEFINE F == [i \in Nat |-> [x \in Nat |-> 2 * x]]
           Eq(g) == g = [i \in Nat |-> IF i = 0 THEN 1 ELSE 2 * g[i - 1]]
<1>1. PICK g \in [Nat -> Nat] : Recursion(g, 1, F)
  <2>1. F \in [Nat -> [Nat -> Nat]]
    OBVIOUS
  <2> HIDE DEF F
  <2>2. QED
    BY <2>1, NatFixpoint
<1>2. ASSUME NEW i \in Nat \ {0} PROVE F[i][g[i - 1]] = 2 * g[i - 1]
  BY i - 1 \in Nat
<1> DEFINE h == [i \in Nat |-> IF i = 0 THEN 1 ELSE F[i][g[i - 1]]]
           hh == [i \in Nat |-> IF i = 0 THEN 1 ELSE 2 * g[i - 1]]
<1>3. h = hh
  <2>1. \A i \in Nat : h[i] = hh[i]
    BY <1>2
  <2>2. h = [i \in Nat |-> h[i]] /\ hh = [i \in Nat |-> hh[i]]
    OBVIOUS
  <2> HIDE DEF h, hh
  <2>3. QED
    BY <2>1, <2>2
<1>4. Eq(g)
  BY <1>1, <1>3 DEF Recursion
<1>5. Pow2 = CHOOSE f : Eq(f)
  BY DEF Pow2
<1> HIDE DEF Eq
<1>6. Eq(Pow2)
  BY <1>4, <1>5
<1>7. QED
  BY <1>6 DEF Eq

(* Powers of two are positive, and each is twice the one before.           *)
LEMMA Pow2Values ==
    /\ Pow2[0] = 1
    /\ \A i \in Nat : Pow2[i] \in Nat \ {0} /\ Pow2[i + 1] = 2 * Pow2[i]
<1>1. Pow2[0] = 1
  BY Pow2Equation
<1>2. ASSUME NEW i \in Nat PROVE Pow2[i + 1] = 2 * Pow2[i]
  <2>1. i + 1 \in Nat /\ i + 1 # 0 /\ i + 1 - 1 = i
    OBVIOUS
  <2> DEFINE f == [j \in Nat |-> IF j = 0 THEN 1 ELSE 2 * Pow2[j - 1]]
  <2>2. f[i + 1] = 2 * Pow2[i]
    BY <2>1
  <2> HIDE DEF f
  <2>3. QED
    BY <2>2, Pow2Equation DEF f
<1> DEFINE S == {i \in Nat : Pow2[i] \in Nat \ {0}}
<1>3. 0 \in S
  BY <1>1
<1>4. ASSUME NEW i \in S PROVE i + 1 \in S
  BY <1>2
<1> HIDE DEF S
<1>5. S = Nat
  <2>1. S \subseteq Nat
    BY DEF S
  <2>2. QED
    BY <1>3, <1>4, <2>1, NatSetInduction
<1>6. QED
  BY <1>1, <1>2, <1>5 DEF S

(* The power of a sum is the product of the powers.                        *)
LEMMA Pow2Sum ==
    ASSUME NEW j \in Nat
    PROVE  \A i \in Nat : Pow2[i + j] = Pow2[i] * Pow2[j]
<1> DEFINE S == {i \in Nat : Pow2[i + j] = Pow2[i] * Pow2[j]}
<1>1. 0 \in S
  BY Pow2Values
<1>2. ASSUME NEW i \in S PROVE i + 1 \in S
  <2>1. Pow2[(i + j) + 1] = 2 * Pow2[i + j] /\ Pow2[i + 1] = 2 * Pow2[i]
    BY Pow2Values
  <2>2. (i + 1) + j = (i + j) + 1 /\ i + 1 \in Nat
    OBVIOUS
  <2>3. Pow2[(i + 1) + j] = 2 * (Pow2[i] * Pow2[j])
    BY <2>1, <2>2
  <2>4. Pow2[i] \in Nat /\ Pow2[j] \in Nat
    BY Pow2Values
  <2>5. 2 * (Pow2[i] * Pow2[j]) = (2 * Pow2[i]) * Pow2[j]
    BY <2>4
  <2>6. QED
    BY <2>1, <2>2, <2>3, <2>5
<1> HIDE DEF S
<1>3. S = Nat
  <2>1. S \subseteq Nat
    BY DEF S
  <2>2. QED
    BY <1>1, <1>2, <2>1, NatSetInduction
<1>4. QED
  BY <1>3 DEF S

(* Quotient and remainder make up the number.                              *)
LEMMA Division ==
    ASSUME NEW x \in Nat, NEW b \in Nat \ {0}
    PROVE  /\ x \div b \in Nat
           /\ x % b \in 0..(b - 1)
           /\ x = (x \div b) * b + (x % b)
<1>1. x % b \in 0..(b - 1)
  OBVIOUS
<1>2. x \div b \in Int /\ x \div b >= 0
  OBVIOUS
<1>3. x = b * (x \div b) + (x % b)
  OBVIOUS
<1>4. (x \div b) * b = b * (x \div b)
  BY <1>2
<1>5. QED
  BY <1>1, <1>2, <1>3, <1>4

(* They are the only ones that do.                                         *)
LEMMA Quotient ==
    ASSUME NEW b \in Nat \ {0}, NEW q \in Nat, NEW r \in 0..(b - 1)
    PROVE  (q * b + r) \div b = q /\ (q * b + r) % b = r
  OBVIOUS

(* Dividing twice divides by the product.                                  *)
LEMMA DivisionTwice ==
    ASSUME NEW x \in Nat, NEW a \in Nat \ {0}, NEW b \in Nat \ {0}
    PROVE  (x \div a) \div b = x \div (a * b)
<1> DEFINE q == x \div a
           r == x % a
           q2 == q \div b
           r2 == q % b
<1>1. q \in Nat /\ r \in 0..(a - 1) /\ x = q * a + r
  BY Division
<1> HIDE DEF q, r
<1>2. q2 \in Nat /\ r2 \in 0..(b - 1) /\ q = q2 * b + r2
  BY <1>1, Division
<1> HIDE DEF q2, r2
<1>3. x = q2 * (a * b) + (r2 * a + r)
  BY <1>1, <1>2
<1>4. a * b \in Nat \ {0}
  OBVIOUS
<1>5. r2 * a + r \in 0..(a * b - 1)
  <2>1. r2 * a \in Nat /\ r2 * a <= (b - 1) * a
    BY <1>2
  <2>2. (b - 1) * a + (a - 1) = a * b - 1
    OBVIOUS
  <2>3. QED
    BY <1>1, <2>1, <2>2
<1> DEFINE m == a * b
           t == r2 * a + r
<1>6. x = q2 * m + t /\ m \in Nat \ {0} /\ t \in 0..(m - 1)
  BY <1>3, <1>4, <1>5
<1> HIDE DEF m, t
<1>7. x \div m = q2
  BY <1>2, <1>6, Quotient
<1>8. QED
  BY <1>7 DEF m, q2, q

(* Numbers with one more digit compare as their leading parts do, and by   *)
(* the last digit when these are equal.                                    *)
LEMMA Lexicographic ==
    ASSUME NEW B \in Nat \ {0}, NEW x \in Nat, NEW y \in Nat,
           NEW r \in 0..(B - 1), NEW s \in 0..(B - 1)
    PROVE  /\ x * B + r < y * B + s <=> x < y \/ (x = y /\ r < s)
           /\ x * B + r = y * B + s <=> x = y /\ r = s
<1>1. ASSUME NEW u \in Nat, NEW v \in Nat, u < v PROVE u * B + (B - 1) < v * B
  <2>1. (u + 1) * B <= v * B
    BY <1>1
  <2>2. QED
    BY <2>1
<1>2. CASE x < y
  BY <1>1, <1>2
<1>3. CASE y < x
  BY <1>1, <1>3
<1>4. CASE x = y
  BY <1>4
<1>5. QED
  BY <1>2, <1>3, <1>4

-----------------------------------------------------------------------------
(* Words: addresses, and their mapped forms of one byte more.              *)

Word(w) == [1..w -> Byte]

(* A byte has at least one bit, so there is an even number of bytes.       *)
LEMMA BaseType == Base \in Nat /\ Base >= 2 /\ Base = 2 * Pow2[Bits - 1]
<1>1. Bits - 1 \in Nat /\ (Bits - 1) + 1 = Bits
  BY SubnetHostsAssumption
<1>2. Pow2[Bits - 1] \in Nat \ {0} /\ Pow2[(Bits - 1) + 1] = 2 * Pow2[Bits - 1]
  BY <1>1, Pow2Values
<1>3. QED
  BY <1>1, <1>2 DEF Base

(* A word is a sequence of bytes.                                          *)
LEMMA WordSeq ==
    ASSUME NEW w \in Nat, NEW a \in Word(w)
    PROVE  a \in Seq(Byte) /\ Len(a) = w /\ DOMAIN a = 1..w
<1>1. a \in Seq(Byte)
  BY DEF Word
<1>2. DOMAIN a = 1..w
  BY DEF Word
<1>3. QED
  BY <1>1, <1>2

(* The bytes of a word are numbers below Base.                             *)
LEMMA WordByte ==
    ASSUME NEW w \in Nat, NEW a \in Word(w), NEW i \in 1..w
    PROVE  a[i] \in Nat /\ a[i] \in 0..(Base - 1)
  BY BaseType DEF Word, Byte

(* Prefixes(a) satisfies the equation that defines it.                     *)
LEMMA PrefixesEquation ==
    ASSUME NEW w \in Nat, NEW a \in Word(w)
    PROVE  Prefixes(a) = [i \in 0..w |-> IF i = 0 THEN 0 ELSE Prefixes(a)[i - 1] * Base + a[i]]
<1> DEFINE F == [i \in Nat |-> [x \in Nat |-> x * Base + (IF i \in 1..w THEN a[i] ELSE 0)]]
           Eq(g) == g = [i \in 0..w |-> IF i = 0 THEN 0 ELSE g[i - 1] * Base + a[i]]
<1>1. PICK g \in [0..w -> Nat] : RecursionUpTo(g, 0, F, w)
  <2>1. ASSUME NEW i \in Nat, NEW x \in Nat
        PROVE  x * Base + (IF i \in 1..w THEN a[i] ELSE 0) \in Nat
    <3>1. (IF i \in 1..w THEN a[i] ELSE 0) \in Nat
      BY WordByte
    <3>2. x * Base \in Nat
      BY BaseType
    <3>3. QED
      BY <3>1, <3>2
  <2>2. F \in [Nat -> [Nat -> Nat]]
    BY <2>1
  <2> HIDE DEF F
  <2>3. QED
    BY <2>2, ChosenFixpoint
<1>2. ASSUME NEW i \in 1..w PROVE F[i][g[i - 1]] = g[i - 1] * Base + a[i]
  <2>1. i - 1 \in 0..w /\ i \in Nat
    OBVIOUS
  <2>2. g[i - 1] \in Nat
    BY <2>1
  <2>3. QED
    BY <2>1, <2>2
<1> HIDE DEF F
<1> DEFINE hh == [i \in 0..w |-> IF i = 0 THEN 0 ELSE g[i - 1] * Base + a[i]]
<1>3. g = hh
  <2>1. ASSUME NEW i \in 0..w PROVE g[i] = hh[i]
    <3>1. g[i] = IF i = 0 THEN 0 ELSE F[i][g[i - 1]]
      BY <1>1 DEF RecursionUpTo
    <3>2. CASE i = 0
      BY <3>1, <3>2
    <3>3. CASE i # 0
      <4>1. i \in 1..w
        BY <3>3
      <4>2. QED
        BY <3>1, <3>3, <4>1, <1>2
    <3>4. QED
      BY <3>2, <3>3
  <2>2. g = [i \in 0..w |-> g[i]] /\ hh = [i \in 0..w |-> hh[i]]
    OBVIOUS
  <2> HIDE DEF hh
  <2>3. QED
    BY <2>1, <2>2
<1>4. Eq(g)
  BY <1>3
<1>5. Prefixes(a) = CHOOSE f : Eq(f)
  BY WordSeq DEF Prefixes
<1> HIDE DEF Eq
<1>6. Eq(Prefixes(a))
  BY <1>4, <1>5
<1>7. QED
  BY <1>6 DEF Eq

(* The number that the first i bytes write, from the one that the first i  *)
(* - 1 do.                                                                 *)
LEMMA PrefixesValues ==
    ASSUME NEW w \in Nat, NEW a \in Word(w)
    PROVE  /\ Prefixes(a)[0] = 0
           /\ \A i \in 1..w : Prefixes(a)[i] = Prefixes(a)[i - 1] * Base + a[i]
           /\ \A i \in 0..w : Prefixes(a)[i] \in Nat
<1> DEFINE p == Prefixes(a)
           f == [i \in 0..w |-> IF i = 0 THEN 0 ELSE p[i - 1] * Base + a[i]]
<1> HIDE DEF p
<1>1. p = f
  BY PrefixesEquation DEF p
<1>2. f[0] = 0 /\ \A i \in 1..w : f[i] = p[i - 1] * Base + a[i]
  OBVIOUS
<1> HIDE DEF f
<1>3. p[0] = 0 /\ \A i \in 1..w : p[i] = p[i - 1] * Base + a[i]
  BY <1>1, <1>2
<1> DEFINE S == {i \in Nat : i <= w => p[i] \in Nat}
<1>4. 0 \in S
  BY <1>3
<1>5. ASSUME NEW i \in S PROVE i + 1 \in S
  <2>1. SUFFICES ASSUME i + 1 <= w PROVE p[i + 1] \in Nat
    OBVIOUS
  <2>2. i + 1 \in 1..w /\ i + 1 - 1 = i /\ p[i] \in Nat
    BY <2>1
  <2>3. p[i + 1] = p[i] * Base + a[i + 1]
    BY <1>3, <2>2
  <2>4. a[i + 1] \in Nat
    BY <2>2, WordByte
  <2>5. p[i] * Base \in Nat
    BY <2>2, BaseType
  <2>6. QED
    BY <2>3, <2>4, <2>5
<1> HIDE DEF S
<1>6. S = Nat
  <2>1. S \subseteq Nat
    BY DEF S
  <2>2. QED
    BY <1>4, <1>5, <2>1, NatSetInduction
<1>7. \A i \in 0..w : p[i] \in Nat
  BY <1>6 DEF S
<1>8. QED
  BY <1>3, <1>7 DEF p

(* Induction up to a bound.                                                *)
LEMMA UpToInduction ==
    ASSUME NEW w \in Nat, NEW T, 0 \in T, \A i \in 0..(w - 1) : i \in T => i + 1 \in T
    PROVE  \A i \in 0..w : i \in T
<1> DEFINE S == {i \in Nat : i <= w => i \in T}
<1>1. 0 \in S
  OBVIOUS
<1>2. ASSUME NEW i \in S PROVE i + 1 \in S
  OBVIOUS
<1> HIDE DEF S
<1>3. S = Nat
  <2>1. S \subseteq Nat
    BY DEF S
  <2>2. QED
    BY <1>1, <1>2, <2>1, NatSetInduction
<1>4. QED
  BY <1>3 DEF S

(* i bytes write a number below Base to the i.                             *)
LEMMA PrefixesBound ==
    ASSUME NEW w \in Nat, NEW a \in Word(w)
    PROVE  \A i \in 0..w : Prefixes(a)[i] < Pow2[Bits * i]
<1> DEFINE p == Prefixes(a)
           T == {i \in 0..w : p[i] < Pow2[Bits * i]}
<1>1. Bits \in Nat
  BY SubnetHostsAssumption
<1>2. 0 \in T
  <2>1. Bits * 0 = 0
    BY <1>1
  <2>2. QED
    BY <2>1, PrefixesValues, Pow2Values
<1>3. ASSUME NEW i \in 0..(w - 1), i \in T PROVE i + 1 \in T
  <2>1. i + 1 \in 1..w /\ i + 1 - 1 = i
    OBVIOUS
  <2>2. p[i + 1] = p[i] * Base + a[i + 1] /\ p[i] \in Nat /\ p[i + 1] \in Nat
    <3>1. p[i + 1] = p[i + 1 - 1] * Base + a[i + 1]
      BY <2>1, PrefixesValues
    <3>2. i \in 0..w /\ i + 1 \in 0..w
      OBVIOUS
    <3>3. QED
      BY <2>1, <3>1, <3>2, PrefixesValues
  <2>3. Pow2[Bits * (i + 1)] = Pow2[Bits * i] * Base
    <3>1. Bits * (i + 1) = Bits * i + Bits /\ Bits * i \in Nat
      BY <1>1
    <3>2. QED
      BY <1>1, <3>1, Pow2Sum DEF Base
  <2>4. Pow2[Bits * i] \in Nat
    <3>1. Bits * i \in Nat
      BY <1>1
    <3>2. QED
      BY <3>1, Pow2Values
  <2>5. p[i] + 1 <= Pow2[Bits * i]
    BY <1>3, <2>2, <2>4
  <2>6. a[i + 1] \in Nat /\ a[i + 1] <= Base - 1
    BY <2>1, WordByte, BaseType
  <2> DEFINE q == p[i]
             m == Pow2[Bits * i]
             d == a[i + 1]
  <2>7. q \in Nat /\ m \in Nat /\ q + 1 <= m /\ d \in Nat /\ d <= Base - 1
    BY <2>2, <2>4, <2>5, <2>6
  <2> HIDE DEF q, m, d
  <2>8. (q + 1) * Base <= m * Base
    BY <2>7, BaseType
  <2>9. q * Base + d < m * Base
    BY <2>7, <2>8, BaseType
  <2>10. p[i + 1] < Pow2[Bits * (i + 1)]
    BY <2>9, <2>2, <2>3 DEF q, m, d
  <2>11. QED
    BY <2>1, <2>10
<1> HIDE DEF T
<1>4. \A i \in 0..w : i \in T
  BY <1>2, <1>3, UpToInduction
<1>5. QED
  BY <1>4 DEF T

(* The number of a prefix depends on the bytes of the prefix alone.        *)
LEMMA PrefixesAgree ==
    ASSUME NEW w1 \in Nat, NEW a \in Word(w1), NEW w2 \in Nat, NEW b \in Word(w2),
           NEW k \in Nat, k <= w1, k <= w2, \A j \in 1..k : a[j] = b[j]
    PROVE  Prefixes(a)[k] = Prefixes(b)[k]
<1> DEFINE T == {i \in 0..k : Prefixes(a)[i] = Prefixes(b)[i]}
<1>1. 0 \in T
  BY PrefixesValues
<1>2. ASSUME NEW i \in 0..(k - 1), i \in T PROVE i + 1 \in T
  <2>1. i + 1 \in 1..w1 /\ i + 1 \in 1..w2 /\ i + 1 \in 1..k /\ i + 1 - 1 = i
    OBVIOUS
  <2>2. Prefixes(a)[i + 1] = Prefixes(a)[i + 1 - 1] * Base + a[i + 1]
    BY <2>1, PrefixesValues
  <2>3. Prefixes(b)[i + 1] = Prefixes(b)[i + 1 - 1] * Base + b[i + 1]
    BY <2>1, PrefixesValues
  <2>4. QED
    BY <1>2, <2>1, <2>2, <2>3
<1> HIDE DEF T
<1>3. \A i \in 0..k : i \in T
  BY <1>1, <1>2, UpToInduction
<1>4. QED
  BY <1>3 DEF T

(* The numbers of two prefixes are equal when the bytes are, and one is    *)
(* smaller when bytes.Compare says so.                                     *)
LEMMA PrefixesOrder ==
    ASSUME NEW w \in Nat, NEW a \in Word(w), NEW b \in Word(w)
    PROVE  \A i \in 0..w :
              /\ Prefixes(a)[i] = Prefixes(b)[i] <=> \A j \in 1..i : a[j] = b[j]
              /\ Prefixes(a)[i] < Prefixes(b)[i] <=>
                    \E k \in 1..i : a[k] < b[k] /\ \A j \in 1..(k - 1) : a[j] = b[j]
<1> DEFINE p == Prefixes(a)
           q == Prefixes(b)
           Same(i) == \A j \in 1..i : a[j] = b[j]
           Less(i) == \E k \in 1..i : a[k] < b[k] /\ Same(k - 1)
           T == {i \in 0..w : (p[i] = q[i] <=> Same(i)) /\ (p[i] < q[i] <=> Less(i))}
<1>1. 0 \in T
  BY PrefixesValues
<1>2. ASSUME NEW i \in 0..(w - 1), i \in T PROVE i + 1 \in T
  <2>1. i + 1 \in 1..w /\ i + 1 - 1 = i /\ i \in 0..w
    OBVIOUS
  <2>2. Same(i + 1) <=> Same(i) /\ a[i + 1] = b[i + 1]
    <3>1. 1..(i + 1) = (1..i) \cup {i + 1}
      OBVIOUS
    <3>2. QED
      BY <3>1
  <2>3. Less(i + 1) <=> Less(i) \/ (Same(i) /\ a[i + 1] < b[i + 1])
    <3>1. 1..(i + 1) = (1..i) \cup {i + 1}
      OBVIOUS
    <3> HIDE DEF Same
    <3>2. QED
      BY <2>1, <3>1
  <2>4. p[i + 1] = p[i] * Base + a[i + 1] /\ p[i] \in Nat
    <3>1. p[i + 1] = p[i + 1 - 1] * Base + a[i + 1]
      BY <2>1, PrefixesValues
    <3>2. QED
      BY <2>1, <3>1, PrefixesValues
  <2>5. q[i + 1] = q[i] * Base + b[i + 1] /\ q[i] \in Nat
    <3>1. q[i + 1] = q[i + 1 - 1] * Base + b[i + 1]
      BY <2>1, PrefixesValues
    <3>2. QED
      BY <2>1, <3>1, PrefixesValues
  <2>6. a[i + 1] \in 0..(Base - 1) /\ b[i + 1] \in 0..(Base - 1) /\ Base \in Nat \ {0}
    BY <2>1, WordByte, BaseType
  <2> HIDE DEF p, q, Same, Less
  <2>7. /\ p[i + 1] < q[i + 1] <=> p[i] < q[i] \/ (p[i] = q[i] /\ a[i + 1] < b[i + 1])
        /\ p[i + 1] = q[i + 1] <=> p[i] = q[i] /\ a[i + 1] = b[i + 1]
    <3> DEFINE x == p[i]
               y == q[i]
               r == a[i + 1]
               t == b[i + 1]
    <3>1. x \in Nat /\ y \in Nat /\ r \in 0..(Base - 1) /\ t \in 0..(Base - 1) /\ Base \in Nat \ {0}
      BY <2>4, <2>5, <2>6
    <3> HIDE DEF x, y, r, t
    <3>2. /\ x * Base + r < y * Base + t <=> x < y \/ (x = y /\ r < t)
          /\ x * Base + r = y * Base + t <=> x = y /\ r = t
      BY <3>1, Lexicographic
    <3>3. p[i + 1] = x * Base + r /\ q[i + 1] = y * Base + t
      BY <2>4, <2>5 DEF x, y, r, t
    <3>4. QED
      BY <3>2, <3>3 DEF x, y, r, t
  <2>8. QED
    BY <1>2, <2>1, <2>2, <2>3, <2>7
<1> HIDE DEF T
<1>3. \A i \in 0..w : i \in T
  BY <1>1, <1>2, UpToInduction
<1>4. QED
  BY <1>3 DEF T

(* The number of a word lies below Pow2 of the number of its bits.         *)
LEMMA ValueType ==
    ASSUME NEW w \in Nat, NEW a \in Word(w)
    PROVE  Value(a) = Prefixes(a)[w] /\ Value(a) \in Nat /\ Value(a) < Pow2[Bits * w]
<1>1. Value(a) = Prefixes(a)[w]
  BY WordSeq DEF Value
<1>2. w \in 0..w
  OBVIOUS
<1>3. QED
  BY <1>1, <1>2, PrefixesValues, PrefixesBound

(* bytes.Compare orders words of one length as the numbers they write.     *)
LEMMA BeforeValue ==
    ASSUME NEW w \in Nat, NEW a \in Word(w), NEW b \in Word(w)
    PROVE  Before(a, b) <=> Value(a) < Value(b)
<1>1. w \in 0..w
  OBVIOUS
<1>2. DOMAIN a = 1..w
  BY DEF Word
<1>3. Before(a, b) <=> \E k \in 1..w : a[k] < b[k] /\ \A j \in 1..(k - 1) : a[j] = b[j]
  BY <1>2 DEF Before
<1>4. QED
  BY <1>1, <1>3, PrefixesOrder, ValueType

(* Different words write different numbers.                                *)
LEMMA ValueInjective ==
    ASSUME NEW w \in Nat, NEW a \in Word(w), NEW b \in Word(w), Value(a) = Value(b)
    PROVE  a = b
<1>1. w \in 0..w
  OBVIOUS
<1>2. \A j \in 1..w : a[j] = b[j]
  BY <1>1, PrefixesOrder, ValueType
<1>3. a = [j \in 1..w |-> a[j]] /\ b = [j \in 1..w |-> b[j]]
  BY DEF Word
<1>4. QED
  BY <1>2, <1>3

-----------------------------------------------------------------------------
(* Incrementing.                                                           *)

(* incip keeps the length, and bytes stay bytes.                           *)
LEMMA IncWord ==
    ASSUME NEW w \in Nat, NEW a \in Word(w)
    PROVE  Inc(a) = [i \in 1..w |-> IF \A j \in (i + 1)..w : a[j] = Base - 1
                                      THEN (a[i] + 1) % Base ELSE a[i]]
           /\ Inc(a) \in Word(w)
<1>1. Inc(a) = [i \in 1..w |-> IF \A j \in (i + 1)..w : a[j] = Base - 1
                                 THEN (a[i] + 1) % Base ELSE a[i]]
  BY WordSeq DEF Inc
<1>2. ASSUME NEW i \in 1..w PROVE (a[i] + 1) % Base \in Byte /\ a[i] \in Byte
  <2>1. a[i] + 1 \in Nat /\ Base \in Nat \ {0}
    BY WordByte, BaseType
  <2>2. (a[i] + 1) % Base \in 0..(Base - 1)
    BY <2>1, Division
  <2>3. QED
    BY <2>2, WordByte DEF Byte
<1>3. Inc(a) \in Word(w)
  BY <1>1, <1>2 DEF Word
<1>4. QED
  BY <1>1, <1>3

\* The first w bytes of a are all ones.
AllOnes(a, w) == \A i \in 1..w : a[i] = Base - 1

(* What incip does to one byte: it becomes 0, grows by one, or stays.      *)
LEMMA IncDigit ==
    ASSUME NEW w \in Nat, NEW a \in Word(w), NEW i \in 1..w
    PROVE  IF \A j \in (i + 1)..w : a[j] = Base - 1
             THEN IF a[i] = Base - 1 THEN Inc(a)[i] = 0 ELSE Inc(a)[i] = a[i] + 1
             ELSE Inc(a)[i] = a[i]
<1>1. a[i] \in 0..(Base - 1) /\ Base \in Nat \ {0} /\ a[i] \in Nat
  BY WordByte, BaseType
<1>2. a[i] = Base - 1 => (a[i] + 1) % Base = 0
  <2>1. (1 * Base + 0) % Base = 0
    BY <1>1, Quotient
  <2>2. QED
    BY <1>1, <2>1
<1>3. a[i] # Base - 1 => (a[i] + 1) % Base = a[i] + 1
  <2>1. ASSUME a[i] # Base - 1 PROVE (0 * Base + (a[i] + 1)) % Base = a[i] + 1
    <3>1. a[i] + 1 \in 0..(Base - 1)
      BY <1>1, <2>1
    <3>2. QED
      BY <1>1, <3>1, Quotient
  <2>2. 0 * Base + (a[i] + 1) = a[i] + 1
    BY <1>1
  <2>3. QED
    BY <2>1, <2>2
<1>4. QED
  BY <1>2, <1>3, IncWord

(* The loop of incip, byte by byte: a carry into the first i bytes adds    *)
(* one to the number they write, or leaves 0 when they are all ones;       *)
(* without a carry they stay.                                              *)
LEMMA IncPrefixes ==
    ASSUME NEW w \in Nat, NEW a \in Word(w)
    PROVE  \A i \in 0..w :
              IF \A j \in (i + 1)..w : a[j] = Base - 1
                THEN \/ Prefixes(Inc(a))[i] = Prefixes(a)[i] + 1
                     \/ AllOnes(a, i) /\ Prefixes(Inc(a))[i] = 0
                ELSE Prefixes(Inc(a))[i] = Prefixes(a)[i]
<1> DEFINE c == Inc(a)
           p == Prefixes(a)
           q == Prefixes(c)
           Carry(i) == \A j \in (i + 1)..w : a[j] = Base - 1
           P(i) == IF Carry(i) THEN \/ q[i] = p[i] + 1
                                    \/ AllOnes(a, i) /\ q[i] = 0
                               ELSE q[i] = p[i]
           T == {i \in 0..w : P(i)}
<1>1. c \in Word(w)
  BY IncWord
<1>2. 0 \in T
  <2>1. p[0] = 0 /\ q[0] = 0 /\ AllOnes(a, 0)
    BY <1>1, PrefixesValues DEF AllOnes
  <2> HIDE DEF p, q
  <2>2. QED
    BY <2>1
<1>3. ASSUME NEW i \in 0..(w - 1), i \in T PROVE i + 1 \in T
  <2>1. i + 1 \in 1..w /\ i + 1 - 1 = i /\ i \in 0..w
    OBVIOUS
  <2>2. p[i + 1] = p[i] * Base + a[i + 1] /\ p[i] \in Nat
    <3>1. p[i + 1] = p[i + 1 - 1] * Base + a[i + 1]
      BY <2>1, PrefixesValues
    <3>2. QED
      BY <2>1, <3>1, PrefixesValues
  <2>3. q[i + 1] = q[i] * Base + c[i + 1] /\ q[i] \in Nat
    <3>1. q[i + 1] = q[i + 1 - 1] * Base + c[i + 1]
      BY <1>1, <2>1, PrefixesValues
    <3>2. QED
      BY <1>1, <2>1, <3>1, PrefixesValues
  <2>4. IF Carry(i + 1)
          THEN IF a[i + 1] = Base - 1 THEN c[i + 1] = 0 ELSE c[i + 1] = a[i + 1] + 1
          ELSE c[i + 1] = a[i + 1]
    BY <2>1, IncDigit
  <2>5. Carry(i) <=> Carry(i + 1) /\ a[i + 1] = Base - 1
    <3>1. (i + 1)..w = {i + 1} \cup ((i + 2)..w)
      OBVIOUS
    <3>2. (i + 1) + 1 = i + 2
      OBVIOUS
    <3>3. QED
      BY <3>1, <3>2
  <2>6. AllOnes(a, i + 1) <=> AllOnes(a, i) /\ a[i + 1] = Base - 1
    <3>1. 1..(i + 1) = (1..i) \cup {i + 1}
      OBVIOUS
    <3>2. QED
      BY <3>1 DEF AllOnes
  <2>7. a[i + 1] \in Nat /\ Base \in Nat /\ Base >= 2
    BY <2>1, WordByte, BaseType
  <2> HIDE DEF p, q, c, Carry
  <2>8. CASE Carry(i + 1) /\ a[i + 1] = Base - 1
    <3>1. c[i + 1] = 0 /\ Carry(i)
      BY <2>4, <2>5, <2>8
    <3>2. CASE q[i] = p[i] + 1
      <4>1. q[i + 1] = (p[i] + 1) * Base + 0
        BY <2>3, <3>1, <3>2
      <4>2. q[i + 1] = p[i + 1] + 1
        BY <2>2, <2>7, <2>8, <4>1
      <4>3. QED
        BY <2>1, <2>8, <4>2
    <3>3. CASE AllOnes(a, i) /\ q[i] = 0
      <4>1. q[i + 1] = 0
        BY <2>3, <2>7, <3>1, <3>3
      <4>2. QED
        BY <2>1, <2>6, <2>8, <3>3, <4>1
    <3>4. QED
      BY <1>3, <3>1, <3>2, <3>3
  <2>9. CASE Carry(i + 1) /\ a[i + 1] # Base - 1
    <3>1. c[i + 1] = a[i + 1] + 1 /\ q[i] = p[i]
      BY <1>3, <2>4, <2>5, <2>9
    <3>2. q[i + 1] = p[i] * Base + (a[i + 1] + 1)
      BY <2>3, <3>1
    <3>3. p[i] * Base \in Nat
      BY <2>2, <2>7
    <3>4. q[i + 1] = p[i + 1] + 1
      BY <2>2, <2>7, <3>2, <3>3
    <3>5. QED
      BY <2>1, <2>9, <3>4
  <2>10. CASE ~Carry(i + 1)
    <3>1. c[i + 1] = a[i + 1] /\ q[i] = p[i]
      BY <1>3, <2>4, <2>5, <2>10
    <3>2. q[i + 1] = p[i + 1]
      BY <2>2, <2>3, <3>1
    <3>3. QED
      BY <2>1, <2>10, <3>2
  <2>11. QED
    BY <2>8, <2>9, <2>10
<1> HIDE DEF T
<1>4. \A i \in 0..w : i \in T
  BY <1>2, <1>3, UpToInduction
<1>5. QED
  BY <1>4 DEF T

(* The word of all ones writes the largest number.                         *)
LEMMA AllOnesValue ==
    ASSUME NEW w \in Nat, NEW a \in Word(w), AllOnes(a, w)
    PROVE  Value(a) = Pow2[Bits * w] - 1
<1> DEFINE p == Prefixes(a)
           T == {i \in 0..w : p[i] = Pow2[Bits * i] - 1}
<1>1. Bits \in Nat
  BY SubnetHostsAssumption
<1>2. 0 \in T
  <2>1. Bits * 0 = 0
    BY <1>1
  <2>2. QED
    BY <2>1, PrefixesValues, Pow2Values
<1>3. ASSUME NEW i \in 0..(w - 1), i \in T PROVE i + 1 \in T
  <2>1. i + 1 \in 1..w /\ i + 1 - 1 = i
    OBVIOUS
  <2>2. p[i + 1] = p[i + 1 - 1] * Base + a[i + 1]
    BY <2>1, PrefixesValues
  <2>3. Pow2[Bits * (i + 1)] = Pow2[Bits * i] * Base /\ Pow2[Bits * i] \in Nat
    <3>1. Bits * (i + 1) = Bits * i + Bits /\ Bits * i \in Nat
      BY <1>1
    <3>2. QED
      BY <1>1, <3>1, Pow2Sum, Pow2Values DEF Base
  <2>4. a[i + 1] = Base - 1 /\ Base \in Nat
    BY <2>1, BaseType DEF AllOnes
  <2> DEFINE m == Pow2[Bits * i]
  <2>5. m \in Nat /\ p[i + 1] = (m - 1) * Base + (Base - 1)
    BY <1>3, <2>1, <2>2, <2>3, <2>4
  <2> HIDE DEF m
  <2>6. (m - 1) * Base + (Base - 1) = m * Base - 1
    BY <2>4, <2>5
  <2>7. p[i + 1] = Pow2[Bits * (i + 1)] - 1
    BY <2>3, <2>5, <2>6 DEF m
  <2>8. QED
    BY <2>1, <2>7
<1> HIDE DEF T
<1>4. \A i \in 0..w : i \in T
  BY <1>2, <1>3, UpToInduction
<1>5. QED
  BY <1>4, ValueType DEF T

(* incip adds one, and turns the last address into the first.              *)
LEMMA IncValue ==
    ASSUME NEW w \in Nat, NEW a \in Word(w)
    PROVE  /\ Value(a) + 1 < Pow2[Bits * w] => Value(Inc(a)) = Value(a) + 1
           /\ Value(a) + 1 = Pow2[Bits * w] => Value(Inc(a)) = 0
<1>1. w \in 0..w /\ \A j \in (w + 1)..w : a[j] = Base - 1
  OBVIOUS
<1>2. Value(a) = Prefixes(a)[w] /\ Value(Inc(a)) = Prefixes(Inc(a))[w]
  BY ValueType, IncWord
<1>3. \/ Value(Inc(a)) = Value(a) + 1
      \/ AllOnes(a, w) /\ Value(Inc(a)) = 0
  BY <1>1, <1>2, IncPrefixes
<1>4. Value(a) \in Nat /\ Value(Inc(a)) \in Nat /\ Value(Inc(a)) < Pow2[Bits * w]
  BY ValueType, IncWord
<1>5. Pow2[Bits * w] \in Nat
  <2>1. Bits * w \in Nat
    BY SubnetHostsAssumption
  <2>2. QED
    BY <2>1, Pow2Values
<1>6. QED
  BY <1>3, <1>4, <1>5, AllOnesValue

-----------------------------------------------------------------------------
(* Quotients of the number of a word are numbers of its prefixes.          *)

(* Every number below the bound is written by some word.                   *)
LEMMA ValueSurjective ==
    \A w \in Nat : \A v \in Nat : v < Pow2[Bits * w] => \E a \in Word(w) : Value(a) = v
<1> DEFINE P(w) == \A v \in Nat : v < Pow2[Bits * w] => \E a \in Word(w) : Value(a) = v
           S == {w \in Nat : P(w)}
<1>1. Bits \in Nat
  BY SubnetHostsAssumption
<1>2. 0 \in S
  <2>1. Bits * 0 = 0
    BY <1>1
  <2>2. SUFFICES ASSUME NEW v \in Nat, v < Pow2[Bits * 0]
                 PROVE  \E a \in Word(0) : Value(a) = v
    OBVIOUS
  <2>3. v = 0
    BY <2>1, <2>2, Pow2Values
  <2> DEFINE a == [i \in 1..0 |-> 0]
  <2>4. a \in Word(0)
    <3>1. \A i \in 1..0 : FALSE
      OBVIOUS
    <3>2. QED
      BY <3>1 DEF Word
  <2> HIDE DEF a
  <2>5. Value(a) = 0
    BY <2>4, ValueType, PrefixesValues
  <2>6. QED
    BY <2>3, <2>4, <2>5
<1>3. ASSUME NEW w \in S PROVE w + 1 \in S
  <2>1. SUFFICES ASSUME NEW v \in Nat, v < Pow2[Bits * (w + 1)]
                 PROVE  \E a \in Word(w + 1) : Value(a) = v
    OBVIOUS
  <2> DEFINE u == v \div Base
             d == v % Base
  <2>2. u \in Nat /\ d \in 0..(Base - 1) /\ v = u * Base + d /\ Base \in Nat \ {0}
    <3>1. Base \in Nat \ {0}
      BY BaseType
    <3>2. u \in Nat /\ d \in 0..(Base - 1)
      BY <3>1, Division
    <3>3. v = u * Base + d
      BY <3>1, Division
    <3> HIDE DEF u, d
    <3>4. QED
      BY <3>1, <3>2, <3>3
  <2> HIDE DEF u, d
  <2>3. Pow2[Bits * (w + 1)] = Pow2[Bits * w] * Base /\ Pow2[Bits * w] \in Nat
    <3>1. Bits * (w + 1) = Bits * w + Bits /\ Bits * w \in Nat
      BY <1>1
    <3>2. QED
      BY <1>1, <3>1, Pow2Sum, Pow2Values DEF Base
  <2>4. u < Pow2[Bits * w]
    <3> DEFINE m == Pow2[Bits * w]
    <3>1. m \in Nat /\ u * Base + d < m * Base
      BY <2>1, <2>2, <2>3
    <3> HIDE DEF m
    <3>2. CASE u >= m
      <4>1. u * Base >= m * Base
        BY <2>2, <3>1, <3>2
      <4>2. QED
        BY <2>2, <3>1, <4>1
    <3>3. QED
      BY <2>2, <3>1, <3>2 DEF m
  <2>5. PICK b \in Word(w) : Value(b) = u
    BY <2>2, <2>4
  <2> DEFINE a == [i \in 1..(w + 1) |-> IF i = w + 1 THEN d ELSE b[i]]
  <2>6. a \in Word(w + 1)
    <3>1. d \in Byte
      BY <2>2 DEF Byte
    <3>2. ASSUME NEW i \in 1..(w + 1), i # w + 1 PROVE b[i] \in Byte
      BY <3>2 DEF Word
    <3>3. QED
      BY <3>1, <3>2 DEF Word
  <2>7. w + 1 \in 1..(w + 1) /\ a[w + 1] = d /\ \A i \in 1..w : a[i] = b[i]
    OBVIOUS
  <2> HIDE DEF a
  <2>8. Prefixes(a)[w] = Prefixes(b)[w]
    <3>1. w + 1 \in Nat /\ w \in Nat /\ w <= w + 1 /\ w <= w
      OBVIOUS
    <3>2. QED
      BY <2>6, <2>7, <3>1, PrefixesAgree
  <2>9. Prefixes(a)[w + 1] = Prefixes(a)[w] * Base + a[w + 1]
    <3>1. w + 1 \in Nat /\ w + 1 - 1 = w
      OBVIOUS
    <3>2. Prefixes(a)[w + 1] = Prefixes(a)[w + 1 - 1] * Base + a[w + 1]
      BY <2>6, <2>7, <3>1, PrefixesValues
    <3>3. QED
      BY <3>1, <3>2
  <2>10. Value(a) = v
    <3>1. Value(a) = Prefixes(a)[w + 1]
      BY <2>6, w + 1 \in Nat, ValueType
    <3>2. Value(b) = Prefixes(b)[w]
      BY ValueType
    <3>3. QED
      BY <2>2, <2>5, <2>7, <2>8, <2>9, <3>1, <3>2
  <2>11. QED
    BY <2>6, <2>10
<1> HIDE DEF S
<1>4. S = Nat
  <2>1. S \subseteq Nat
    BY DEF S
  <2>2. QED
    BY <1>2, <1>3, <2>1, NatSetInduction
<1>5. QED
  BY <1>4 DEF S

(* Dividing by a power of Base leaves the number of a prefix.              *)
LEMMA PrefixIsQuotient ==
    ASSUME NEW w \in Nat, NEW a \in Word(w)
    PROVE  \A d \in 0..w : Value(a) \div Pow2[Bits * d] = Prefixes(a)[w - d]
<1> DEFINE p == Prefixes(a)
           T == {d \in 0..w : Value(a) \div Pow2[Bits * d] = p[w - d]}
<1>1. Bits \in Nat
  BY SubnetHostsAssumption
<1>2. Base \in Nat \ {0}
  BY BaseType
<1>3. Value(a) = p[w] /\ Value(a) \in Nat
  BY ValueType
<1>4. 0 \in T
  <2>1. Bits * 0 = 0 /\ w - 0 = w
    BY <1>1
  <2> DEFINE x == Value(a)
  <2>2. x \in Nat
    BY <1>3
  <2> HIDE DEF x
  <2>3. (x * 1 + 0) \div 1 = x
    BY <2>2, Quotient
  <2>4. x * 1 + 0 = x
    BY <2>2
  <2>5. Value(a) \div Pow2[Bits * 0] = p[w - 0]
    BY <1>3, <2>1, <2>3, <2>4, Pow2Values DEF x
  <2>6. 0 \in 0..w
    OBVIOUS
  <2>7. QED
    BY <2>5, <2>6
<1>5. ASSUME NEW d \in 0..(w - 1), d \in T PROVE d + 1 \in T
  <2>1. w - d \in 1..w /\ w - (d + 1) = (w - d) - 1 /\ w - (d + 1) \in 0..w
    OBVIOUS
  <2>2. p[w - d] = p[w - (d + 1)] * Base + a[w - d] /\ p[w - (d + 1)] \in Nat
    BY <2>1, PrefixesValues
  <2>3. a[w - d] \in 0..(Base - 1)
    BY <2>1, WordByte
  <2>4. p[w - d] \div Base = p[w - (d + 1)]
    <3> DEFINE q == p[w - (d + 1)]
               r == a[w - d]
    <3>1. q \in Nat /\ r \in 0..(Base - 1)
      BY <2>2, <2>3
    <3> HIDE DEF q, r
    <3>2. (q * Base + r) \div Base = q
      BY <1>2, <3>1, Quotient
    <3>3. p[w - d] = q * Base + r
      BY <2>2 DEF q, r
    <3>4. QED
      BY <3>2, <3>3 DEF q
  <2>5. Pow2[Bits * (d + 1)] = Pow2[Bits * d] * Base /\ Pow2[Bits * d] \in Nat \ {0}
    <3>1. Bits * (d + 1) = Bits * d + Bits /\ Bits * d \in Nat
      BY <1>1
    <3>2. QED
      BY <1>1, <3>1, Pow2Sum, Pow2Values DEF Base
  <2>6. (Value(a) \div Pow2[Bits * d]) \div Base = Value(a) \div (Pow2[Bits * d] * Base)
    <3> DEFINE x == Value(a)
               m == Pow2[Bits * d]
    <3>1. x \in Nat /\ m \in Nat \ {0}
      BY <1>3, <2>5
    <3> HIDE DEF x, m
    <3>2. (x \div m) \div Base = x \div (m * Base)
      BY <1>2, <3>1, DivisionTwice
    <3>3. QED
      BY <3>2 DEF x, m
  <2>7. Value(a) \div Pow2[Bits * (d + 1)] = p[w - (d + 1)]
    BY <1>5, <2>4, <2>5, <2>6
  <2>8. d + 1 \in 0..w
    OBVIOUS
  <2>9. QED
    BY <2>7, <2>8
<1> HIDE DEF T
<1>6. \A d \in 0..w : d \in T
  BY <1>4, <1>5, UpToInduction
<1>7. QED
  BY <1>6 DEF T

-----------------------------------------------------------------------------
(* Bits and networks.                                                      *)

(* An even number added does not change the lowest bit.                    *)
LEMMA ParityOfSum ==
    ASSUME NEW x \in Nat, NEW y \in Nat
    PROVE  (2 * x + y) % 2 = y % 2 /\ (2 * x + y) \div 2 = x + (y \div 2)
  OBVIOUS

(* The bits of the last byte are the lowest bits of the number.            *)
LEMMA BitOfDigit ==
    ASSUME NEW p \in Nat, NEW d \in Nat, NEW r \in 0..(Bits - 1)
    PROVE  ((p * Base + d) \div Pow2[Bits - 1 - r]) % 2 = (d \div Pow2[Bits - 1 - r]) % 2
<1> DEFINE s == Bits - 1 - r
           m == Pow2[s]
           h == Pow2[r]
<1>1. Bits \in Nat /\ s \in Nat /\ r \in Nat /\ Bits = (r + s) + 1
  BY SubnetHostsAssumption
<1> HIDE DEF s
<1>2. m \in Nat \ {0} /\ h \in Nat \ {0}
  BY <1>1, Pow2Values
<1>3. Base = 2 * (h * m)
  <2>1. Pow2[(r + s) + 1] = 2 * Pow2[r + s]
    <3>1. r + s \in Nat
      BY <1>1
    <3>2. QED
      BY <3>1, Pow2Values
  <2>2. Pow2[r + s] = Pow2[r] * Pow2[s]
    BY <1>1, Pow2Sum
  <2>3. QED
    BY <1>1, <2>1, <2>2 DEF Base
<1> HIDE DEF m, h
<1> DEFINE e == d \div m
           t == d % m
<1>4. e \in Nat /\ t \in 0..(m - 1)
  BY <1>2, Division
<1>5. d = e * m + t
  BY <1>2, Division
<1> HIDE DEF e, t
<1>6. p * Base = (2 * (p * h)) * m
  <2>1. p * (2 * (h * m)) = (2 * (p * h)) * m
    BY <1>2
  <2>2. QED
    BY <1>3, <2>1
<1> DEFINE z == 2 * (p * h) + e
<1>7. z \in Nat
  BY <1>2, <1>4
<1>8. p * Base + d = z * m + t
  <2> DEFINE y == 2 * (p * h)
  <2>1. y \in Nat
    BY <1>2
  <2>2. p * Base + d = y * m + (e * m + t)
    BY <1>5, <1>6
  <2> HIDE DEF y
  <2>3. y * m + (e * m + t) = (y + e) * m + t
    BY <1>2, <1>4, <2>1
  <2>4. QED
    BY <2>2, <2>3 DEF y
<1> HIDE DEF z
<1>9. (p * Base + d) \div m = z
  <2>1. (z * m + t) \div m = z
    BY <1>2, <1>4, <1>7, Quotient
  <2>2. QED
    BY <1>8, <2>1
<1>10. z % 2 = e % 2
  <2>1. p * h \in Nat
    BY <1>2
  <2>2. QED
    BY <1>4, <2>1, ParityOfSum DEF z
<1>11. QED
  BY <1>9, <1>10 DEF m, s, e

(* Bit i of an address, counted from its first byte, is bit i of its       *)
(* number, counted from the highest.                                       *)
LEMMA BitOfValue ==
    ASSUME NEW a \in Address, NEW i \in 1..(Bits * Width)
    PROVE  Bit(a, i) = (Value(a) \div Pow2[Bits * Width - i]) % 2
<1> DEFINE j == (i - 1) \div Bits
           r == (i - 1) % Bits
           s == Bits - 1 - r
<1>1. Bits \in Nat \ {0} /\ Width \in Nat \ {0} /\ i - 1 \in Nat
  BY SubnetHostsAssumption
<1>2. j \in Nat /\ r \in 0..(Bits - 1)
  BY <1>1, Division
<1>3. i - 1 = j * Bits + r
  BY <1>1, Division
<1> HIDE DEF j, r
<1>4. j + 1 \in 1..Width
  <2>1. CASE j >= Width
    <3>1. j * Bits >= Width * Bits
      BY <1>1, <1>2, <2>1
    <3>2. Width * Bits = Bits * Width /\ i - 1 < Bits * Width
      BY <1>1
    <3>3. QED
      BY <1>1, <1>2, <1>3, <3>1, <3>2
  <2>2. QED
    BY <1>1, <1>2, <2>1
<1> DEFINE d == Width - (j + 1)
<1>5. d \in 0..Width /\ Width - d = j + 1
  BY <1>1, <1>4
<1>6. s \in Nat
  BY <1>1, <1>2
<1>7. Bits * Width - i = Bits * d + s
  <2>1. Bits * (d + (j + 1)) = Bits * d + Bits * (j + 1)
    BY <1>1, <1>2, <1>5
  <2>2. d + (j + 1) = Width
    BY <1>1, <1>2
  <2>3. Bits * (j + 1) = j * Bits + Bits
    BY <1>1, <1>2
  <2>4. i = j * Bits + r + 1
    BY <1>1, <1>2, <1>3
  <2>5. QED
    BY <1>1, <1>2, <1>5, <2>1, <2>2, <2>3, <2>4
<1> HIDE DEF d, s
<1>8. a \in Word(Width)
  BY DEF Address, Word
<1>9. Value(a) \div Pow2[Bits * d] = Prefixes(a)[j + 1]
  BY <1>1, <1>5, <1>8, PrefixIsQuotient
<1>10. Prefixes(a)[j + 1] = Prefixes(a)[j] * Base + a[j + 1] /\ Prefixes(a)[j] \in Nat
  <2> DEFINE k == j + 1
  <2>1. k \in 1..Width /\ k - 1 = j /\ j \in 0..Width
    BY <1>1, <1>2, <1>4
  <2>2. /\ \A h \in 1..Width : Prefixes(a)[h] = Prefixes(a)[h - 1] * Base + a[h]
        /\ \A h \in 0..Width : Prefixes(a)[h] \in Nat
    BY <1>1, <1>8, PrefixesValues
  <2> HIDE DEF k
  <2>3. Prefixes(a)[k] = Prefixes(a)[j] * Base + a[k] /\ Prefixes(a)[j] \in Nat
    BY <2>1, <2>2
  <2>4. QED
    BY <2>3 DEF k
<1>11. a[j + 1] \in Nat
  BY <1>1, <1>4, <1>8, WordByte
<1>12. Bits * d \in Nat
  BY <1>1, <1>5
<1>13. Value(a) \div Pow2[Bits * Width - i] = (Prefixes(a)[j] * Base + a[j + 1]) \div Pow2[s]
  <2> DEFINE x == Value(a)
             m1 == Pow2[Bits * d]
             m2 == Pow2[s]
  <2>1. x \in Nat /\ m1 \in Nat \ {0} /\ m2 \in Nat \ {0}
    BY <1>1, <1>6, <1>8, <1>12, ValueType, Pow2Values
  <2>2. Pow2[Bits * d + s] = m1 * m2
    BY <1>6, <1>12, Pow2Sum
  <2> HIDE DEF x, m1, m2
  <2>3. (x \div m1) \div m2 = x \div (m1 * m2)
    BY <2>1, DivisionTwice
  <2>4. QED
    BY <1>7, <1>9, <1>10, <2>2, <2>3 DEF x, m1, m2
<1>14. ((Prefixes(a)[j] * Base + a[j + 1]) \div Pow2[s]) % 2 = (a[j + 1] \div Pow2[s]) % 2
  BY <1>2, <1>10, <1>11, BitOfDigit DEF s
<1>15. Bit(a, i) = (a[j + 1] \div Pow2[s]) % 2
  BY DEF Bit, j, r, s
<1>16. QED
  BY <1>13, <1>14, <1>15

(* Two addresses have the first l bits in common when their numbers have   *)
(* the same quotient by the size of a network of that prefix length.       *)
LEMMA SharedBits ==
    ASSUME NEW a \in Address, NEW b \in Address
    PROVE  \A l \in 0..(Bits * Width) :
              Value(a) \div Pow2[Bits * Width - l] = Value(b) \div Pow2[Bits * Width - l]
                <=> \A i \in 1..l : Bit(a, i) = Bit(b, i)
<1> DEFINE n0 == Bits * Width
           Top(x, l) == Value(x) \div Pow2[n0 - l]
           Same(l) == \A i \in 1..l : Bit(a, i) = Bit(b, i)
           T == {l \in 0..n0 : Top(a, l) = Top(b, l) <=> Same(l)}
<1>1. n0 \in Nat
  BY SubnetHostsAssumption
<1>2. Width \in Nat /\ a \in Word(Width) /\ b \in Word(Width)
  BY SubnetHostsAssumption DEF Address, Word
<1>3. ASSUME NEW x \in {a, b} PROVE Value(x) \in Nat /\ Value(x) < Pow2[n0] /\ x \in Address
  BY <1>2, ValueType
<1>4. ASSUME NEW x \in {a, b} PROVE Top(x, 0) = 0
  <2>1. n0 - 0 = n0 /\ Pow2[n0] \in Nat \ {0}
    BY <1>1, Pow2Values
  <2> DEFINE v == Value(x)
             m == Pow2[n0]
  <2>2. v \in 0..(m - 1) /\ m \in Nat \ {0}
    BY <1>3, <2>1
  <2> HIDE DEF v, m
  <2>3. (0 * m + v) \div m = 0
    BY <2>2, Quotient
  <2>4. 0 * m + v = v
    BY <2>2
  <2>5. QED
    BY <2>1, <2>3, <2>4 DEF v, m
<1>5. ASSUME NEW x \in {a, b}, NEW l \in 0..(n0 - 1)
      PROVE  /\ Top(x, l + 1) \in Nat /\ Top(x, l) = Top(x, l + 1) \div 2
             /\ Bit(x, l + 1) = Top(x, l + 1) % 2
  <2> DEFINE k == n0 - (l + 1)
             v == Value(x)
             m == Pow2[k]
  <2>1. k \in Nat /\ n0 - l = k + 1
    BY <1>1
  <2>2. m \in Nat \ {0} /\ Pow2[n0 - l] = m * 2 /\ v \in Nat
    BY <1>3, <2>1, Pow2Values
  <2>3. l + 1 \in 1..n0
    BY <1>1
  <2>4. Bit(x, l + 1) = Top(x, l + 1) % 2
    BY <1>3, <2>3, BitOfValue
  <2>5. v \div m \in Nat /\ (v \div m) \div 2 = v \div (m * 2)
    <3> HIDE DEF v, m
    <3>1. v \div m \in Nat
      BY <2>2, Division
    <3>2. (v \div m) \div 2 = v \div (m * 2)
      BY <2>2, DivisionTwice
    <3>3. QED
      BY <3>1, <3>2
  <2>6. QED
    BY <2>2, <2>4, <2>5
<1>6. 0 \in T
  <2>1. Top(a, 0) = Top(b, 0)
    BY <1>4
  <2> HIDE DEF Top
  <2>2. QED
    BY <1>1, <2>1
<1>7. ASSUME NEW l \in 0..(n0 - 1), l \in T PROVE l + 1 \in T
  <2>1. Same(l + 1) <=> Same(l) /\ Bit(a, l + 1) = Bit(b, l + 1)
    <3>1. 1..(l + 1) = (1..l) \cup {l + 1}
      OBVIOUS
    <3>2. QED
      BY <3>1
  <2> DEFINE x == Top(a, l + 1)
             y == Top(b, l + 1)
  <2>2. x \in Nat /\ Top(a, l) = x \div 2 /\ Bit(a, l + 1) = x % 2
    BY <1>5
  <2>3. y \in Nat /\ Top(b, l) = y \div 2 /\ Bit(b, l + 1) = y % 2
    BY <1>5
  <2> HIDE DEF x, y, Top, Same
  <2>4. x = y <=> x \div 2 = y \div 2 /\ x % 2 = y % 2
    BY <2>2, <2>3
  <2>5. Top(a, l + 1) = Top(b, l + 1) <=> Same(l + 1)
    BY <1>7, <2>1, <2>2, <2>3, <2>4 DEF x, y
  <2>6. l + 1 \in 0..n0
    BY <1>1
  <2>7. QED
    BY <2>5, <2>6
<1> HIDE DEF T
<1>8. \A l \in 0..n0 : l \in T
  BY <1>1, <1>6, <1>7, UpToInduction
<1>9. QED
  BY <1>8 DEF T

(* net.IPNet.Contains is membership in the network, as a set of numbers.   *)
LEMMA ContainsInNetwork ==
    ASSUME NEW c \in [ip: Address, len: PrefixLens], NEW a \in Address
    PROVE  Contains(c, a) <=> InNetwork(c, a)
<1>1. c.len \in 0..(Bits * Width) /\ c.ip \in Address
  BY SubnetHostsAssumption
<1>2. QED
  BY <1>1, SharedBits DEF Contains, InNetwork

\* A CIDR, the number of its addresses, the first of them and the one after.
CIDR == [ip: Address, len: PrefixLens]

Size(c)  == Pow2[Bits * Width - c.len]
First(c) == (Value(c.ip) \div Size(c)) * Size(c)
Past(c)  == First(c) + Size(c)
Values   == Pow2[Bits * Width]

(* The size of a network and the number of addresses are positive, and the *)
(* networks of one prefix length divide the addresses evenly.              *)
LEMMA CIDRType ==
    ASSUME NEW c \in CIDR
    PROVE  /\ Bits * Width \in Nat /\ c.len \in 0..(Bits * Width) /\ c.ip \in Address
           /\ Bits * Width - c.len \in Nat
           /\ Size(c) \in Nat \ {0} /\ Values \in Nat \ {0}
           /\ Values = Pow2[c.len] * Size(c)
<1>1. Bits * Width \in Nat
  BY SubnetHostsAssumption
<1>2. c.len \in 0..(Bits * Width) /\ c.ip \in Address
  BY SubnetHostsAssumption DEF CIDR
<1> DEFINE k == Bits * Width - c.len
           l == c.len
<1>3. k \in Nat /\ l \in Nat /\ l + k = Bits * Width
  BY <1>1, <1>2
<1> HIDE DEF k, l
<1>4. Pow2[l + k] = Pow2[l] * Pow2[k]
  BY <1>3, Pow2Sum
<1>5. QED
  BY <1>1, <1>2, <1>3, <1>4, Pow2Values DEF Size, Values, k, l

(* An address is a word, and its number lies below the number of           *)
(* addresses.                                                              *)
LEMMA AddressValue ==
    ASSUME NEW a \in Address
    PROVE  Width \in Nat /\ a \in Word(Width) /\ Value(a) \in Nat /\ Value(a) < Values
<1>1. Width \in Nat /\ a \in Word(Width)
  BY SubnetHostsAssumption DEF Address, Word
<1>2. QED
  BY <1>1, ValueType DEF Values

(* The numbers of one quotient form an interval.                           *)
LEMMA QuotientInterval ==
    ASSUME NEW x \in Nat, NEW q \in Nat, NEW m \in Nat \ {0}
    PROVE  x \div m = q <=> q * m <= x /\ x < q * m + m
<1>1. ASSUME x \div m = q PROVE q * m <= x /\ x < q * m + m
  <2>1. x = (x \div m) * m + (x % m) /\ x % m \in 0..(m - 1)
    BY Division
  <2>2. x = q * m + (x % m)
    BY <1>1, <2>1
  <2>3. q * m \in Nat
    OBVIOUS
  <2>4. QED
    BY <2>1, <2>2, <2>3
<1>2. ASSUME q * m <= x /\ x < q * m + m PROVE x \div m = q
  <2> DEFINE t == q * m
             r == x - t
  <2>1. t \in Nat /\ r \in 0..(m - 1) /\ x = t + r
    BY <1>2
  <2> HIDE DEF r
  <2>2. (q * m + r) \div m = q
    BY <2>1, Quotient
  <2>3. QED
    BY <2>1, <2>2
<1>3. QED
  BY <1>1, <1>2

(* The addresses of a network are those of an interval of numbers that     *)
(* ends at the last address or before.                                     *)
LEMMA NetworkInterval ==
    ASSUME NEW c \in CIDR
    PROVE  /\ First(c) \in Nat /\ Past(c) \in Nat /\ Past(c) <= Values
           /\ \A a \in Address : InNetwork(c, a) <=> First(c) <= Value(a) /\ Value(a) < Past(c)
<1> DEFINE m == Size(c)
           x == Value(c.ip)
           q == x \div m
           k == Pow2[c.len]
<1>1. m \in Nat \ {0} /\ x \in Nat /\ x < Values /\ k \in Nat /\ Values = k * m
  BY CIDRType, AddressValue, Pow2Values
<1>2. \A a \in Address : InNetwork(c, a) <=> Value(a) \div m = q
  BY DEF InNetwork, Size
<1>3. First(c) = q * m /\ Past(c) = q * m + m
  BY DEF First, Past
<1> HIDE DEF m, x, k
<1>4. q \in Nat
  BY <1>1, Division
<1> HIDE DEF q
<1>5. q * m <= x
  BY <1>1, <1>4, QuotientInterval DEF q
<1>6. q < k
  <2>1. CASE q >= k
    <3>1. q * m >= k * m
      BY <1>1, <1>4, <2>1
    <3>2. QED
      BY <1>1, <1>4, <1>5, <3>1
  <2>2. QED
    BY <1>1, <1>4, <2>1
<1>7. q * m + m <= Values
  <2>1. (q + 1) * m <= k * m
    BY <1>1, <1>4, <1>6
  <2>2. QED
    BY <1>1, <1>4, <2>1
<1>8. q * m \in Nat
  BY <1>1, <1>4
<1>9. \A a \in Address : InNetwork(c, a) <=> First(c) <= Value(a) /\ Value(a) < Past(c)
  BY <1>1, <1>2, <1>3, <1>4, AddressValue, QuotientInterval
<1>10. QED
  BY <1>1, <1>3, <1>7, <1>8, <1>9

(* A network with a prefix does not have all addresses.                    *)
LEMMA NetworkNotAll ==
    ASSUME NEW c \in CIDR, c.len > 0
    PROVE  Size(c) < Values
<1>1. c.len - 1 \in Nat /\ (c.len - 1) + 1 = c.len
  BY CIDRType
<1>2. Pow2[c.len - 1] \in Nat \ {0} /\ Pow2[c.len] = 2 * Pow2[c.len - 1]
  <2> DEFINE k == c.len - 1
  <2>1. k \in Nat /\ k + 1 = c.len
    BY <1>1
  <2> HIDE DEF k
  <2>2. Pow2[k] \in Nat \ {0} /\ Pow2[k + 1] = 2 * Pow2[k]
    BY <2>1, Pow2Values
  <2>3. QED
    BY <2>1, <2>2 DEF k
<1> DEFINE h == Pow2[c.len - 1]
           m == Size(c)
<1>3. Values = (2 * h) * m /\ m \in Nat \ {0} /\ h \in Nat \ {0}
  BY <1>2, CIDRType
<1> HIDE DEF h, m
<1>4. h * m >= m
  BY <1>3
<1>5. (2 * h) * m = h * m + h * m
  BY <1>3
<1>6. h * m \in Nat
  BY <1>3
<1>7. m < Values
  BY <1>3, <1>4, <1>5, <1>6
<1>8. QED
  BY <1>7 DEF m

(* One whose prefix is not the whole address has two or more.              *)
LEMMA NetworkHasTwo ==
    ASSUME NEW c \in CIDR, c.len < Bits * Width
    PROVE  Size(c) >= 2
<1> DEFINE k == Bits * Width - c.len - 1
<1>1. k \in Nat /\ Bits * Width - c.len = k + 1
  BY CIDRType
<1> HIDE DEF k
<1>2. Pow2[k + 1] = 2 * Pow2[k] /\ Pow2[k] \in Nat \ {0}
  BY <1>1, Pow2Values
<1>3. QED
  BY <1>1, <1>2 DEF Size

(* An address whose number is a multiple of the size of the network has    *)
(* only zeros after the prefix.                                            *)
LEMMA HostBitsZero ==
    ASSUME NEW c \in CIDR, NEW a \in Address, NEW q \in Nat, Value(a) = q * Size(c),
           NEW i \in (c.len + 1)..(Bits * Width)
    PROVE  Bit(a, i) = 0
<1> DEFINE s == Bits * Width - i
           t == i - c.len - 1
           m == Pow2[s]
           h == Pow2[t]
<1>1. i \in 1..(Bits * Width) /\ s \in Nat /\ t \in Nat /\ Bits * Width - c.len = (t + s) + 1
  BY CIDRType
<1>2. Bit(a, i) = (Value(a) \div m) % 2
  BY <1>1, BitOfValue
<1> HIDE DEF s, t
<1>3. m \in Nat \ {0} /\ h \in Nat
  BY <1>1, Pow2Values
<1>4. Size(c) = 2 * (h * m)
  <2>1. t + s \in Nat
    BY <1>1
  <2>2. Pow2[(t + s) + 1] = 2 * Pow2[t + s]
    BY <2>1, Pow2Values
  <2>3. Pow2[t + s] = h * m
    BY <1>1, Pow2Sum
  <2>4. QED
    BY <1>1, <2>2, <2>3 DEF Size
<1> HIDE DEF m, h
<1> DEFINE z == 2 * (q * h)
<1>5. q * (2 * (h * m)) = (2 * (q * h)) * m
  BY <1>3
<1>6. q * h \in Nat
  BY <1>3
<1>7. z \in Nat /\ z % 2 = 0
  BY <1>6
<1>8. Value(a) = z * m
  BY <1>4, <1>5
<1> HIDE DEF z
<1>9. (z * m + 0) \div m = z
  BY <1>3, <1>7, Quotient
<1>10. z * m + 0 = z * m
  BY <1>3, <1>7
<1>11. QED
  BY <1>2, <1>7, <1>8, <1>9, <1>10

(* An address is determined by its bits.                                   *)
LEMMA SameBits ==
    ASSUME NEW a \in Address, NEW b \in Address,
           \A i \in 1..(Bits * Width) : Bit(a, i) = Bit(b, i)
    PROVE  a = b
<1> DEFINE k == Bits * Width
<1>1. k \in Nat /\ k \in 0..k /\ k - k = 0
  BY SubnetHostsAssumption
<1>2. Value(a) \div Pow2[k - k] = Value(b) \div Pow2[k - k]
  BY <1>1, SharedBits
<1>3. Value(a) \div 1 = Value(b) \div 1
  BY <1>1, <1>2, Pow2Values
<1> DEFINE x == Value(a)
           y == Value(b)
<1>4. x \in Nat /\ y \in Nat /\ x \div 1 = y \div 1
  BY <1>3, AddressValue
<1> HIDE DEF x, y
<1>5. x = y
  BY <1>4
<1>6. QED
  BY <1>5, AddressValue, ValueInjective DEF x, y

(* What net.ParseCIDR returns exists, is unique, and is the first address  *)
(* of the network.                                                         *)
LEMMA NetworkFirst ==
    ASSUME NEW c \in CIDR
    PROVE  Network(c) \in Address /\ Value(Network(c)) = First(c)
<1> DEFINE Is(a) == Contains(c, a) /\ \A i \in (c.len + 1)..(Bits * Width) : Bit(a, i) = 0
<1>1. First(c) \in Nat /\ First(c) < Past(c) /\ First(c) < Values
  <2>1. Size(c) \in Nat \ {0} /\ Values \in Nat
    BY CIDRType
  <2>2. QED
    BY <2>1, NetworkInterval DEF Past
<1>2. PICK a \in Address : Value(a) = First(c)
  <2>1. Width \in Nat
    BY SubnetHostsAssumption
  <2>2. \E a \in Word(Width) : Value(a) = First(c)
    BY <1>1, <2>1, ValueSurjective DEF Values
  <2>3. QED
    BY <2>2 DEF Word, Address
<1>3. Is(a)
  <2>1. InNetwork(c, a)
    BY <1>1, <1>2, NetworkInterval
  <2>2. Contains(c, a)
    BY <2>1, ContainsInNetwork DEF CIDR
  <2>3. Value(c.ip) \div Size(c) \in Nat
    BY CIDRType, AddressValue, Division
  <2>4. \A i \in (c.len + 1)..(Bits * Width) : Bit(a, i) = 0
    BY <1>2, <2>3, HostBitsZero DEF First
  <2>5. QED
    BY <2>2, <2>4
<1>4. ASSUME NEW b \in Address, Is(b) PROVE b = a
  <2>1. ASSUME NEW i \in 1..(Bits * Width) PROVE Bit(b, i) = Bit(a, i)
    <3>1. CASE i <= c.len
      <4>1. i \in 1..c.len
        BY <3>1, CIDRType
      <4>2. QED
        BY <1>3, <1>4, <4>1 DEF Contains
    <3>2. CASE i > c.len
      <4>1. i \in (c.len + 1)..(Bits * Width)
        BY <3>2, CIDRType
      <4>2. QED
        BY <1>3, <1>4, <4>1
    <3>3. QED
      BY <3>1, <3>2, CIDRType
  <2>2. QED
    BY <2>1, SameBits
<1>5. Network(c) = CHOOSE b \in Address : Is(b)
  BY DEF Network
<1> HIDE DEF Is
<1>6. Network(c) = a
  BY <1>3, <1>4, <1>5
<1>7. QED
  BY <1>2, <1>6

-----------------------------------------------------------------------------
(* The IPv4-mapped form.                                                   *)

(* The IPv4-mapped form has one byte more, a zero, before the same bytes.  *)
LEMMA MappedWord ==
    ASSUME NEW a \in Address
    PROVE  /\ Mapped(a) \in Word(Width + 1)
           /\ Mapped(a)[1] = 0
           /\ \A i \in 1..Width : Mapped(a)[i + 1] = a[i]
           /\ Unmapped(Mapped(a)) = a
<1>1. Width \in Nat /\ a \in Seq(Byte) /\ Len(a) = Width
  BY AddressValue, WordSeq
<1>2. 0 \in Byte
  BY BaseType DEF Byte
<1>3. Mapped(a) \in Seq(Byte) /\ Len(Mapped(a)) = Width + 1
  BY <1>1, <1>2 DEF Mapped
<1>4. Mapped(a) \in Word(Width + 1)
  BY <1>3 DEF Word
<1>5. Mapped(a)[1] = 0 /\ \A i \in 1..Width : Mapped(a)[i + 1] = a[i]
  BY <1>1 DEF Mapped
<1>6. Unmapped(Mapped(a)) = a
  <2>1. Tail(Mapped(a)) \in Seq(Byte) /\ Len(Tail(Mapped(a))) = Width
    BY <1>1, <1>3
  <2>2. \A i \in 1..Width : Tail(Mapped(a))[i] = a[i]
    BY <1>1, <1>3, <1>5
  <2>3. QED
    BY <1>1, <2>1, <2>2 DEF Unmapped
<1>7. QED
  BY <1>4, <1>5, <1>6

(* A mapped word that begins with 0 is the mapped form of an address.      *)
LEMMA UnmappedAddress ==
    ASSUME NEW b \in Word(Width + 1)
    PROVE  /\ Unmapped(b) \in Address
           /\ b[1] = 0 => Mapped(Unmapped(b)) = b
<1>1. Width \in Nat /\ Width + 1 \in Nat
  BY SubnetHostsAssumption
<1>2. b \in Seq(Byte) /\ Len(b) = Width + 1
  BY <1>1, WordSeq
<1>3. Tail(b) \in Seq(Byte) /\ Len(Tail(b)) = Width /\ \A i \in 1..Width : Tail(b)[i] = b[i + 1]
  BY <1>1, <1>2
<1>4. Unmapped(b) \in Address
  <2> DEFINE t == Tail(b)
  <2>1. t \in Seq(Byte) /\ Len(t) = Width
    BY <1>3
  <2> HIDE DEF t
  <2>2. t \in [1..Width -> Byte]
    BY <1>1, <2>1
  <2>3. QED
    BY <2>2 DEF t, Unmapped, Address
<1>5. ASSUME b[1] = 0 PROVE Mapped(Unmapped(b)) = b
  <2> DEFINE m == Mapped(Unmapped(b))
  <2>1. m \in Word(Width + 1) /\ m[1] = 0 /\ \A i \in 1..Width : m[i + 1] = Tail(b)[i]
    BY <1>4, MappedWord DEF Unmapped
  <2>2. ASSUME NEW i \in 1..(Width + 1) PROVE m[i] = b[i]
    <3> HIDE DEF m
    <3>1. CASE i = 1
      BY <1>5, <2>1, <3>1
    <3>2. CASE i # 1
      <4>1. i - 1 \in 1..Width /\ (i - 1) + 1 = i
        BY <1>1, <3>2
      <4>2. QED
        BY <1>3, <2>1, <4>1
    <3>3. QED
      BY <3>1, <3>2
  <2> HIDE DEF m
  <2>3. m = [i \in 1..(Width + 1) |-> m[i]] /\ b = [i \in 1..(Width + 1) |-> b[i]]
    BY <2>1 DEF Word
  <2>4. m = b
    BY <2>2, <2>3
  <2>5. QED
    BY <2>4 DEF m
<1>6. QED
  BY <1>4, <1>5

(* Mapping does not change the number.                                     *)
LEMMA MappedValue ==
    ASSUME NEW a \in Address
    PROVE  Value(Mapped(a)) = Value(a)
<1> DEFINE m == Mapped(a)
           T == {i \in 0..Width : Prefixes(m)[i + 1] = Prefixes(a)[i]}
<1>1. Width \in Nat /\ Width + 1 \in Nat /\ a \in Word(Width)
  BY AddressValue
<1>2. m \in Word(Width + 1) /\ m[1] = 0 /\ \A i \in 1..Width : m[i + 1] = a[i]
  BY MappedWord
<1> HIDE DEF m
<1>3. \A i \in 1..(Width + 1) : Prefixes(m)[i] = Prefixes(m)[i - 1] * Base + m[i]
  BY <1>1, <1>2, PrefixesValues
<1>4. \A i \in 1..Width : Prefixes(a)[i] = Prefixes(a)[i - 1] * Base + a[i]
  BY <1>1, PrefixesValues
<1>5. 0 \in T
  <2>1. Prefixes(m)[0] = 0 /\ Prefixes(a)[0] = 0
    BY <1>1, <1>2, PrefixesValues
  <2>2. Prefixes(m)[1] = 0 * Base + 0
    <3>1. 1 \in 1..(Width + 1) /\ 1 - 1 = 0
      BY <1>1
    <3>2. QED
      BY <1>2, <1>3, <2>1, <3>1
  <2>3. 0 + 1 = 1 /\ 0 \in 0..Width
    BY <1>1
  <2>4. QED
    BY <2>1, <2>2, <2>3, BaseType
<1>6. ASSUME NEW i \in 0..(Width - 1), i \in T PROVE i + 1 \in T
  <2> DEFINE k == i + 1
             l == k + 1
  <2>1. k \in 1..Width /\ k - 1 = i /\ l \in 1..(Width + 1) /\ l - 1 = k /\ k \in 0..Width
    BY <1>1
  <2>2. Prefixes(m)[k] = Prefixes(a)[i]
    BY <1>6
  <2>3. m[l] = a[k]
    BY <1>2, <2>1
  <2> HIDE DEF k, l
  <2>4. Prefixes(m)[l] = Prefixes(m)[k] * Base + m[l]
    BY <1>3, <2>1
  <2>5. Prefixes(a)[k] = Prefixes(a)[i] * Base + a[k]
    BY <1>4, <2>1
  <2>6. Prefixes(m)[l] = Prefixes(a)[k]
    BY <2>2, <2>3, <2>4, <2>5
  <2>7. QED
    BY <2>1, <2>6 DEF k, l
<1> HIDE DEF T
<1>7. \A i \in 0..Width : i \in T
  BY <1>1, <1>5, <1>6, UpToInduction
<1>8. Prefixes(m)[Width + 1] = Prefixes(a)[Width]
  BY <1>1, <1>7 DEF T
<1>9. Value(m) = Prefixes(m)[Width + 1] /\ Value(a) = Prefixes(a)[Width]
  BY <1>1, <1>2, ValueType
<1>10. QED
  BY <1>8, <1>9 DEF m

-----------------------------------------------------------------------------
(* Sequences of addresses.                                                 *)

Ascends(s) == \A i, j \in DOMAIN s : i < j => Value(s[i]) < Value(s[j])

(* Ascending(S) has the members of S, each once, by rising numbers.  The   *)
(* rank of a member, the number of those before it, maps S one to one into *)
(* 0..(Cardinality(S) - 1), hence onto it: every place of the result is    *)
(* taken.                                                                  *)
LEMMA AscendingSorts ==
    ASSUME NEW S, S \subseteq Address, IsFiniteSet(S)
    PROVE  /\ Ascending(S) \in Seq(Address)
           /\ Range(Ascending(S)) = S
           /\ Ascends(Ascending(S))
<1> DEFINE c == Cardinality(S)
           Below(a) == {b \in S : Before(b, a)}
           r == [a \in S |-> Cardinality(Below(a)) + 1]
           s == Ascending(S)
<1>1. c \in Nat
  BY FS_CardinalityType
<1>2. \A a \in S : Below(a) = {b \in S : Value(b) < Value(a)}
  BY AddressValue, BeforeValue
<1>3. \A a \in S : IsFiniteSet(Below(a)) /\ Cardinality(Below(a)) \in Nat
  <2>1. ASSUME NEW a \in S PROVE IsFiniteSet(Below(a))
    <3>1. Below(a) \in SUBSET S
      OBVIOUS
    <3> HIDE DEF Below
    <3>2. QED
      BY <3>1, FS_Subset
  <2> HIDE DEF Below
  <2>2. QED
    BY <2>1, FS_CardinalityType
<1>4. ASSUME NEW T, NEW U, IsFiniteSet(U), T \subseteq U, NEW x \in U, x \notin T
      PROVE  Cardinality(T) < Cardinality(U)
  <2>1. T \in SUBSET U /\ T # U
    BY <1>4
  <2>2. Cardinality(T) <= Cardinality(U) /\ (Cardinality(U) = Cardinality(T) => U = T) /\ IsFiniteSet(T)
    BY <1>4, <2>1, FS_Subset
  <2>3. Cardinality(T) \in Nat /\ Cardinality(U) \in Nat
    BY <1>4, <2>2, FS_CardinalityType
  <2>4. QED
    BY <2>1, <2>2, <2>3
<1>5. ASSUME NEW a \in S PROVE Cardinality(Below(a)) < c
  <2>1. Below(a) \subseteq S /\ a \notin Below(a)
    <3>1. Value(a) \in Nat
      BY AddressValue
    <3>2. QED
      BY <1>2, <3>1
  <2> HIDE DEF Below
  <2>2. QED
    BY <1>4, <2>1
<1>6. ASSUME NEW a \in S, NEW b \in S, Value(a) < Value(b)
      PROVE  Cardinality(Below(a)) < Cardinality(Below(b))
  <2>1. Below(a) \subseteq Below(b) /\ a \in Below(b) /\ a \notin Below(a)
    <3>1. \A x \in S : Value(x) \in Nat
      BY AddressValue
    <3>2. QED
      BY <1>2, <1>6, <3>1
  <2> HIDE DEF Below
  <2>2. QED
    BY <1>3, <1>4, <2>1
<1>7. \A a, b \in S : a # b => Value(a) < Value(b) \/ Value(b) < Value(a)
  BY AddressValue, ValueInjective
<1> HIDE DEF Below, c
<1>8. r \in Injection(S, 1..c)
  <2>1. r \in [S -> 1..c]
    BY <1>1, <1>3, <1>5
  <2>2. ASSUME NEW a \in S, NEW b \in S, r[a] = r[b] PROVE a = b
    <3>1. Cardinality(Below(a)) = Cardinality(Below(b))
      BY <1>3, <2>2
    <3>2. Cardinality(Below(a)) \in Nat
      BY <1>3
    <3>3. QED
      BY <1>6, <1>7, <3>1, <3>2
  <2> HIDE DEF r
  <2>3. QED
    BY <2>1, <2>2 DEF Injection, IsInjective
<1>9. r \in Surjection(S, 1..c)
  <2>1. IsFiniteSet(1..c) /\ Cardinality(1..c) = c
    BY <1>1, FS_Interval
  <2> HIDE DEF r
  <2>2. QED
    BY <1>8, <2>1, FS_Injection DEF c
<1>10. ASSUME NEW i \in 1..c PROVE s[i] \in S /\ Cardinality(Below(s[i])) = i - 1
  <2>1. PICK a \in S : r[a] = i
    BY <1>9 DEF Surjection
  <2>2. Cardinality(Below(a)) = i - 1
    BY <1>3, <2>1
  <2>3. s[i] = CHOOSE b \in S : Cardinality(Below(b)) = i - 1
    BY DEF Ascending, Below, c
  <2> HIDE DEF s
  <2>4. QED
    BY <2>2, <2>3
<1>11. s = [i \in 1..c |-> s[i]]
  <2> DEFINE At(i) == CHOOSE b \in S : Cardinality(Below(b)) = i - 1
  <2>1. s = [i \in 1..c |-> At(i)]
    BY DEF Ascending, Below, c
  <2> HIDE DEF At, s
  <2>2. QED
    BY <2>1
<1> HIDE DEF s
<1>12. s \in Seq(Address)
  <2>1. s \in [1..c -> Address]
    BY <1>10, <1>11
  <2>2. QED
    BY <1>1, <2>1
<1>13. DOMAIN s = 1..c
  BY <1>11
<1>14. Range(s) = S
  <2>1. ASSUME NEW a \in S PROVE \E i \in 1..c : s[i] = a
    <3>1. Cardinality(Below(a)) + 1 \in 1..c /\ Cardinality(Below(a)) \in Nat
      BY <1>1, <1>3, <1>5
    <3> DEFINE i == Cardinality(Below(a)) + 1
    <3>2. i \in 1..c /\ i - 1 = Cardinality(Below(a))
      BY <3>1
    <3> HIDE DEF i
    <3>3. s[i] \in S /\ Cardinality(Below(s[i])) = Cardinality(Below(a))
      BY <1>10, <3>2
    <3>4. s[i] = a
      BY <1>6, <1>7, <3>1, <3>3
    <3>5. QED
      BY <3>2, <3>4
  <2>2. QED
    BY <1>10, <1>13, <2>1 DEF Range
<1>15. Ascends(s)
  <2>1. SUFFICES ASSUME NEW i \in 1..c, NEW j \in 1..c, i < j
                 PROVE  Value(s[i]) < Value(s[j])
    BY <1>13 DEF Ascends
  <2>2. s[i] \in S /\ s[j] \in S /\ Cardinality(Below(s[i])) < Cardinality(Below(s[j]))
    BY <1>1, <1>10, <2>1
  <2>3. s[i] # s[j]
    <3>1. Cardinality(Below(s[i])) \in Nat
      BY <1>3, <2>2
    <3>2. QED
      BY <2>2, <3>1
  <2>4. CASE Value(s[j]) < Value(s[i])
    <3>1. Cardinality(Below(s[j])) < Cardinality(Below(s[i]))
      BY <1>6, <2>2, <2>4
    <3>2. Cardinality(Below(s[i])) \in Nat /\ Cardinality(Below(s[j])) \in Nat
      BY <1>3, <2>2
    <3>3. QED
      BY <2>2, <3>1, <3>2
  <2>5. QED
    BY <1>7, <2>2, <2>3, <2>4
<1>16. QED
  BY <1>12, <1>14, <1>15 DEF s

(* A sequence has finitely many members, and none when it is empty.        *)
LEMMA RangeOfSeq ==
    ASSUME NEW S, NEW s \in Seq(S)
    PROVE  /\ Range(s) \subseteq S
           /\ IsFiniteSet(Range(s))
           /\ Range(s) = {} <=> s = <<>>
<1>1. DOMAIN s = 1..Len(s) /\ Len(s) \in Nat /\ s \in [1..Len(s) -> S]
  OBVIOUS
<1>2. s \in Surjection(1..Len(s), Range(s))
  BY <1>1 DEF Surjection, Range
<1>3. IsFiniteSet(Range(s))
  BY <1>1, <1>2, FS_Interval, FS_Surjection
<1>4. Range(s) = {} <=> s = <<>>
  <2>1. CASE s = <<>>
    <3>1. Len(s) = 0
      BY <2>1
    <3>2. \A i \in 1..Len(s) : FALSE
      BY <3>1
    <3>3. QED
      BY <1>1, <2>1, <3>2 DEF Range
  <2>2. CASE s # <<>>
    <3>1. 1 \in 1..Len(s)
      BY <2>2
    <3>2. s[1] \in Range(s)
      BY <1>1, <3>1 DEF Range
    <3>3. QED
      BY <2>2, <3>2
  <2>3. QED
    BY <2>1, <2>2
<1>5. Range(s) \subseteq S
  BY <1>1 DEF Range
<1>6. QED
  BY <1>3, <1>4, <1>5

(* Append adds one member.                                                 *)
LEMMA RangeOfAppend ==
    ASSUME NEW S, NEW s \in Seq(S), NEW x \in S
    PROVE  /\ Append(s, x) \in Seq(S)
           /\ Range(Append(s, x)) = Range(s) \cup {x}
<1> DEFINE t == Append(s, x)
<1>1. Len(s) \in Nat /\ DOMAIN s = 1..Len(s)
  OBVIOUS
<1>2. t \in Seq(S) /\ Len(t) = Len(s) + 1 /\ DOMAIN t = 1..(Len(s) + 1)
  OBVIOUS
<1>3. t[Len(s) + 1] = x /\ \A i \in 1..Len(s) : t[i] = s[i]
  OBVIOUS
<1> HIDE DEF t
<1>4. Range(t) = Range(s) \cup {x}
  <2>1. ASSUME NEW y \in Range(s) PROVE y \in Range(t)
    BY <1>1, <1>2, <1>3 DEF Range
  <2>2. x \in Range(t)
    <3>1. Len(s) + 1 \in DOMAIN t
      BY <1>1, <1>2
    <3>2. QED
      BY <1>3, <3>1 DEF Range
  <2>3. ASSUME NEW y \in Range(t) PROVE y \in Range(s) \/ y = x
    <3>1. PICK i \in 1..(Len(s) + 1) : t[i] = y
      BY <1>2 DEF Range
    <3>2. CASE i = Len(s) + 1
      BY <1>3, <3>1, <3>2
    <3>3. CASE i # Len(s) + 1
      <4>1. i \in 1..Len(s)
        BY <1>1, <3>3
      <4>2. QED
        BY <1>1, <1>3, <3>1, <4>1 DEF Range
    <3>4. QED
      BY <3>2, <3>3
  <2>4. QED
    BY <2>1, <2>2, <2>3
<1>5. QED
  BY <1>2, <1>4 DEF t

============================================================================
