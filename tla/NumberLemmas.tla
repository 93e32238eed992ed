---------------------------- MODULE NumberLemmas ----------------------------
(***************************************************************************)
(* Induction and recursion over the naturals, in a form that speaks of sets  *)
(* and functions only: a set of naturals has a least element, and a function *)
(* is defined by its value at 0 and a step.                                  *)
(***************************************************************************)
EXTENDS FiniteSetTheorems, TLAPS

LEMMA LeastNatural ==
  ASSUME NEW T \in SUBSET Nat, T # {}
  PROVE  \E n \in T : \A m \in T : n <= m
<1>1. PICK n \in T : \A m \in T : ~(<<m, n>> \in OpToRel(<, Nat))
  BY WFMin, NatLessThanWellFounded, Zenon
<1>2. \A m \in T : ~(m < n)
  BY <1>1 DEF OpToRel
<1>3. QED
  BY <1>2

LEMMA NatSetInduction ==
  ASSUME NEW S, 0 \in S, \A n \in Nat : n \in S => n + 1 \in S
  PROVE  Nat \subseteq S
<1> SUFFICES ASSUME Nat \ S # {} PROVE FALSE
  OBVIOUS
<1>1. PICK n \in Nat \ S : \A m \in Nat \ S : n <= m
  BY LeastNatural
<1>2. n # 0 /\ n - 1 \in Nat
  BY <1>1
<1>3. n - 1 \in S
  BY <1>1, <1>2
<1>4. QED
  BY <1>1, <1>2, <1>3

(* g computes the recursion up to n. *)
Computes(g, n, S, base, step) ==
  /\ g \in [0..n -> S]
  /\ g[0] = base
  /\ \A i \in 0..(n - 1) : g[i + 1] = step[<<i, g[i]>>]

LEMMA ComputesExists ==
  ASSUME NEW S, NEW base \in S, NEW step \in [Nat \X S -> S]
  PROVE  \A n \in Nat : \E g : Computes(g, n, S, base, step)
<1> DEFINE T == {n \in Nat : \E g : Computes(g, n, S, base, step)}
<1>1. 0 \in T
  <2>1. Computes([i \in 0..0 |-> base], 0, S, base, step)
    BY DEF Computes
  <2>2. QED
    BY <2>1
<1>2. ASSUME NEW n \in Nat, n \in T
      PROVE  n + 1 \in T
  <2>1. PICK g : Computes(g, n, S, base, step)
    BY <1>2
  <2> DEFINE h == [i \in 0..(n + 1) |-> IF i <= n THEN g[i] ELSE step[<<n, g[n]>>]]
  <2>2. step[<<n, g[n]>>] \in S
    BY <2>1 DEF Computes
  <2>3. h \in [0..(n + 1) -> S]
    BY <2>1, <2>2 DEF Computes
  <2>4. h[0] = base
    BY <2>1 DEF Computes
  <2>5. ASSUME NEW i \in 0..n PROVE h[i + 1] = step[<<i, h[i]>>]
    <3>1. CASE i = n
      BY <3>1
    <3>2. CASE i < n
      BY <2>1, <3>2 DEF Computes
    <3>3. QED
      BY <3>1, <3>2
  <2>6. Computes(h, n + 1, S, base, step)
    <3> HIDE DEF h
    <3>1. QED
      BY <2>3, <2>4, <2>5 DEF Computes
  <2>7. QED
    BY <2>6
<1>3. Nat \subseteq T
  <2> HIDE DEF T
  <2>1. QED
    BY <1>1, <1>2, NatSetInduction
<1>4. QED
  BY <1>3

LEMMA ComputesAgree ==
  ASSUME NEW S, NEW base, NEW step, NEW m \in Nat, NEW n \in Nat, m <= n,
         NEW g, NEW h, Computes(g, m, S, base, step), Computes(h, n, S, base, step)
  PROVE  \A i \in 0..m : g[i] = h[i]
<1> DEFINE T == {i \in Nat : i <= m => g[i] = h[i]}
<1>1. 0 \in T
  BY DEF Computes
<1>2. ASSUME NEW i \in Nat, i \in T PROVE i + 1 \in T
  <2>1. CASE i + 1 <= m
    <3>1. i \in 0..(m - 1) /\ i \in 0..(n - 1) /\ g[i] = h[i]
      BY <1>2, <2>1
    <3>2. g[i + 1] = step[<<i, g[i]>>]
      BY <3>1 DEF Computes
    <3>3. h[i + 1] = step[<<i, h[i]>>]
      BY <3>1 DEF Computes
    <3>4. g[i + 1] = h[i + 1]
      BY <3>1, <3>2, <3>3
    <3>5. QED
      BY <3>4
  <2>2. QED
    BY <2>1
<1>3. Nat \subseteq T
  <2> HIDE DEF T
  <2>1. QED
    BY <1>1, <1>2, NatSetInduction
<1>4. QED
  BY <1>3

(* The recursion theorem. *)
Recurs(f, S, base, step) ==
  /\ f \in [Nat -> S]
  /\ f[0] = base
  /\ \A n \in Nat : f[n + 1] = step[<<n, f[n]>>]

LEMMA RecursiveFunction ==
  ASSUME NEW S, NEW base \in S, NEW step \in [Nat \X S -> S]
  PROVE  \E f : Recurs(f, S, base, step)
<1> DEFINE approx(n) == CHOOSE g : Computes(g, n, S, base, step)
           f == [n \in Nat |-> approx(n)[n]]
<1>1. \A n \in Nat : Computes(approx(n), n, S, base, step)
  BY ComputesExists
<1> HIDE DEF approx
<1>2. f \in [Nat -> S]
  BY <1>1 DEF Computes
<1>3. f[0] = base
  BY <1>1 DEF Computes
<1>4. ASSUME NEW n \in Nat PROVE f[n + 1] = step[<<n, f[n]>>]
  <2>1. Computes(approx(n), n, S, base, step) /\ Computes(approx(n + 1), n + 1, S, base, step)
    BY <1>1
  <2>2. approx(n)[n] = approx(n + 1)[n]
    BY <2>1, ComputesAgree
  <2>3. approx(n + 1)[n + 1] = step[<<n, approx(n + 1)[n]>>]
    BY <2>1 DEF Computes
  <2>4. QED
    BY <2>2, <2>3
<1>5. Recurs(f, S, base, step)
  <2> HIDE DEF f
  <2>1. QED
    BY <1>2, <1>3, <1>4 DEF Recurs
<1>6. QED
  BY <1>5

---------------------------------------------------------------------------
(* Division with remainder, and its uniqueness. *)
LEMMA DivMod ==
  ASSUME NEW a \in Int, NEW b \in Nat \ {0}
  PROVE  /\ a \div b \in Int /\ a % b \in 0..(b - 1)
         /\ a = b * (a \div b) + (a % b)
OBVIOUS

LEMMA DivModUnique ==
  ASSUME NEW a \in Int, NEW b \in Nat \ {0}, NEW k \in Int, NEW r \in 0..(b - 1), a = b * k + r
  PROVE  a \div b = k /\ a % b = r
<1>1. a = b * (a \div b) + (a % b) /\ a \div b \in Int /\ a % b \in 0..(b - 1)
  BY DivMod
<1> DEFINE m == a \div b
           s == a % b
<1>2. b * (k - m) = s - r
  BY <1>1
<1>3. k - m = 0
  <2>1. CASE k - m >= 1
    <3>1. b * (k - m) >= b
      BY <2>1, <1>1
    <3>2. QED
      BY <3>1, <1>1, <1>2
  <2>2. CASE k - m <= -1
    <3>1. b * (k - m) <= -b
      BY <2>2, <1>1
    <3>2. QED
      BY <3>1, <1>1, <1>2
  <2>3. QED
    BY <2>1, <2>2, <1>1
<1>4. QED
  BY <1>1, <1>2, <1>3

LEMMA HalfDiv ==
  ASSUME NEW v \in Nat, NEW a \in Nat \ {0}
  PROVE  v \div (2 * a) = (v \div a) \div 2
<1> DEFINE d == v \div a
           r == v % a
           e == d \div 2
           b == d % 2
<1>1. v = a * d + r /\ r \in 0..(a - 1) /\ d \in Int
  BY DivMod
<1>2. d = 2 * e + b /\ b \in 0..1 /\ e \in Int
  BY <1>1
<1> HIDE DEF d, r, e, b
<1>3. v = (2 * a) * e + (a * b + r)
  BY <1>1, <1>2
<1>4. a * b + r \in 0..(2 * a - 1)
  BY <1>1, <1>2
<1>5. v \div (2 * a) = e
  BY <1>3, <1>4, <1>2, DivModUnique
<1>6. QED
  BY <1>5 DEF d, e

(* a and b leave the same remainder. *)
Congruent(a, b, q) == \E k \in Int : a = b + q * k

LEMMA CongruentRefl ==
  ASSUME NEW a \in Int, NEW q \in Nat \ {0}
  PROVE  Congruent(a, a, q)
<1>1. a = a + q * 0
  OBVIOUS
<1>2. QED
  BY <1>1 DEF Congruent

LEMMA CongruentMod ==
  ASSUME NEW a \in Int, NEW q \in Nat \ {0}
  PROVE  Congruent(a % q, a, q)
<1>1. a \div q \in Int /\ a = q * (a \div q) + (a % q) /\ a % q \in Int
  BY DivMod
<1>2. a % q = a + q * (0 - (a \div q)) /\ 0 - (a \div q) \in Int
  BY <1>1
<1>3. QED
  BY <1>2 DEF Congruent

LEMMA CongruentEqual ==
  ASSUME NEW a \in Int, NEW b \in Int, NEW q \in Nat \ {0}, Congruent(a, b, q)
  PROVE  a % q = b % q
<1>1. PICK k \in Int : a = b + q * k
  BY DEF Congruent
<1>2. b = q * (b \div q) + (b % q) /\ b \div q \in Int /\ b % q \in 0..(q - 1)
  BY DivMod
<1>3. a = q * ((b \div q) + k) + (b % q) /\ (b \div q) + k \in Int
  BY <1>1, <1>2
<1> QED
  BY <1>2, <1>3, DivModUnique

LEMMA CongruentSum ==
  ASSUME NEW a \in Int, NEW b \in Int, NEW c \in Int, NEW d \in Int, NEW q \in Nat \ {0},
         Congruent(a, b, q), Congruent(c, d, q)
  PROVE  Congruent(a + c, b + d, q)
<1>1. PICK k \in Int : a = b + q * k
  BY DEF Congruent
<1>2. PICK m \in Int : c = d + q * m
  BY DEF Congruent
<1>3. a + c = (b + d) + q * (k + m) /\ k + m \in Int
  BY <1>1, <1>2
<1>4. QED
  BY <1>3 DEF Congruent

LEMMA CongruentProduct ==
  ASSUME NEW a \in Int, NEW b \in Int, NEW c \in Int, NEW q \in Nat \ {0}, Congruent(a, b, q)
  PROVE  Congruent(c * a, c * b, q)
<1>1. PICK k \in Int : a = b + q * k
  BY DEF Congruent
<1>2. c * a = c * b + q * (c * k) /\ c * k \in Int
  BY <1>1
<1>3. QED
  BY <1>2 DEF Congruent

LEMMA CongruentTrans ==
  ASSUME NEW a \in Int, NEW b \in Int, NEW c \in Int, NEW q \in Nat \ {0},
         Congruent(a, b, q), Congruent(b, c, q)
  PROVE  Congruent(a, c, q)
<1>1. PICK k \in Int : a = b + q * k
  BY DEF Congruent
<1>2. PICK m \in Int : b = c + q * m
  BY DEF Congruent
<1>3. a = c + q * (k + m) /\ k + m \in Int
  BY <1>1, <1>2
<1>4. QED
  BY <1>3 DEF Congruent
=============================================================================
