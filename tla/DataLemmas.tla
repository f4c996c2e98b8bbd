----------------------------- MODULE DataLemmas ------------------------------
(***************************************************************************)
(* Facts about natural numbers that the proofs about data need: induction  *)
(* over a set instead of a formula, the existence of a function defined by *)
(* recursion, quotients and remainders, powers, and the value of a         *)
(* sequence of digits in a base.                                           *)
(***************************************************************************)
EXTENDS Integers, Sequences, WellFoundedInduction, TLAPS

(* Every set of naturals that is not empty has a least element. *)
LEMMA LeastElement ==
  ASSUME NEW T \in SUBSET Nat, T # {}
  PROVE  \E x \in T : \A y \in T : x <= y
<1> DEFINE R == {ss \in Nat \X Nat : ss[1] < ss[2]}
<1>1. IsWellFoundedOn(R, Nat)
  BY NatLessThanWellFounded DEF OpToRel
<1>2. \A x, y \in Nat : <<y, x>> \in R <=> y < x
  OBVIOUS
<1> HIDE DEF R
<1>3. PICK x \in T : \A y \in T : ~(<<y, x>> \in R)
  BY <1>1, WFMin
<1>4. ASSUME NEW y \in T PROVE x <= y
  <2>1. x \in Nat /\ y \in Nat
    OBVIOUS
  <2>2. ~(y < x)
    BY <1>2, <1>3, <2>1
  <2> QED BY <2>1, <2>2
<1> QED BY <1>4

(* Induction: a set of naturals with 0 and every successor is all of Nat.  *)
LEMMA SetInduction ==
  ASSUME NEW T \in SUBSET Nat, 0 \in T, \A n \in T : n + 1 \in T
  PROVE  T = Nat
<1> SUFFICES ASSUME Nat \ T # {} PROVE FALSE
  OBVIOUS
<1>1. PICK x \in Nat \ T : \A y \in Nat \ T : x <= y
  BY LeastElement
<1>2. x - 1 \in Nat /\ ~(x <= x - 1)
  BY <1>1
<1>3. x - 1 \in T
  BY <1>1, <1>2
<1> QED BY <1>1, <1>2, <1>3

(* The same up to a bound. *)
LEMMA IntervalInduction ==
  ASSUME NEW n \in Nat, NEW T, 0 \in T, \A i \in 0..n - 1 : i \in T => i + 1 \in T
  PROVE  \A i \in 0..n : i \in T
<1> DEFINE U == {i \in Nat : i <= n => i \in T}
<1>1. U \in SUBSET Nat /\ 0 \in U
  OBVIOUS
<1>2. ASSUME NEW i \in U PROVE i + 1 \in U
  <2>1. CASE i + 1 <= n
    <3>1. i \in 0..n - 1 /\ i \in T
      BY <2>1
    <3> QED BY <3>1
  <2>2. CASE ~(i + 1 <= n)
    BY <2>2
  <2> QED BY <2>1, <2>2
<1>3. U = Nat
  <2> HIDE DEF U
  <2> QED BY <1>1, <1>2, SetInduction
<1> QED BY <1>3

-----------------------------------------------------------------------------
(* f is the sequence of values that starts with a and goes on by G. *)
Follows(f, n, a, G) == f[0] = a /\ \A i \in 1..n : f[i] = G[<<i, f[i - 1]>>]

(* Recursion up to a bound: whatever G maps a step and a value to, there   *)
(* is a function that follows it.                                          *)
LEMMA Recursion ==
  ASSUME NEW S, NEW a \in S, NEW n \in Nat, NEW G \in [(1..n) \X S -> S]
  PROVE  \E f \in [0..n -> S] : Follows(f, n, a, G)
<1> DEFINE Solves(f, m) ==
             f \in [0..m -> S] /\ f[0] = a /\ \A i \in 1..m : f[i] = G[<<i, f[i - 1]>>]
           T == {m \in 0..n : \E f : Solves(f, m)}
<1>1. 0 \in T
  <2>1. Solves([i \in 0..0 |-> a], 0)
    OBVIOUS
  <2>2. \E f : Solves(f, 0)
    BY <2>1
  <2>3. 0 \in 0..n
    OBVIOUS
  <2> QED BY <2>2, <2>3
<1>2. ASSUME NEW m \in 0..n - 1, m \in T PROVE m + 1 \in T
  <2>1. PICK f : Solves(f, m)
    BY <1>2
  <2> DEFINE h == [i \in 0..m + 1 |-> IF i <= m THEN f[i] ELSE G[<<m + 1, f[m]>>]]
  <2>2. f[m] \in S /\ m + 1 \in 1..n /\ m \in Nat
    BY <2>1
  <2>3. G[<<m + 1, f[m]>>] \in S
    BY <2>2
  <2>4. h \in [0..m + 1 -> S]
    BY <2>1, <2>2, <2>3
  <2>5. h[0] = a
    BY <2>1, <2>2
  <2>6. ASSUME NEW i \in 1..m + 1 PROVE h[i] = G[<<i, h[i - 1]>>]
    <3>1. i \in Nat /\ i - 1 \in 0..m /\ h[i - 1] = f[i - 1]
      BY <2>2
    <3>2. CASE i <= m
      BY <3>1, <3>2, <2>1, <2>2
    <3>3. CASE i = m + 1
      <4>1. h[i] = G[<<m + 1, f[m]>>]
        BY <3>3, <2>2
      <4>2. h[i - 1] = f[m] /\ i = m + 1
        BY <3>1, <3>3, <2>2
      <4> HIDE DEF h
      <4> QED BY <4>1, <4>2
    <3> QED BY <3>2, <3>3, <2>2
  <2>7. Solves(h, m + 1)
    BY <2>4, <2>5, <2>6
  <2>8. m + 1 \in 0..n
    OBVIOUS
  <2> QED BY <2>7, <2>8
<1>3. n \in T
  <2> HIDE DEF T
  <2>1. \A m \in 0..n : m \in T
    BY <1>1, <1>2, IntervalInduction
  <2> QED BY <2>1
<1> QED BY <1>3 DEF Follows

-----------------------------------------------------------------------------
(* Quotient and remainder, whatever the divisor. *)
LEMMA DivMod ==
  ASSUME NEW a \in Int, NEW b \in Nat \ {0}
  PROVE  /\ a \div b \in Int /\ a % b \in 0..b - 1
         /\ a = b * (a \div b) + (a % b)
         /\ a \in Nat => a \div b \in Nat
OBVIOUS

(* A positive multiple of b is at least b. *)
LEMMA ProductAtLeast ==
  ASSUME NEW b \in Nat, NEW k \in Int, k >= 1
  PROVE  b * k >= b
OBVIOUS

(* There is only one quotient and remainder. *)
LEMMA DivModUnique ==
  ASSUME NEW a \in Int, NEW b \in Nat \ {0}, NEW q \in Int, NEW r \in 0..b - 1, a = b * q + r
  PROVE  a \div b = q /\ a % b = r
<1> DEFINE p == a \div b
           s == a % b
<1>1. p \in Int /\ s \in 0..b - 1 /\ a = b * p + s
  BY DivMod
<1> HIDE DEF p, s
<1>2. CASE p > q
  <2>1. b * (p - q) = r - s
    BY <1>1
  <2>2. b * (p - q) >= b
    BY <1>1, <1>2, ProductAtLeast, p - q \in Int, p - q >= 1
  <2> QED BY <1>1, <2>1, <2>2
<1>3. CASE p < q
  <2>1. b * (q - p) = s - r
    BY <1>1
  <2>2. b * (q - p) >= b
    BY <1>1, <1>3, ProductAtLeast, q - p \in Int, q - p >= 1
  <2> QED BY <1>1, <2>1, <2>2
<1>4. p = q /\ s = r
  BY <1>1, <1>2, <1>3
<1> QED BY <1>4 DEF p, s

(* Multiplication by a natural keeps the order. *)
LEMMA ProductMonotone ==
  ASSUME NEW a \in Nat, NEW b \in Nat, NEW c \in Nat, b <= c
  PROVE  a * b <= a * c
OBVIOUS

(* Dividing by a product is dividing by its factors, one after the other.  *)
LEMMA DivDiv ==
  ASSUME NEW a \in Nat, NEW b \in Nat \ {0}, NEW c \in Nat \ {0}
  PROVE  a \div (b * c) = (a \div c) \div b
<1> DEFINE q == a \div c
           r == a % c
           p == q \div b
           s == q % b
<1>1. q \in Nat /\ r \in 0..c - 1 /\ a = c * q + r
  BY DivMod, a \in Int
<1> HIDE DEF q, r
<1>2. p \in Nat /\ s \in 0..b - 1 /\ q = b * p + s
  BY <1>1, DivMod, q \in Int
<1> HIDE DEF p, s
<1>3. a = (b * c) * p + (c * s + r)
  <2>1. c * q = c * (b * p) + c * s
    BY <1>1, <1>2
  <2>2. c * (b * p) = (b * c) * p
    BY <1>1, <1>2
  <2> QED BY <2>1, <2>2, <1>1, <1>2
<1>4. c * s + r \in 0..(b * c) - 1
  <2>1. c * s <= c * (b - 1)
    BY <1>2, ProductMonotone, b - 1 \in Nat, s \in Nat, s <= b - 1
  <2>2. c * (b - 1) = (b * c) - c
    OBVIOUS
  <2>3. c * s \in Nat
    BY <1>2
  <2>4. b * c \in Nat
    OBVIOUS
  <2> QED BY <2>1, <2>2, <2>3, <2>4, <1>1
<1>5. b * c \in Nat \ {0}
  OBVIOUS
<1>6. a \div (b * c) = p
  BY <1>2, <1>3, <1>4, <1>5, DivModUnique
<1> QED BY <1>6 DEF p, q

(* A number below b times c has a quotient by c below b. *)
LEMMA DivLess ==
  ASSUME NEW a \in Nat, NEW b \in Nat, NEW c \in Nat \ {0}, a < b * c
  PROVE  a \div c \in Nat /\ a \div c < b
<1> DEFINE q == a \div c
           r == a % c
<1>1. q \in Nat /\ r \in 0..c - 1 /\ a = c * q + r
  BY DivMod, a \in Int
<1> HIDE DEF q, r
<1>2. CASE q >= b
  <2>1. c * b <= c * q
    BY <1>1, <1>2, ProductMonotone
  <2>2. c * b = b * c
    OBVIOUS
  <2> QED BY <2>1, <2>2, <1>1
<1> QED BY <1>1, <1>2 DEF q

(* Equal remainders, and a difference that is a multiple. *)
LEMMA CongruentIffDivides ==
  ASSUME NEW a \in Int, NEW b \in Int, NEW f \in Nat \ {0}
  PROVE  a % f = b % f <=> (a - b) % f = 0
<1> DEFINE q == a \div f
           r == a % f
           p == b \div f
           s == b % f
<1>1. q \in Int /\ r \in 0..f - 1 /\ a = f * q + r
  BY DivMod
<1>2. p \in Int /\ s \in 0..f - 1 /\ b = f * p + s
  BY DivMod
<1>3. ASSUME r = s PROVE (a - b) % f = 0
  <2> HIDE DEF q, r, p, s
  <2>1. a - b = f * (q - p) + 0
    BY <1>1, <1>2, <1>3
  <2>2. 0 \in 0..f - 1 /\ q - p \in Int /\ a - b \in Int
    BY <1>1, <1>2
  <2> QED BY <2>1, <2>2, DivModUnique
<1>4. ASSUME (a - b) % f = 0 PROVE r = s
  <2> DEFINE k == (a - b) \div f
  <2>1. k \in Int /\ a - b = f * k + 0
    BY <1>4, DivMod, a - b \in Int
  <2> HIDE DEF k, q, r, p, s
  <2>2. a = f * (k + p) + s
    BY <1>2, <2>1
  <2>3. k + p \in Int
    BY <1>2, <2>1
  <2> QED BY <1>2, <2>2, <2>3, DivModUnique DEF r
<1> QED BY <1>3, <1>4

(* A multiple has remainder 0. *)
LEMMA MultipleIsZero ==
  ASSUME NEW k \in Int, NEW f \in Nat \ {0}
  PROVE  (f * k) % f = 0
<1>1. f * k \in Int /\ f * k = f * k + 0 /\ 0 \in 0..f - 1
  OBVIOUS
<1> QED BY <1>1, DivModUnique

(* A factor may be reduced before the product is. *)
LEMMA ReduceFactor ==
  ASSUME NEW a \in Int, NEW b \in Int, NEW f \in Nat \ {0}
  PROVE  ((a % f) * b) % f = (a * b) % f
<1> DEFINE q == a \div f
           r == a % f
<1>1. q \in Int /\ r \in 0..f - 1 /\ a = f * q + r
  BY DivMod
<1> HIDE DEF q, r
<1>2. r * b - a * b = f * (-(q * b))
  BY <1>1
<1>3. -(q * b) \in Int /\ r * b \in Int /\ a * b \in Int
  BY <1>1
<1>4. (r * b) % f = (a * b) % f
  <2> DEFINE k == -(q * b)
             u == r * b
             v == a * b
  <2>1. u \in Int /\ v \in Int /\ k \in Int /\ u - v = f * k
    BY <1>2, <1>3
  <2> HIDE DEF k, u, v
  <2>2. (u - v) % f = 0
    BY <2>1, MultipleIsZero
  <2>3. u % f = v % f
    <3>1. u % f = v % f <=> (u - v) % f = 0
      BY <2>1, CongruentIffDivides
    <3> QED BY <2>2, <3>1
  <2> QED BY <2>3 DEF u, v
<1> QED BY <1>4 DEF r

-----------------------------------------------------------------------------
(* Functions that solve their equations, and the powers of a base.         *)

(* A function on 1..n is a sequence of length n. *)
LEMMA FunctionIsSeq ==
  ASSUME NEW S, NEW n \in Nat, NEW b \in [1..n -> S]
  PROVE  b \in Seq(S) /\ Len(b) = n
OBVIOUS

OnInterval(f, n) == f = [i \in 0..n |-> f[i]]

GoesOn(f, n, S, G) == \A i \in 1..n : f[i - 1] \in S => f[i] = G[<<i, f[i - 1]>>]

(* A function that starts in S and follows G as long as it is in S. *)
LEMMA Unfolds ==
  ASSUME NEW S, NEW a \in S, NEW n \in Nat, NEW G \in [(1..n) \X S -> S],
         NEW f, OnInterval(f, n), f[0] = a,
         GoesOn(f, n, S, G)
  PROVE  f \in [0..n -> S] /\ Follows(f, n, a, G)
<1> DEFINE T == {k \in 0..n : f[k] \in S}
<1>1. 0 \in T
  OBVIOUS
<1>2. ASSUME NEW i \in 0..n - 1, i \in T PROVE i + 1 \in T
  <2>1. i + 1 \in 1..n /\ (i + 1) - 1 = i /\ i + 1 \in 0..n
    OBVIOUS
  <2>4. f[i] \in S
    BY <1>2
  <2>2. f[i + 1] = G[<<i + 1, f[i]>>]
    BY <2>1, <2>4 DEF GoesOn
  <2>3. G[<<i + 1, f[i]>>] \in S
    BY <2>1, <2>4
  <2> QED BY <2>1, <2>2, <2>3
<1>3. \A k \in 0..n : k \in T
  <2> HIDE DEF T
  <2> QED BY <1>1, <1>2, IntervalInduction
<1>4. \A k \in 0..n : f[k] \in S
  BY <1>3
<1>5. f \in [0..n -> S]
  BY <1>4 DEF OnInterval
<1>6. \A i \in 1..n : f[i] = G[<<i, f[i - 1]>>]
  <2> SUFFICES ASSUME NEW i \in 1..n PROVE f[i - 1] \in S
    BY DEF GoesOn
  <2>1. i - 1 \in 0..n
    OBVIOUS
  <2> QED BY <2>1, <1>4
<1> QED BY <1>5, <1>6 DEF Follows

(* The same on all of Nat. *)
LEMMA NatRecursion ==
  ASSUME NEW S, NEW a \in S, NEW G \in [S -> S]
  PROVE  \E f \in [Nat -> S] : f[0] = a /\ \A n \in Nat : f[n + 1] = G[f[n]]
<1> DEFINE Sol(n) == {f \in [0..n -> S] : f[0] = a /\ \A i \in 1..n : f[i] = G[f[i - 1]]}
<1>1. ASSUME NEW n \in Nat PROVE Sol(n) # {}
  <2> DEFINE H == [x \in (1..n) \X S |-> G[x[2]]]
  <2>1. H \in [(1..n) \X S -> S]
    OBVIOUS
  <2>2. PICK f \in [0..n -> S] : Follows(f, n, a, H)
    <3> HIDE DEF H
    <3> QED BY <2>1, Recursion
  <2>3. ASSUME NEW i \in 1..n PROVE f[i] = G[f[i - 1]]
    <3>1. i - 1 \in 0..n /\ f[i - 1] \in S
      OBVIOUS
    <3>2. H[<<i, f[i - 1]>>] = G[f[i - 1]]
      BY <3>1
    <3> HIDE DEF H
    <3> QED BY <3>2, <2>2 DEF Follows
  <2>4. f \in Sol(n)
    BY <2>2, <2>3 DEF Follows
  <2> QED BY <2>4
<1>2. ASSUME NEW n \in Nat, NEW m \in Nat, n <= m, NEW f \in Sol(n), NEW g \in Sol(m)
      PROVE  \A i \in 0..n : f[i] = g[i]
  <2> DEFINE T == {i \in 0..n : f[i] = g[i]}
  <2>1. 0 \in T
    OBVIOUS
  <2>2. ASSUME NEW i \in 0..n - 1, i \in T PROVE i + 1 \in T
    <3>1. i + 1 \in 1..n /\ i + 1 \in 1..m /\ (i + 1) - 1 = i /\ i + 1 \in 0..n
      BY <1>2
    <3>2. f[i + 1] = G[f[i]] /\ g[i + 1] = G[g[i]]
      BY <3>1
    <3> QED BY <3>1, <3>2, <2>2
  <2>3. \A i \in 0..n : i \in T
    <3> HIDE DEF T
    <3> QED BY <2>1, <2>2, IntervalInduction
  <2> QED BY <2>3
<1> DEFINE pick(n) == CHOOSE f \in Sol(n) : TRUE
           h == [n \in Nat |-> pick(n)[n]]
<1>3. ASSUME NEW n \in Nat PROVE pick(n) \in Sol(n)
  <2> HIDE DEF Sol
  <2> QED BY <1>1
<1> HIDE DEF pick
<1>4. ASSUME NEW n \in Nat PROVE h[n] \in S
  BY <1>3
<1>5. h[0] = a
  BY <1>3, 0 \in Nat
<1>6. ASSUME NEW n \in Nat PROVE h[n + 1] = G[h[n]]
  <2>1. pick(n + 1) \in Sol(n + 1) /\ pick(n) \in Sol(n)
    BY <1>3
  <2>2. pick(n + 1)[n] = pick(n)[n]
    <3>1. n + 1 \in Nat /\ n <= n + 1 /\ n \in 0..n
      OBVIOUS
    <3> HIDE DEF Sol
    <3> QED BY <2>1, <3>1, <1>2
  <2>3. pick(n + 1)[n + 1] = G[pick(n + 1)[n]]
    <3>1. n + 1 \in 1..n + 1 /\ (n + 1) - 1 = n
      OBVIOUS
    <3> QED BY <2>1, <3>1
  <2> QED BY <2>2, <2>3
<1>7. h \in [Nat -> S]
  BY <1>4
<1> HIDE DEF h
<1> QED BY <1>5, <1>6, <1>7

(* P has the powers of b. *)
Powers(P, b) ==
  P \in [Nat -> Nat \ {0}] /\ P[0] = 1 /\ \A n \in Nat : P[n + 1] = b * P[n]

(* Every base has its powers. *)
LEMMA PowersExist ==
  ASSUME NEW b \in Nat \ {0}
  PROVE  \E f : Powers(f, b)
<1> DEFINE S == Nat \ {0}
           one == 1
           G == [x \in S |-> b * x]
<1>1. G \in [S -> S]
  <2>1. \A x \in S : b * x \in S
    OBVIOUS
  <2> QED BY <2>1
<1>2. one \in S
  OBVIOUS
<1>3. PICK f \in [Nat -> S] : f[0] = one /\ \A n \in Nat : f[n + 1] = G[f[n]]
  <2> HIDE DEF S, one, G
  <2> QED BY <1>1, <1>2, NatRecursion
<1>4. ASSUME NEW n \in Nat PROVE f[n + 1] = b * f[n]
  BY <1>3
<1>5. Powers(f, b)
  BY <1>3, <1>4 DEF Powers
<1> QED BY <1>5

(* Powers solve the equation a recursive definition writes down. *)
LEMMA PowersSolve ==
  ASSUME NEW b \in Nat \ {0}, NEW f, Powers(f, b)
  PROVE  f = [n \in Nat |-> IF n = 0 THEN 1 ELSE b * f[n - 1]]
<1>1. ASSUME NEW n \in Nat PROVE f[n] = IF n = 0 THEN 1 ELSE b * f[n - 1]
  <2>1. CASE n = 0
    BY <2>1 DEF Powers
  <2>2. CASE n # 0
    <3>1. n - 1 \in Nat /\ (n - 1) + 1 = n
      BY <2>2
    <3> QED BY <2>2, <3>1 DEF Powers
  <2> QED BY <2>1, <2>2
<1>2. f \in [Nat -> Nat \ {0}]
  BY DEF Powers
<1> QED BY <1>1, <1>2

(* And what solves it is the powers. *)
LEMMA SolutionsArePowers ==
  ASSUME NEW b \in Nat \ {0}, NEW f, f = [n \in Nat |-> IF n = 0 THEN 1 ELSE b * f[n - 1]]
  PROVE  Powers(f, b)
<1>1. f[0] = 1
  OBVIOUS
<1>2. ASSUME NEW n \in Nat PROVE f[n + 1] = b * f[n]
  <2>1. n + 1 \in Nat /\ n + 1 # 0 /\ (n + 1) - 1 = n
    OBVIOUS
  <2> QED BY <2>1
<1>3. \A n \in Nat : f[n] \in Nat \ {0}
  <2> DEFINE T == {n \in Nat : f[n] \in Nat \ {0}}
  <2>1. 0 \in T
    BY <1>1
  <2>2. ASSUME NEW n \in T PROVE n + 1 \in T
    <3>1. f[n + 1] = b * f[n] /\ f[n] \in Nat \ {0} /\ n + 1 \in Nat
      BY <1>2
    <3>2. b * f[n] \in Nat \ {0}
      BY <3>1
    <3> QED BY <3>1, <3>2
  <2>3. T = Nat
    <3>1. T \in SUBSET Nat
      OBVIOUS
    <3> HIDE DEF T
    <3> QED BY <2>1, <2>2, <3>1, SetInduction
  <2> QED BY <2>3
<1>4. f \in [Nat -> Nat \ {0}]
  BY <1>3
<1> QED BY <1>1, <1>2, <1>4 DEF Powers

(* Exponents add. *)
LEMMA PowersAdd ==
  ASSUME NEW b \in Nat \ {0}, NEW P, Powers(P, b), NEW n \in Nat, NEW m \in Nat
  PROVE  P[n + m] = P[n] * P[m]
<1> DEFINE T == {k \in Nat : P[n + k] = P[n] * P[k]}
<1>1. P[n] \in Nat /\ P[0] = 1
  BY DEF Powers
<1>2. 0 \in T
  BY <1>1
<1>3. ASSUME NEW k \in T PROVE k + 1 \in T
  <2>1. n + k \in Nat /\ n + (k + 1) = (n + k) + 1 /\ k \in Nat /\ k + 1 \in Nat
    OBVIOUS
  <2>2. P[(n + k) + 1] = b * P[n + k] /\ P[k + 1] = b * P[k] /\ P[k] \in Nat
    BY <2>1 DEF Powers
  <2>3. P[n + k] = P[n] * P[k]
    BY <1>3
  <2>4. b * (P[n] * P[k]) = P[n] * (b * P[k])
    BY <1>1, <2>2
  <2> QED BY <2>1, <2>2, <2>3, <2>4
<1>4. T = Nat
  <2>1. T \in SUBSET Nat
    OBVIOUS
  <2> HIDE DEF T
  <2> QED BY <1>2, <1>3, <2>1, SetInduction
<1> QED BY <1>4

(* Powers grow. *)
LEMMA PowersMonotone ==
  ASSUME NEW b \in Nat \ {0}, NEW P, Powers(P, b), NEW n \in Nat, NEW m \in Nat, n <= m
  PROVE  P[n] <= P[m]
<1> DEFINE k == m - n
<1>1. k \in Nat /\ m = n + k
  OBVIOUS
<1> HIDE DEF k
<1>2. P[m] = P[n] * P[k]
  BY <1>1, PowersAdd
<1>3. P[n] \in Nat /\ P[k] \in Nat \ {0}
  BY <1>1 DEF Powers
<1>4. P[n] * 1 <= P[n] * P[k]
  BY <1>3, ProductMonotone, 1 <= P[k], 1 \in Nat
<1> QED BY <1>2, <1>3, <1>4

(* And strictly, of a base that is not 1. *)
LEMMA PowersStrict ==
  ASSUME NEW b \in Nat \ {0, 1}, NEW P, Powers(P, b), NEW n \in Nat, NEW m \in Nat, P[n] < P[m]
  PROVE  n < m
<1> SUFFICES ASSUME m <= n PROVE P[m] <= P[n]
  <2>1. P[n] \in Nat /\ P[m] \in Nat
    BY DEF Powers
  <2> QED BY <2>1
<1> QED BY PowersMonotone, b \in Nat \ {0}

(* Powers of a power. *)
LEMMA PowersOfPower ==
  ASSUME NEW b \in Nat \ {0}, NEW P, Powers(P, b), NEW k \in Nat
  PROVE  Powers([n \in Nat |-> P[k * n]], P[k])
<1> DEFINE Q == [n \in Nat |-> P[k * n]]
<1>1. \A n \in Nat : k * n \in Nat
  OBVIOUS
<1>2. Q \in [Nat -> Nat \ {0}]
  BY <1>1 DEF Powers
<1>3. Q[0] = 1
  <2>1. k * 0 = 0
    OBVIOUS
  <2> QED BY <2>1 DEF Powers
<1>4. ASSUME NEW n \in Nat PROVE Q[n + 1] = P[k] * Q[n]
  <2>1. k * (n + 1) = k + (k * n) /\ n + 1 \in Nat
    OBVIOUS
  <2>2. P[k + (k * n)] = P[k] * P[k * n]
    BY <1>1, PowersAdd
  <2> QED BY <2>1, <2>2
<1> HIDE DEF Q
<1>5. Powers(Q, P[k])
  BY <1>2, <1>3, <1>4 DEF Powers
<1> QED BY <1>5 DEF Q

-----------------------------------------------------------------------------
(* f has the values of the first digits of s, in base b. *)
Horner(f, s, b, n) ==
  f \in [0..n -> Nat] /\ f[0] = 0 /\ \A i \in 1..n : f[i] = f[i - 1] * b + s[i]

(* The values of the prefixes of digits exist. *)
LEMMA HornerExists ==
  ASSUME NEW b \in Nat \ {0}, NEW n \in Nat, NEW s, \A i \in 1..n : s[i] \in Nat
  PROVE  \E f : Horner(f, s, b, n)
<1> DEFINE zero == 0
           G == [p \in (1..n) \X Nat |-> p[2] * b + s[p[1]]]
<1>1. \A k \in Nat, i \in 1..n : k * b + s[i] \in Nat
  OBVIOUS
<1>2. G \in [(1..n) \X Nat -> Nat]
  BY <1>1
<1>3. zero \in Nat
  OBVIOUS
<1>4. PICK f \in [0..n -> Nat] : Follows(f, n, zero, G)
  <2> HIDE DEF zero, G
  <2> QED BY <1>2, <1>3, Recursion
<1>5. ASSUME NEW i \in 1..n PROVE f[i] = f[i - 1] * b + s[i]
  <2>1. i - 1 \in 0..n /\ f[i - 1] \in Nat
    OBVIOUS
  <2>2. G[<<i, f[i - 1]>>] = f[i - 1] * b + s[i]
    BY <2>1
  <2> HIDE DEF G
  <2> QED BY <2>2, <1>4 DEF Follows
<1>6. Horner(f, s, b, n)
  BY <1>4, <1>5 DEF Horner, Follows
<1> QED BY <1>6

(* What solves the equations is of this kind. *)
LEMMA HornerSolves ==
  ASSUME NEW b \in Nat \ {0}, NEW n \in Nat, NEW s, NEW f, Horner(f, s, b, n)
  PROVE  f = [i \in 0..n |-> IF i = 0 THEN 0 ELSE f[i - 1] * b + s[i]]
<1>1. ASSUME NEW i \in 0..n PROVE f[i] = IF i = 0 THEN 0 ELSE f[i - 1] * b + s[i]
  <2>1. CASE i = 0
    BY <2>1 DEF Horner
  <2>2. CASE i # 0
    <3>1. i \in 1..n
      BY <2>2
    <3> QED BY <3>1, <2>2 DEF Horner
  <2> QED BY <2>1, <2>2
<1>2. f \in [0..n -> Nat]
  BY DEF Horner
<1> QED BY <1>1, <1>2

(* One digit more takes naturals to naturals. *)
LEMMA HornerStep ==
  ASSUME NEW b \in Nat, NEW n \in Nat, NEW s, \A i \in 1..n : s[i] \in Nat
  PROVE  [p \in (1..n) \X Nat |-> p[2] * b + s[p[1]]] \in [(1..n) \X Nat -> Nat]
<1>1. \A k \in Nat, i \in 1..n : k * b + s[i] \in Nat
  OBVIOUS
<1> QED BY <1>1

(* What starts at 0 and takes every step is the values of the prefixes. *)
LEMMA StepsAreHorner ==
  ASSUME NEW b \in Nat, NEW n \in Nat, NEW s, \A i \in 1..n : s[i] \in Nat,
         NEW f, OnInterval(f, n), f[0] = 0, \A i \in 1..n : f[i] = f[i - 1] * b + s[i]
  PROVE  Horner(f, s, b, n)
<1> DEFINE zero == 0
           G == [p \in (1..n) \X Nat |-> p[2] * b + s[p[1]]]
<1>1. G \in [(1..n) \X Nat -> Nat]
  BY Zenon, HornerStep
<1>2. zero \in Nat /\ f[0] = zero
  OBVIOUS
<1>3. GoesOn(f, n, Nat, G)
  BY DEF GoesOn
<1>4. f \in [0..n -> Nat]
  <2> HIDE DEF zero, G
  <2> QED BY <1>1, <1>2, <1>3, Unfolds
<1> QED BY <1>4 DEF Horner

(* The same for what solves the equation of a recursive definition. *)
LEMMA SolutionsAreHorner ==
  ASSUME NEW b \in Nat, NEW n \in Nat, NEW s, \A i \in 1..n : s[i] \in Nat,
         NEW f, f = [i \in 0..n |-> IF i = 0 THEN 0 ELSE f[i - 1] * b + s[i]]
  PROVE  Horner(f, s, b, n)
<1>1. f[0] = 0
  OBVIOUS
<1>2. OnInterval(f, n)
  BY DEF OnInterval
<1>3. ASSUME NEW i \in 1..n PROVE f[i] = f[i - 1] * b + s[i]
  <2>1. i \in 0..n /\ i # 0
    OBVIOUS
  <2> QED BY <2>1
<1> QED BY Zenon, <1>1, <1>2, <1>3, StepsAreHorner

(* Equal digits have equal values. *)
LEMMA HornerUnique ==
  ASSUME NEW b, NEW n \in Nat, NEW s, NEW f, Horner(f, s, b, n),
         NEW m \in Nat, NEW t, NEW g, Horner(g, t, b, m),
         NEW k \in Nat, k <= n, k <= m, \A i \in 1..k : s[i] = t[i]
  PROVE  \A i \in 0..k : f[i] = g[i]
<1> DEFINE T == {i \in 0..k : f[i] = g[i]}
<1>1. 0 \in T
  BY DEF Horner
<1>2. ASSUME NEW i \in 0..k - 1, i \in T PROVE i + 1 \in T
  <2>1. i + 1 \in 1..k /\ i + 1 \in 1..n /\ i + 1 \in 1..m /\ (i + 1) - 1 = i /\ i + 1 \in 0..k
    OBVIOUS
  <2>2. f[i + 1] = f[i] * b + s[i + 1] /\ g[i + 1] = g[i] * b + t[i + 1]
    BY <2>1 DEF Horner
  <2>3. s[i + 1] = t[i + 1] /\ f[i] = g[i]
    BY <1>2, <2>1
  <2> QED BY <2>1, <2>2, <2>3
<1>3. \A i \in 0..k : i \in T
  <2> HIDE DEF T
  <2> QED BY <1>1, <1>2, IntervalInduction
<1> QED BY <1>3

(* The value of a number whose last digits are t. *)
IsTail(t, m, s, p) == \A i \in 1..m : t[i] = s[p + i] /\ t[i] \in Nat
Splits(f, g, P, p, m) == \A i \in 0..m : f[p + i] = f[p] * P[i] + g[i]

(* The value of digits one behind the other. *)
LEMMA HornerSplit ==
  ASSUME NEW b \in Nat \ {0}, NEW P, Powers(P, b), NEW p \in Nat, NEW m \in Nat,
         NEW s, NEW f, Horner(f, s, b, p + m),
         NEW t, NEW g, Horner(g, t, b, m), IsTail(t, m, s, p)
  PROVE  Splits(f, g, P, p, m)
<1> DEFINE T == {i \in 0..m : f[p + i] = f[p] * P[i] + g[i]}
<1>1. f[p] \in Nat
  BY DEF Horner
<1>2. 0 \in T
  BY <1>1 DEF Horner, Powers
<1>3. ASSUME NEW i \in 0..m - 1, i \in T PROVE i + 1 \in T
  <2>1. i + 1 \in 1..m /\ p + (i + 1) \in 1..p + m /\ (i + 1) - 1 = i
        /\ (p + (i + 1)) - 1 = p + i /\ i + 1 \in 0..m /\ i \in Nat
    OBVIOUS
  <2>2. f[p + (i + 1)] = f[p + i] * b + s[p + (i + 1)]
    BY <2>1 DEF Horner
  <2>3. g[i + 1] = g[i] * b + t[i + 1]
    BY <2>1 DEF Horner
  <2>4. g[i] \in Nat /\ t[i + 1] \in Nat
    BY <2>1 DEF Horner, IsTail
  <2>5. P[i + 1] = b * P[i] /\ P[i] \in Nat
    BY <2>1 DEF Powers
  <2>6. t[i + 1] = s[p + (i + 1)] /\ f[p + i] = f[p] * P[i] + g[i]
    BY <1>3, <2>1 DEF IsTail
  <2>7. (f[p] * P[i] + g[i]) * b = f[p] * (b * P[i]) + g[i] * b
    BY <1>1, <2>4, <2>5
  <2>8. f[p + (i + 1)] = f[p] * (b * P[i]) + g[i] * b + s[p + (i + 1)]
    BY <2>2, <2>6, <2>7
  <2>9. f[p + (i + 1)] = f[p] * P[i + 1] + g[i + 1]
    <3>1. f[p] * (b * P[i]) \in Nat /\ g[i] * b \in Nat
      BY <1>1, <2>4, <2>5
    <3> QED BY <2>3, <2>4, <2>5, <2>6, <2>8, <3>1
  <2> QED BY <2>1, <2>9
<1>4. \A i \in 0..m : i \in T
  <2> HIDE DEF T
  <2> QED BY <1>2, <1>3, IntervalInduction
<1> QED BY <1>4 DEF Splits

-----------------------------------------------------------------------------
(* The value of n digits in base b, the most significant first.            *)

Digital(s, n) == \A i \in 1..n : s[i] \in Nat
Below(s, n, b) == \A i \in 1..n : s[i] \in 0..b - 1

(* The value of the first n digits of s in base b. *)
Val(s, n, b) == CHOOSE v : \E f : Horner(f, s, b, n) /\ f[n] = v

(* Val is the last value of the prefixes. *)
LEMMA ValIs ==
  ASSUME NEW b \in Nat \ {0}, NEW n \in Nat, NEW s, NEW f, Horner(f, s, b, n)
  PROVE  Val(s, n, b) = f[n]
<1>1. \A v : (\E g : Horner(g, s, b, n) /\ g[n] = v) => v = f[n]
  <2> SUFFICES ASSUME NEW g, Horner(g, s, b, n) PROVE g[n] = f[n]
    OBVIOUS
  <2>1. n <= n /\ n \in 0..n /\ \A i \in 1..n : s[i] = s[i]
    OBVIOUS
  <2>2. \A i \in 0..n : g[i] = f[i]
    BY <2>1, HornerUnique
  <2> QED BY <2>1, <2>2
<1>2. \E g : Horner(g, s, b, n) /\ g[n] = f[n]
  OBVIOUS
<1> QED BY <1>1, <1>2 DEF Val

(* No digits have value 0. *)
LEMMA ValZero ==
  ASSUME NEW b \in Nat \ {0}, NEW s
  PROVE  Val(s, 0, b) = 0
<1>1. 0 \in Nat /\ \A i \in 1..0 : s[i] \in Nat
  OBVIOUS
<1>2. PICK f : Horner(f, s, b, 0)
  BY Zenon, <1>1, HornerExists
<1>3. Val(s, 0, b) = f[0]
  BY <1>1, <1>2, ValIs
<1> QED BY <1>2, <1>3 DEF Horner

(* The first digits of digits are digits. *)
LEMMA DigitalPrefix ==
  ASSUME NEW s, NEW n \in Nat, Digital(s, n), NEW m \in Nat, m <= n
  PROVE  Digital(s, m)
BY DEF Digital

(* The values of the prefixes of a prefix. *)
LEMMA HornerPrefix ==
  ASSUME NEW b, NEW s, NEW f, NEW n \in Nat, Horner(f, s, b, n), NEW m \in Nat, m <= n
  PROVE  Horner([i \in 0..m |-> f[i]], s, b, m)
BY DEF Horner

(* Val, prefix by prefix. *)
LEMMA ValFunction ==
  ASSUME NEW b \in Nat \ {0}, NEW n \in Nat, NEW s, Digital(s, n)
  PROVE  Horner([i \in 0..n |-> Val(s, i, b)], s, b, n)
<1>1. PICK f : Horner(f, s, b, n)
  BY Zenon, HornerExists DEF Digital
<1>2. ASSUME NEW i \in 0..n PROVE f[i] = Val(s, i, b)
  <2> DEFINE g == [j \in 0..i |-> f[j]]
  <2>1. i \in Nat /\ i <= n
    OBVIOUS
  <2>2. Horner(g, s, b, i)
    BY <1>1, <2>1, HornerPrefix
  <2>3. g[i] = f[i]
    BY <2>1
  <2> HIDE DEF g
  <2>4. Val(s, i, b) = g[i]
    BY <2>1, <2>2, ValIs
  <2> QED BY <2>3, <2>4
<1>3. f = [i \in 0..n |-> Val(s, i, b)]
  <2>1. f = [i \in 0..n |-> f[i]]
    BY <1>1 DEF Horner
  <2> QED BY <1>2, <2>1
<1> QED BY <1>1, <1>3

(* A value is a natural number. *)
LEMMA ValType ==
  ASSUME NEW b \in Nat \ {0}, NEW n \in Nat, NEW s, Digital(s, n)
  PROVE  Val(s, n, b) \in Nat
<1> DEFINE f == [i \in 0..n |-> Val(s, i, b)]
<1>1. Horner(f, s, b, n)
  BY ValFunction
<1>2. f[n] = Val(s, n, b)
  OBVIOUS
<1>3. f[n] \in Nat
  <2> HIDE DEF f
  <2> QED BY <1>1 DEF Horner
<1> QED BY <1>2, <1>3

(* One digit more. *)
LEMMA ValStep ==
  ASSUME NEW b \in Nat \ {0}, NEW n \in Nat, NEW s, Digital(s, n + 1)
  PROVE  Val(s, n + 1, b) = Val(s, n, b) * b + s[n + 1]
<1> DEFINE f == [i \in 0..n + 1 |-> Val(s, i, b)]
<1>1. Horner(f, s, b, n + 1)
  BY ValFunction, n + 1 \in Nat
<1>2. f[n + 1] = Val(s, n + 1, b) /\ f[n] = Val(s, n, b)
  OBVIOUS
<1>3. f[n + 1] = f[n] * b + s[n + 1]
  <2> HIDE DEF f
  <2>1. n + 1 \in 1..n + 1 /\ (n + 1) - 1 = n
    OBVIOUS
  <2> QED BY <1>1, <2>1 DEF Horner
<1> QED BY <1>2, <1>3

(* Equal digits have equal values. *)
LEMMA ValSame ==
  ASSUME NEW b \in Nat \ {0}, NEW n \in Nat, NEW s, Digital(s, n),
         NEW t, \A i \in 1..n : s[i] = t[i]
  PROVE  Val(s, n, b) = Val(t, n, b)
<1>1. Digital(t, n)
  BY DEF Digital
<1>2. PICK f : Horner(f, s, b, n)
  BY Zenon, HornerExists DEF Digital
<1>3. PICK g : Horner(g, t, b, n)
  BY Zenon, <1>1, HornerExists DEF Digital
<1>4. Val(s, n, b) = f[n] /\ Val(t, n, b) = g[n]
  BY <1>2, <1>3, ValIs
<1>5. n <= n /\ n \in 0..n
  OBVIOUS
<1>6. \A i \in 0..n : f[i] = g[i]
  BY <1>2, <1>3, <1>5, HornerUnique
<1> QED BY <1>4, <1>5, <1>6

(* The value of digits one behind the other. *)
LEMMA ValSplit ==
  ASSUME NEW b \in Nat \ {0}, NEW P, Powers(P, b), NEW p \in Nat, NEW m \in Nat,
         NEW s, Digital(s, p + m), NEW t, \A i \in 1..m : t[i] = s[p + i]
  PROVE  Val(s, p + m, b) = Val(s, p, b) * P[m] + Val(t, m, b)
<1>1. p + m \in Nat /\ p <= p + m /\ m \in 0..m
  OBVIOUS
<1>2. IsTail(t, m, s, p)
  BY DEF Digital, IsTail
<1>3. Digital(t, m)
  BY <1>2 DEF Digital, IsTail
<1>4. PICK f : Horner(f, s, b, p + m)
  BY Zenon, <1>1, HornerExists DEF Digital
<1>5. PICK g : Horner(g, t, b, m)
  BY Zenon, <1>3, HornerExists DEF Digital
<1>6. Splits(f, g, P, p, m)
  BY  <1>2, <1>4, <1>5, HornerSplit
<1>7. Val(s, p + m, b) = f[p + m] /\ Val(t, m, b) = g[m]
  BY <1>1, <1>4, <1>5, ValIs
<1>8. Val(s, p, b) = f[p]
  <2> DEFINE h == [i \in 0..p |-> f[i]]
  <2>1. Horner(h, s, b, p)
    BY <1>1, <1>4, HornerPrefix
  <2>2. h[p] = f[p]
    OBVIOUS
  <2> HIDE DEF h
  <2> QED BY <2>1, <2>2, ValIs
<1> QED BY <1>1, <1>6, <1>7, <1>8 DEF Splits

(* Numbers below the base are digits, and so are the first of them. *)
LEMMA BelowIsDigital ==
  ASSUME NEW b \in Nat \ {0}, NEW n \in Nat, NEW s, Below(s, n, b)
  PROVE  Digital(s, n) /\ \A m \in 0..n : Below(s, m, b) /\ Digital(s, m)
BY DEF Below, Digital

(* n digits are a number below the n-th power. *)
LEMMA ValBound ==
  ASSUME NEW b \in Nat \ {0}, NEW P, Powers(P, b), NEW n \in Nat, NEW s, Below(s, n, b)
  PROVE  Val(s, n, b) < P[n]
<1> DEFINE T == {i \in 0..n : Val(s, i, b) < P[i]}
<1>1. 0 \in T
  BY ValZero DEF Powers
<1>2. ASSUME NEW i \in 0..n - 1, i \in T PROVE i + 1 \in T
  <2>1. i \in Nat /\ i \in 0..n /\ i + 1 \in 0..n /\ i + 1 \in 1..n
    OBVIOUS
  <2>2. Digital(s, i + 1) /\ Digital(s, i) /\ s[i + 1] \in 0..b - 1
    BY <2>1, BelowIsDigital DEF Below
  <2>3. Val(s, i + 1, b) = Val(s, i, b) * b + s[i + 1]
    BY <2>1, <2>2, ValStep
  <2>4. Val(s, i, b) \in Nat /\ Val(s, i, b) < P[i] /\ P[i] \in Nat /\ P[i + 1] = b * P[i]
    BY <2>1, <2>2, <1>2, ValType DEF Powers
  <2>5. Val(s, i, b) * b + s[i + 1] < b * P[i]
    <3> DEFINE v == Val(s, i, b)
               q == P[i]
               d == s[i + 1]
    <3>1. v \in Nat /\ q \in Nat /\ v < q /\ d \in 0..b - 1
      BY <2>2, <2>4
    <3> HIDE DEF v, q, d
    <3>2. b * (v + 1) <= b * q
      BY <3>1, ProductMonotone, v + 1 \in Nat, v + 1 <= q
    <3>3. b * (v + 1) = v * b + b
      BY <3>1
    <3>4. v * b \in Nat /\ b * q \in Nat
      BY <3>1
    <3>5. v * b + d < b * q
      BY <3>1, <3>2, <3>3, <3>4
    <3> QED BY <3>5 DEF v, q, d
  <2> QED BY <2>1, <2>3, <2>4, <2>5
<1>3. \A i \in 0..n : i \in T
  <2> HIDE DEF T
  <2> QED BY <1>1, <1>2, IntervalInduction
<1> QED BY <1>3

(* The first digit counts for a power. *)
LEMMA ValFirst ==
  ASSUME NEW b \in Nat \ {0}, NEW P, Powers(P, b), NEW n \in Nat, NEW s, Digital(s, n + 1)
  PROVE  s[1] * P[n] <= Val(s, n + 1, b)
<1> DEFINE t == [i \in 1..n |-> s[1 + i]]
<1>1. \A i \in 1..n : t[i] = s[1 + i]
  OBVIOUS
<1>2. Digital(t, n)
  BY DEF Digital
<1> HIDE DEF t
<1>3. Digital(s, 1 + n) /\ 1 + n = n + 1 /\ Digital(s, 1) /\ s[1] \in Nat /\ 0 + 1 = 1
  BY DEF Digital
<1>4. Val(s, 1 + n, b) = Val(s, 1, b) * P[n] + Val(t, n, b)
  BY <1>1, <1>3, ValSplit, 1 \in Nat
<1>5. Val(s, 1, b) = s[1]
  <2>1. Val(s, 0 + 1, b) = Val(s, 0, b) * b + s[0 + 1]
    BY <1>3, ValStep, 0 \in Nat
  <2>2. Val(s, 0, b) = 0
    BY ValZero
  <2> QED BY <2>1, <2>2, <1>3
<1>6. Val(t, n, b) \in Nat /\ P[n] \in Nat
  BY <1>2, ValType DEF Powers
<1>7. s[1] * P[n] \in Nat
  BY <1>3, <1>6
<1> QED BY <1>3, <1>4, <1>5, <1>6, <1>7

(* A value has one sequence of n digits. *)
LEMMA ValInjective ==
  ASSUME NEW b \in Nat \ {0}, NEW n \in Nat, NEW s, Below(s, n, b), NEW t, Below(t, n, b),
         Val(s, n, b) = Val(t, n, b)
  PROVE  \A i \in 1..n : s[i] = t[i]
<1> DEFINE T == {k \in 0..n : /\ Val(s, n - k, b) = Val(t, n - k, b)
                             /\ \A i \in n - k + 1..n : s[i] = t[i]}
<1>1. 0 \in T
  OBVIOUS
<1>2. ASSUME NEW k \in 0..n - 1, k \in T PROVE k + 1 \in T
  <2> DEFINE m == n - (k + 1)
  <2>1. m \in Nat /\ m \in 0..n /\ m + 1 = n - k /\ m + 1 \in 1..n /\ k + 1 \in 0..n /\ m + 1 \in 0..n
    OBVIOUS
  <2>2. Val(s, m + 1, b) = Val(t, m + 1, b) /\ \A i \in m + 2..n : s[i] = t[i]
    BY <1>2, <2>1
  <2>6. n - (k + 1) = m /\ n - (k + 1) + 1 = m + 1
    OBVIOUS
  <2> HIDE DEF m
  <2>3. Digital(s, m + 1) /\ Digital(s, m) /\ Digital(t, m + 1) /\ Digital(t, m)
        /\ s[m + 1] \in 0..b - 1 /\ t[m + 1] \in 0..b - 1
    BY <2>1, BelowIsDigital DEF Below
  <2>4. Val(s, m + 1, b) = Val(s, m, b) * b + s[m + 1] /\ Val(t, m + 1, b) = Val(t, m, b) * b + t[m + 1]
    BY <2>1, <2>3, ValStep
  <2>5. Val(s, m, b) = Val(t, m, b) /\ s[m + 1] = t[m + 1]
    <3> DEFINE u == Val(s, m, b)
               v == Val(t, m, b)
               d == s[m + 1]
               e == t[m + 1]
    <3>1. u \in Nat /\ v \in Nat
      BY <2>1, <2>3, ValType
    <3>2. u * b + d = v * b + e /\ d \in 0..b - 1 /\ e \in 0..b - 1
      BY <2>2, <2>3, <2>4
    <3> HIDE DEF u, v, d, e
    <3> DEFINE w == u * b + d
    <3>3. w \in Int /\ w = b * u + d /\ w = b * v + e
      BY <3>1, <3>2
    <3> HIDE DEF w
    <3>4. w \div b = u /\ w % b = d
      BY <3>1, <3>2, <3>3, DivModUnique
    <3>5. w \div b = v /\ w % b = e
      BY <3>1, <3>2, <3>3, DivModUnique
    <3>6. u = v /\ d = e
      BY <3>4, <3>5
    <3> QED BY <3>6 DEF u, v, d, e
  <2>7. \A i \in m + 1..n : s[i] = t[i]
    BY <2>1, <2>2, <2>5
  <2> QED BY <2>1, <2>5, <2>6, <2>7
<1>3. n \in T
  <2>1. \A k \in 0..n : k \in T
    <3> HIDE DEF T
    <3> QED BY <1>1, <1>2, IntervalInduction
  <2> QED BY <2>1
<1> QED BY <1>3

(* Zeros in front change nothing. *)
AreZeros(s, p) == \A i \in 1..p : s[i] = 0
IsSlice(t, m, s, p) == \A i \in 1..m : t[i] = s[p + i]

(* Zeros have value 0. *)
LEMMA ValOfZeros ==
  ASSUME NEW b \in Nat \ {0}, NEW n \in Nat, NEW s, \A i \in 1..n : s[i] = 0
  PROVE  Val(s, n, b) = 0
<1> DEFINE T == {i \in 0..n : Val(s, i, b) = 0}
<1>1. 0 \in T
  BY ValZero
<1>2. ASSUME NEW i \in 0..n - 1, i \in T PROVE i + 1 \in T
  <2>1. i \in Nat /\ i + 1 \in 0..n /\ i + 1 \in 1..n /\ Digital(s, i + 1)
    BY DEF Digital
  <2>2. Val(s, i + 1, b) = Val(s, i, b) * b + s[i + 1]
    BY <2>1, ValStep
  <2> QED BY <1>2, <2>1, <2>2
<1>3. \A i \in 0..n : i \in T
  <2> HIDE DEF T
  <2> QED BY <1>1, <1>2, IntervalInduction
<1> QED BY <1>3

(* Zeros in front change nothing. *)
LEMMA ValBehindZeros ==
  ASSUME NEW b \in Nat \ {0}, NEW P, Powers(P, b), NEW p \in Nat, NEW m \in Nat,
         NEW s, Digital(s, p + m), AreZeros(s, p), NEW t, IsSlice(t, m, s, p)
  PROVE  Val(s, p + m, b) = Val(t, m, b)
<1>1. Val(s, p + m, b) = Val(s, p, b) * P[m] + Val(t, m, b)
  BY ValSplit DEF IsSlice
<1>2. Val(s, p, b) = 0
  BY ValOfZeros DEF AreZeros
<1>3. Digital(t, m)
  BY DEF Digital, IsSlice
<1>4. Val(t, m, b) \in Nat /\ P[m] \in Nat
  BY <1>3, ValType DEF Powers
<1> QED BY <1>1, <1>2, <1>4
=============================================================================
