-------------------------- MODULE AddressTextProofs --------------------------
(***************************************************************************)
(* What AddressText promises of the texts, proved: proper programs get a   *)
(* text, an exact copy of it reads back as the bytes that are meant, one   *)
(* with a slip is refused, and a coin's bytes are the ones whose text is   *)
(* the coin's name.                                                        *)
(***************************************************************************)
EXTENDS AddressText, DataLemmas, SequenceTheorems, FiniteSetTheorems

-----------------------------------------------------------------------------
(* Numbers and their binary digits.                                        *)

(* Number computes the recursion its definition writes down. *)
LEMMA NumberFunction ==
  ASSUME NEW bits \in Seq(Nat)
  PROVE  \E f \in [0..Len(bits) -> Nat] :
           /\ f[0] = 0 /\ Number(bits) = f[Len(bits)]
           /\ \A n \in 1..Len(bits) : f[n] = 2 * f[n - 1] + bits[n]
<1> DEFINE N == Len(bits)
           zero == 0
           f == CHOOSE first : first = [n \in 0..N |-> IF n = 0 THEN 0 ELSE 2 * first[n - 1] + bits[n]]
           G == [p \in (1..N) \X Nat |-> 2 * p[2] + bits[p[1]]]
<1>1. N \in Nat /\ zero \in Nat /\ \A n \in 1..N : bits[n] \in Nat
  OBVIOUS
<1>2. Number(bits) = f[N]
  BY DEF Number
<1> HIDE DEF N
<1>3. \A k \in Nat, n \in 1..N : 2 * k + bits[n] \in Nat
  BY <1>1
<1>4. G \in [(1..N) \X Nat -> Nat]
  BY <1>3
<1>5. PICK g \in [0..N -> Nat] :
        g[0] = zero /\ \A i \in 1..N : g[i] = G[<<i, g[i - 1]>>]
  <2> HIDE DEF G, zero, f
  <2>1. \E g \in [0..N -> Nat] : Follows(g, N, zero, G)
    BY Zenon, <1>1, <1>4, Recursion
  <2> QED BY Zenon, <2>1 DEF Follows
<1>6. ASSUME NEW i \in 1..N PROVE g[i] = 2 * g[i - 1] + bits[i]
  <2>1. g[i - 1] \in Nat /\ i - 1 \in 0..N
    BY <1>1
  <2>2. G[<<i, g[i - 1]>>] = 2 * g[i - 1] + bits[i]
    BY Zenon, <2>1
  <2> QED BY Zenon, <2>2, <1>5
<1>7. g = [n \in 0..N |-> IF n = 0 THEN 0 ELSE 2 * g[n - 1] + bits[n]]
  <2> HIDE DEF G, f
  <2>1. ASSUME NEW n \in 0..N PROVE g[n] = IF n = 0 THEN 0 ELSE 2 * g[n - 1] + bits[n]
    <3>1. CASE n = 0
      BY <3>1, <1>5
    <3>2. CASE n # 0
      <4>1. n \in 1..N
        BY <3>2, <1>1
      <4> QED BY <4>1, <3>2, <1>6
    <3> QED BY <3>1, <3>2
  <2> QED BY <2>1
<1>8. f = [n \in 0..N |-> IF n = 0 THEN 0 ELSE 2 * f[n - 1] + bits[n]]
  <2> HIDE DEF G
  <2> QED BY Zenon, <1>7
<1> HIDE DEF f
<1>9. f[0] = 0
  BY <1>1, <1>8
<1>10. ASSUME NEW n \in 1..N PROVE f[n] = 2 * f[n - 1] + bits[n]
  BY <1>1, <1>8
<1>11. \A n \in 0..N : f[n] \in Nat
  <2> DEFINE T == {k \in 0..N : f[k] \in Nat}
  <2>1. 0 \in T
    BY <1>1, <1>9
  <2>2. ASSUME NEW i \in 0..N - 1, i \in T PROVE i + 1 \in T
    <3>1. i + 1 \in 1..N /\ i + 1 - 1 = i
      BY <1>1
    <3>2. f[i + 1] = 2 * f[i] + bits[i + 1]
      BY <3>1, <1>10
    <3>3. 2 * f[i] + bits[i + 1] \in Nat
      BY Zenon, <2>2, <3>1, <1>3
    <3> QED BY <3>1, <3>2, <3>3
  <2>3. \A n \in 0..N : n \in T
    <3> HIDE DEF T
    <3> QED BY Zenon, <2>1, <2>2, <1>1, IntervalInduction
  <2> QED BY <2>3
<1> QED BY Zenon, <1>2, <1>8, <1>9, <1>10, <1>11 DEF N

(* f is the recursion that Number computes, over n digits. *)
Folds(f, bits, n) ==
  /\ f \in [0..n -> Nat] /\ f[0] = 0 /\ Number(bits) = f[n]
  /\ \A i \in 1..n : f[i] = 2 * f[i - 1] + bits[i]

(* NumberFunction, by name. *)
LEMMA NumberFolds ==
  ASSUME NEW bits \in Seq(Nat), NEW n, n = Len(bits)
  PROVE  \E f : Folds(f, bits, n)
<1>1. PICK f \in [0..Len(bits) -> Nat] :
        /\ f[0] = 0 /\ Number(bits) = f[Len(bits)]
        /\ \A i \in 1..Len(bits) : f[i] = 2 * f[i - 1] + bits[i]
  BY Zenon, NumberFunction
<1>2. Folds(f, bits, n)
  BY <1>1 DEF Folds
<1> QED BY <1>2

(* The recursion of Number over five digits is a sum. *)
LEMMA Horner5 ==
  ASSUME NEW f, NEW b, b[1] \in Int, b[2] \in Int, b[3] \in Int, b[4] \in Int, b[5] \in Int,
         f[0] = 0, f[1] = 2 * f[0] + b[1], f[2] = 2 * f[1] + b[2], f[3] = 2 * f[2] + b[3],
         f[4] = 2 * f[3] + b[4], f[5] = 2 * f[4] + b[5]
  PROVE  f[5] = 16 * b[1] + 8 * b[2] + 4 * b[3] + 2 * b[4] + b[5]
OBVIOUS

(* The recursion of Number over eight digits is a sum. *)
LEMMA Horner8 ==
  ASSUME NEW f, NEW b, b[1] \in Int, b[2] \in Int, b[3] \in Int, b[4] \in Int, b[5] \in Int,
         b[6] \in Int, b[7] \in Int, b[8] \in Int,
         f[0] = 0, f[1] = 2 * f[0] + b[1], f[2] = 2 * f[1] + b[2], f[3] = 2 * f[2] + b[3],
         f[4] = 2 * f[3] + b[4], f[5] = 2 * f[4] + b[5], f[6] = 2 * f[5] + b[6],
         f[7] = 2 * f[6] + b[7], f[8] = 2 * f[7] + b[8]
  PROVE  f[8] = 128 * b[1] + 64 * b[2] + 32 * b[3] + 16 * b[4]
                  + 8 * b[5] + 4 * b[6] + 2 * b[7] + b[8]
<1>1. f[5] = 16 * b[1] + 8 * b[2] + 4 * b[3] + 2 * b[4] + b[5]
  BY Horner5
<1> DEFINE a == 16 * b[1] + 8 * b[2] + 4 * b[3] + 2 * b[4] + b[5]
<1>2. a \in Int /\ f[5] = a
  BY <1>1
<1>3. f[8] = 8 * a + 4 * b[6] + 2 * b[7] + b[8]
  <2> HIDE DEF a
  <2>1. f[6] = 2 * a + b[6]
    BY <1>2
  <2>2. f[7] = 4 * a + 2 * b[6] + b[7]
    BY <1>2, <2>1
  <2> QED BY <1>2, <2>2
<1>4. 8 * a = 128 * b[1] + 64 * b[2] + 32 * b[3] + 16 * b[4] + 8 * b[5]
  OBVIOUS
<1> QED BY <1>3, <1>4

(* The bounds of these sums. *)
LEMMA Sums ==
  ASSUME NEW x1 \in {0, 1}, NEW x2 \in {0, 1}, NEW x3 \in {0, 1}, NEW x4 \in {0, 1},
         NEW x5 \in {0, 1}, NEW x6 \in {0, 1}, NEW x7 \in {0, 1}, NEW x8 \in {0, 1}
  PROVE  /\ 16 * x1 + 8 * x2 + 4 * x3 + 2 * x4 + x5 \in 0..31
         /\ 128 * x1 + 64 * x2 + 32 * x3 + 16 * x4 + 8 * x5 + 4 * x6 + 2 * x7 + x8 \in 0..255
OBVIOUS

(* The number of five binary digits, and its bounds. *)
LEMMA NumberOf5 ==
  ASSUME NEW b \in [1..5 -> {0, 1}]
  PROVE  /\ Number(b) = 16 * b[1] + 8 * b[2] + 4 * b[3] + 2 * b[4] + b[5]
         /\ Number(b) \in 0..31
<1>1. b \in Seq(Nat) /\ Len(b) = 5
  <2> DEFINE n == 5
  <2>1. b \in [1..n -> Nat] /\ n \in Nat
    OBVIOUS
  <2> HIDE DEF n
  <2>2. b \in Seq(Nat) /\ Len(b) = n
    BY <2>1, FunctionIsSeq
  <2> QED BY <2>2 DEF n
<1>2. PICK f : f \in [0..5 -> Nat] /\ f[0] = 0 /\ Number(b) = f[5]
                 /\ \A n \in 1..5 : f[n] = 2 * f[n - 1] + b[n]
  <2> DEFINE m == 5
  <2>1. m = Len(b)
    BY <1>1
  <2> HIDE DEF m
  <2>2. PICK f : Folds(f, b, m)
    BY Zenon, <1>1, <2>1, NumberFolds
  <2>3. Folds(f, b, 5)
    BY <2>2 DEF m
  <2> QED BY Zenon, <2>3 DEF Folds
<1>3. f[1] = 2 * f[0] + b[1] /\ f[2] = 2 * f[1] + b[2] /\ f[3] = 2 * f[2] + b[3] /\ f[4] =
      2 * f[3] + b[4] /\ f[5] = 2 * f[4] + b[5]
  BY <1>2
<1>4. b[1] \in {0, 1} /\ b[2] \in {0, 1} /\ b[3] \in {0, 1} /\ b[4] \in {0, 1} /\ b[5] \in
      {0, 1}
  OBVIOUS
<1>5. b[1] \in Int /\ b[2] \in Int /\ b[3] \in Int /\ b[4] \in Int /\ b[5] \in Int
  BY <1>4
<1>6. f[5] = 16 * b[1] + 8 * b[2] + 4 * b[3] + 2 * b[4] + b[5]
  BY <1>2, <1>3, <1>5, Horner5
<1>7. f[5] \in 0..31
  BY <1>4, <1>6, Sums
<1> QED BY <1>2, <1>6, <1>7

(* The number of eight binary digits, and its bounds. *)
LEMMA NumberOf8 ==
  ASSUME NEW b \in [1..8 -> {0, 1}]
  PROVE  /\ Number(b) = 128 * b[1] + 64 * b[2] + 32 * b[3] + 16 * b[4] + 8 * b[5] + 4 *
                        b[6] + 2 * b[7] + b[8]
         /\ Number(b) \in 0..255
<1>1. b \in Seq(Nat) /\ Len(b) = 8
  <2> DEFINE n == 8
  <2>1. b \in [1..n -> Nat] /\ n \in Nat
    OBVIOUS
  <2> HIDE DEF n
  <2>2. b \in Seq(Nat) /\ Len(b) = n
    BY <2>1, FunctionIsSeq
  <2> QED BY <2>2 DEF n
<1>2. PICK f : f \in [0..8 -> Nat] /\ f[0] = 0 /\ Number(b) = f[8]
                 /\ \A n \in 1..8 : f[n] = 2 * f[n - 1] + b[n]
  <2> DEFINE m == 8
  <2>1. m = Len(b)
    BY <1>1
  <2> HIDE DEF m
  <2>2. PICK f : Folds(f, b, m)
    BY Zenon, <1>1, <2>1, NumberFolds
  <2>3. Folds(f, b, 8)
    BY <2>2 DEF m
  <2> QED BY Zenon, <2>3 DEF Folds
<1>3. f[1] = 2 * f[0] + b[1] /\ f[2] = 2 * f[1] + b[2] /\ f[3] = 2 * f[2] + b[3] /\ f[4] =
      2 * f[3] + b[4] /\ f[5] = 2 * f[4] + b[5] /\ f[6] = 2 * f[5] + b[6] /\ f[7] = 2 *
      f[6] + b[7] /\ f[8] = 2 * f[7] + b[8]
  BY <1>2
<1>4. b[1] \in {0, 1} /\ b[2] \in {0, 1} /\ b[3] \in {0, 1} /\ b[4] \in {0, 1} /\ b[5] \in
      {0, 1} /\ b[6] \in {0, 1} /\ b[7] \in {0, 1} /\ b[8] \in {0, 1}
  OBVIOUS
<1>5. b[1] \in Int /\ b[2] \in Int /\ b[3] \in Int /\ b[4] \in Int /\ b[5] \in Int /\ b[6]
      \in Int /\ b[7] \in Int /\ b[8] \in Int
  BY <1>4
<1>6. f[8] = 128 * b[1] + 64 * b[2] + 32 * b[3] + 16 * b[4] + 8 * b[5] + 4 * b[6] + 2 *
              b[7] + b[8]
  BY <1>2, <1>3, <1>5, Horner8
<1>7. f[8] \in 0..255
  BY <1>4, <1>6, Sums
<1> QED BY <1>2, <1>6, <1>7

(* The first powers of 2, by value. *)
LEMMA SmallPowers ==
  /\ 2 ^ 0 = 1 /\ 2 ^ 1 = 2 /\ 2 ^ 2 = 4 /\ 2 ^ 3 = 8
  /\ 2 ^ 4 = 16 /\ 2 ^ 5 = 32 /\ 2 ^ 6 = 64 /\ 2 ^ 7 = 128
OBVIOUS

(* The digits of a number made of five binary digits. *)
LEMMA DigitOf5 ==
  ASSUME NEW b \in [1..5 -> {0, 1}], NEW k \in 0..4
  PROVE  (Number(b) \div 2 ^ (4 - k)) % 2 = b[k + 1]
<1>1. b[1] \in {0, 1} /\ b[2] \in {0, 1} /\ b[3] \in {0, 1} /\ b[4] \in {0, 1} /\ b[5] \in {0, 1}
  OBVIOUS
<1>2. Number(b) = 16 * b[1] + 8 * b[2] + 4 * b[3] + 2 * b[4] + b[5]
  BY NumberOf5
<1>3. CASE k = 0
  <2>1. 2 ^ (4 - k) = 16 /\ k + 1 = 1
    BY <1>3, SmallPowers
  <2> QED BY <2>1, <1>1, <1>2
<1>4. CASE k = 1
  <2>1. 2 ^ (4 - k) = 8 /\ k + 1 = 2
    BY <1>4, SmallPowers
  <2> QED BY <2>1, <1>1, <1>2
<1>5. CASE k = 2
  <2>1. 2 ^ (4 - k) = 4 /\ k + 1 = 3
    BY <1>5, SmallPowers
  <2> QED BY <2>1, <1>1, <1>2
<1>6. CASE k = 3
  <2>1. 2 ^ (4 - k) = 2 /\ k + 1 = 4
    BY <1>6, SmallPowers
  <2> QED BY <2>1, <1>1, <1>2
<1>7. CASE k = 4
  <2>1. 2 ^ (4 - k) = 1 /\ k + 1 = 5
    BY <1>7, SmallPowers
  <2> QED BY <2>1, <1>1, <1>2
<1> QED BY <1>3, <1>4, <1>5, <1>6, <1>7

(* A byte is the number its eight binary digits denote. *)
LEMMA ByteIsItsDigits ==
  ASSUME NEW x \in 0..255
  PROVE  /\ [j \in 1..8 |-> (x \div 2 ^ (8 - j)) % 2] \in [1..8 -> {0, 1}]
         /\ Number([j \in 1..8 |-> (x \div 2 ^ (8 - j)) % 2]) = x
<1> DEFINE b == [j \in 1..8 |-> (x \div 2 ^ (8 - j)) % 2]
<1>1. /\ b[1] = (x \div 128) % 2 /\ b[2] = (x \div 64) % 2
      /\ b[3] = (x \div 32) % 2 /\ b[4] = (x \div 16) % 2
      /\ b[5] = (x \div 8) % 2 /\ b[6] = (x \div 4) % 2
      /\ b[7] = (x \div 2) % 2 /\ b[8] = (x \div 1) % 2
  <2>1. 8 - 1 = 7 /\ 8 - 2 = 6 /\ 8 - 3 = 5 /\ 8 - 4 = 4 /\ 8 - 5 = 3 /\ 8 - 6 = 2
        /\ 8 - 7 = 1 /\ 8 - 8 = 0
    OBVIOUS
  <2> QED BY <2>1, SmallPowers
<1>2. DOMAIN b = 1..8 /\ \A j \in 1..8 : j \in {1, 2, 3, 4, 5, 6, 7, 8}
  OBVIOUS
<1>3. /\ b[1] \in {0, 1} /\ b[2] \in {0, 1} /\ b[3] \in {0, 1} /\ b[4] \in {0, 1}
      /\ b[5] \in {0, 1} /\ b[6] \in {0, 1} /\ b[7] \in {0, 1} /\ b[8] \in {0, 1}
  <2> HIDE DEF b
  <2> QED BY <1>1
<1>4. b \in [1..8 -> {0, 1}]
  <2>1. \A j \in 1..8 : b[j] \in {0, 1}
    <3> HIDE DEF b
    <3> QED BY <1>2, <1>3
  <2>2. b = [j \in 1..8 |-> b[j]]
    OBVIOUS
  <2> HIDE DEF b
  <2> QED BY <2>1, <2>2
<1>5. Number(b) = x
  <2> HIDE DEF b
  <2>1. Number(b) = 128 * b[1] + 64 * b[2] + 32 * b[3] + 16 * b[4]
                      + 8 * b[5] + 4 * b[6] + 2 * b[7] + b[8]
    BY <1>4, NumberOf8
  <2> QED BY SMTT(30), <2>1, <1>1
<1> QED BY <1>4, <1>5

-----------------------------------------------------------------------------
(* convert_bits: groups of five bits, and back.                            *)

(* A sequence over S is a function into S on 1..Len(s). *)
LEMMA SeqIsFunction ==
  ASSUME NEW S, NEW s \in Seq(S), NEW n, n = Len(s)
  PROVE  s = [i \in 1..n |-> s[i]]
OBVIOUS

(* The powers of 2 in a byte. *)
LEMMA PowerIsSmall ==
  ASSUME NEW e \in 0..7
  PROVE  2 ^ e \in {1, 2, 4, 8, 16, 32, 64, 128}
<1>1. CASE e = 0
  BY <1>1, SmallPowers
<1>2. CASE e = 1
  BY <1>2, SmallPowers
<1>3. CASE e = 2
  BY <1>3, SmallPowers
<1>4. CASE e = 3
  BY <1>4, SmallPowers
<1>5. CASE e = 4
  BY <1>5, SmallPowers
<1>6. CASE e = 5
  BY <1>6, SmallPowers
<1>7. CASE e = 6
  BY <1>7, SmallPowers
<1>8. CASE e = 7
  BY <1>8, SmallPowers
<1> QED BY <1>1, <1>2, <1>3, <1>4, <1>5, <1>6, <1>7, <1>8

(* The stream of a byte string is made of bits, and of zeros after its     *)
(* end.                                                                    *)
LEMMA BitOf8 ==
  ASSUME NEW in \in Seq(0..255), NEW k \in Nat
  PROVE  /\ Bit(in, 8, k) \in {0, 1}
         /\ k >= 8 * Len(in) => Bit(in, 8, k) = 0
<1> DEFINE q == k \div 8
           r == k % 8
<1>1. q \in Nat /\ r \in 0..7 /\ k = 8 * q + r
  BY DivMod, k \in Int
<1>2. CASE k >= Len(in) * 8
  BY <1>2 DEF Bit
<1>3. CASE ~(k >= Len(in) * 8)
  <2> HIDE DEF q, r
  <2>1. q + 1 \in 1..Len(in)
    BY <1>1, <1>3
  <2> DEFINE x == in[q + 1]
             p == 2 ^ (8 - 1 - r)
  <2>2. x \in Nat
    <3>1. in[q + 1] \in 0..255
      BY Zenon, <2>1, ElementOfSeq
    <3>2. x \in 0..255
      BY <3>1
    <3> HIDE DEF x
    <3> QED BY <3>2
  <2>3. p \in {1, 2, 4, 8, 16, 32, 64, 128}
    <3>1. 8 - 1 - r \in 0..7
      BY <1>1
    <3> QED BY Zenon, <3>1, PowerIsSmall
  <2>4. Bit(in, 8, k) = (x \div p) % 2
    BY <1>3 DEF Bit, q, r
  <2>5. (x \div p) % 2 \in {0, 1}
    <3> HIDE DEF x, p
    <3> QED BY <2>2, <2>3
  <2> QED BY <2>4, <2>5, <1>3
<1> QED BY <1>2, <1>3

(* The groups of five bits are a sequence of numbers below 32. *)
LEMMA GroupsOf5 ==
  ASSUME NEW in \in Seq(0..255)
  PROVE  LET c == convert_bits(5, in, 8, TRUE)
         IN  /\ c \in Seq(0..31) /\ Len(c) = (8 * Len(in) + 4) \div 5
             /\ \A g \in 1..Len(c) :
                  LET b == [j \in 1..5 |-> Bit(in, 8, (g - 1) * 5 + j - 1)]
                  IN  b \in [1..5 -> {0, 1}] /\ c[g] = Number(b)
<1> DEFINE n == Len(in)
           total == n * 8
           left == total % 5
           whole == total \div 5
           W == whole + (IF left > 0 THEN 1 ELSE 0)
           b(g) == [j \in 1..5 |-> Bit(in, 8, (g - 1) * 5 + j - 1)]
           c == convert_bits(5, in, 8, TRUE)
<1>1. n \in Nat /\ total \in Nat
  OBVIOUS
<1>2. whole \in Nat /\ left \in 0..4 /\ total = 5 * whole + left
  <2> HIDE DEF n, total
  <2> QED BY <1>1, DivMod, total \in Int
<1>3. W \in Nat /\ W = (8 * n + 4) \div 5
  <2> HIDE DEF whole, left
  <2>1. W \in Nat
    BY <1>2
  <2> DEFINE rest == IF left = 0 THEN 4 ELSE left - 1
             a == 8 * n + 4
  <2>2. a = 5 * W + rest
    BY <1>1, <1>2
  <2>3. rest \in 0..5 - 1
    BY <1>2
  <2>4. a \in Int
    BY <1>1
  <2>5. W = a \div 5
    <3> HIDE DEF W, rest, a
    <3> QED BY <2>1, <2>2, <2>3, <2>4, DivModUnique
  <2> QED BY <2>1, <2>5
<1>4. c = [g \in 1..W |-> Number(b(g))]
  BY DEF convert_bits
<1>5. ASSUME NEW g \in 1..W PROVE b(g) \in [1..5 -> {0, 1}]
  <2> HIDE DEF W, whole, left
  <2>1. \A j \in 1..5 : (g - 1) * 5 + j - 1 \in Nat
    BY <1>3
  <2> QED BY <2>1, BitOf8
<1>6. ASSUME NEW g \in 1..W PROVE Number(b(g)) \in 0..31
  <2> HIDE DEF W, b
  <2> QED BY <1>5, NumberOf5
<1>7. c \in Seq(0..31) /\ Len(c) = W
  <2> HIDE DEF W, b, c
  <2>1. c \in [1..W -> 0..31]
    BY Zenon, <1>4, <1>6
  <2>2. W \in Nat
    BY <1>3
  <2> QED BY <2>1, <2>2, FunctionIsSeq
<1> HIDE DEF W
<1>8. ASSUME NEW g \in 1..Len(c) PROVE b(g) \in [1..5 -> {0, 1}] /\ c[g] = Number(b(g))
  <2> HIDE DEF c
  <2>1. g \in 1..W
    BY <1>7
  <2> QED BY <2>1, <1>4, <1>5
<1> QED BY Zenon, <1>3, <1>7, <1>8

(* The groups hold the bits of the input, in their order, and then zeros. *)
LEMMA SameBits ==
  ASSUME NEW in \in Seq(0..255), NEW k \in Nat
  PROVE  Bit(convert_bits(5, in, 8, TRUE), 5, k) = Bit(in, 8, k)
<1> DEFINE c == convert_bits(5, in, 8, TRUE)
           q == k \div 5
           r == k % 5
           n == Len(in)
           W == Len(c)
<1>1. q \in Nat /\ r \in 0..4 /\ k = 5 * q + r
  BY DivMod, k \in Int
<1>2. /\ c \in Seq(0..31) /\ W = (8 * n + 4) \div 5
      /\ \A g \in 1..W :
           LET b == [j \in 1..5 |-> Bit(in, 8, (g - 1) * 5 + j - 1)]
           IN  b \in [1..5 -> {0, 1}] /\ c[g] = Number(b)
  BY Zenon, GroupsOf5
<1>3. n \in Nat /\ W \in Nat /\ 8 * n <= 5 * W
  <2>1. n \in Nat /\ 8 * n + 4 \in Int
    OBVIOUS
  <2> HIDE DEF n
  <2> DEFINE a == 8 * n + 4
  <2>2. a \div 5 \in Nat /\ a % 5 \in 0..4 /\ a = 5 * (a \div 5) + (a % 5)
    BY <2>1, DivMod, a \in Int
  <2> HIDE DEF W, c
  <2> QED BY <1>2, <2>1, <2>2
<1> HIDE DEF c, q, r, n, W
<1>4. CASE k >= W * 5
  <2>1. Bit(c, 5, k) = 0
    BY <1>4 DEF Bit, W
  <2>2. k >= 8 * Len(in)
    BY <1>3, <1>4 DEF n
  <2> QED BY Zenon, <2>1, <2>2, BitOf8 DEF c
<1>5. CASE ~(k >= W * 5)
  <2> DEFINE g == q + 1
             b == [j \in 1..5 |-> Bit(in, 8, (g - 1) * 5 + j - 1)]
  <2>1. g \in 1..W
    BY <1>1, <1>3, <1>5
  <2>2. b \in [1..5 -> {0, 1}] /\ c[g] = Number(b)
    BY Zenon, <1>2, <2>1
  <2>3. Bit(c, 5, k) = (c[g] \div 2 ^ (5 - 1 - r)) % 2
    BY <1>5 DEF Bit, W, q, r
  <2>4. 5 - 1 - r = 4 - r
    BY <1>1
  <2>5. (Number(b) \div 2 ^ (4 - r)) % 2 = b[r + 1]
    <3> HIDE DEF b
    <3> QED BY Zenon, <2>2, <1>1, DigitOf5
  <2>6. b[r + 1] = Bit(in, 8, k)
    <3>1. r + 1 \in 1..5 /\ (g - 1) * 5 + (r + 1) - 1 = k
      BY <1>1
    <3> QED BY <3>1
  <2> QED BY Zenon, <2>2, <2>3, <2>4, <2>5, <2>6 DEF c
<1> QED BY Zenon, <1>4, <1>5

(* Regrouping the groups into bytes gives the input. *)
LEMMA RegroupsBack ==
  ASSUME NEW in \in Seq(0..255)
  PROVE  convert_bits(8, convert_bits(5, in, 8, TRUE), 5, FALSE) = in
<1> DEFINE c == convert_bits(5, in, 8, TRUE)
           n == Len(in)
           W == Len(c)
           total == W * 5
           left == total % 8
           whole == total \div 8
           b(g) == [j \in 1..8 |-> Bit(c, 5, (g - 1) * 8 + j - 1)]
<1>1. c \in Seq(0..31) /\ W = (8 * n + 4) \div 5 /\ n \in Nat
  <2>1. c \in Seq(0..31) /\ W = (8 * n + 4) \div 5
    BY Zenon, GroupsOf5
  <2>2. n \in Nat
    OBVIOUS
  <2> QED BY Zenon, <2>1, <2>2
<1>2. W \in Nat /\ 8 * n <= 5 * W /\ 5 * W <= 8 * n + 4
  <2> HIDE DEF n, c
  <2> DEFINE a == 8 * n + 4
  <2>1. a \in Int
    BY <1>1
  <2>2. a \div 5 \in Int /\ a % 5 \in 0..4 /\ a = 5 * (a \div 5) + (a % 5)
    <3> HIDE DEF a
    <3> QED BY <2>1, DivMod
  <2> HIDE DEF W
  <2> QED BY <1>1, <2>2
<1>3. whole = n /\ left = total - 8 * n /\ left < 5
  <2> HIDE DEF n, W
  <2>1. total = 8 * n + (total - 8 * n) /\ total - 8 * n \in 0..8 - 1 /\ total \in Int
        /\ total - 8 * n < 5
    BY <1>1, <1>2
  <2>2. total - 8 * n \in 0..8 - 1 => (whole = n /\ left = total - 8 * n)
    <3> HIDE DEF total
    <3> QED BY <2>1, <1>1, DivModUnique
  <2> QED BY <2>1, <2>2
<1>4. convert_bits(8, c, 5, FALSE) =
        IF Number(b(whole + 1)) # 0 \/ left >= 5 THEN <<>>
        ELSE [g \in 1..whole |-> Number(b(g))]
  BY DEF convert_bits
<1> HIDE DEF whole, left, total, W
<1>5. ASSUME NEW g \in 1..n + 1
      PROVE  b(g) = [j \in 1..8 |-> Bit(in, 8, (g - 1) * 8 + j - 1)]
  <2> HIDE DEF n
  <2>1. \A j \in 1..8 : (g - 1) * 8 + j - 1 \in Nat
    BY <1>1
  <2> QED BY Zenon, <2>1, SameBits
<1>6. Number(b(n + 1)) = 0
  <2> DEFINE g == n + 1
             z == b(g)
  <2>1. g \in 1..n + 1 /\ g = n + 1
    BY <1>1
  <2>2. z = [j \in 1..8 |-> Bit(in, 8, (g - 1) * 8 + j - 1)]
    <3> HIDE DEF b, g
    <3> QED BY Zenon, <1>5, <2>1
  <2>3. \A j \in 1..8 : (g - 1) * 8 + j - 1 \in Nat /\ (g - 1) * 8 + j - 1 >= 8 * n
    <3> HIDE DEF n, g
    <3> QED BY <1>1, <2>1
  <2>4. \A j \in 1..8 : Bit(in, 8, (g - 1) * 8 + j - 1) = 0
    <3> HIDE DEF g
    <3> QED BY Zenon, <2>3, BitOf8 DEF n
  <2>5. z = [j \in 1..8 |-> 0]
    <3> HIDE DEF z, b, n, g
    <3> QED BY <2>2, <2>4
  <2>6. z \in [1..8 -> {0, 1}]
    <3> HIDE DEF z
    <3> QED BY <2>5
  <2>7. Number(z) = 128 * z[1] + 64 * z[2] + 32 * z[3] + 16 * z[4]
                      + 8 * z[5] + 4 * z[6] + 2 * z[7] + z[8]
    <3> HIDE DEF z
    <3> QED BY <2>6, NumberOf8
  <2>8. z[1] = 0 /\ z[2] = 0 /\ z[3] = 0 /\ z[4] = 0 /\ z[5] = 0 /\ z[6] = 0 /\ z[7] = 0 /\ z[8] = 0
    <3> HIDE DEF z
    <3> QED BY <2>5
  <2> QED
    <3> HIDE DEF z
    <3>1. Number(z) = 0
      BY <2>7, <2>8
    <3> QED BY <3>1 DEF z
<1>7. ASSUME NEW g \in 1..n PROVE Number(b(g)) = in[g]
  <2> DEFINE x == in[g]
             d == [j \in 1..8 |-> (x \div 2 ^ (8 - j)) % 2]
  <2>1. x \in 0..255 /\ g \in 1..n + 1
    <3>1. x \in 0..255
      BY ElementOfSeq DEF n
    <3>2. g \in 1..n + 1
      <4> HIDE DEF n
      <4> QED BY <1>1
    <3> QED BY <3>1, <3>2
  <2>2. b(g) = [j \in 1..8 |-> Bit(in, 8, (g - 1) * 8 + j - 1)]
    BY Zenon, <1>5, <2>1
  <2>3. ASSUME NEW j \in 1..8
        PROVE  Bit(in, 8, (g - 1) * 8 + j - 1) = (x \div 2 ^ (8 - j)) % 2
    <3> DEFINE k == (g - 1) * 8 + j - 1
    <3>1. k \in Int /\ g - 1 \in Int /\ j - 1 \in 0..8 - 1 /\ k = 8 * (g - 1) + (j - 1)
      OBVIOUS
    <3>2. k \div 8 = g - 1 /\ k % 8 = j - 1
      <4> HIDE DEF k
      <4> QED BY <3>1, DivModUnique
    <3>3. ~(k >= Len(in) * 8)
      BY DEF n
    <3>4. Bit(in, 8, k) = (in[(g - 1) + 1] \div 2 ^ (8 - 1 - (j - 1))) % 2
      <4> HIDE DEF k
      <4> QED BY <3>2, <3>3 DEF Bit
    <3>5. (g - 1) + 1 = g /\ 8 - 1 - (j - 1) = 8 - j
      OBVIOUS
    <3> QED BY <3>4, <3>5
  <2>4. b(g) = d
    <3> HIDE DEF b, x
    <3> QED BY <2>2, <2>3
  <2>5. Number(d) = x
    <3> HIDE DEF x
    <3> QED BY Zenon, <2>1, ByteIsItsDigits
  <2> QED BY Zenon, <2>4, <2>5
<1>8. [g \in 1..whole |-> Number(b(g))] = in
  <2> HIDE DEF b
  <2>1. in = [g \in 1..n |-> in[g]]
    OBVIOUS
  <2> QED BY <1>3, <1>7, <2>1
<1>9. ~(Number(b(whole + 1)) # 0 \/ left >= 5)
  <2>1. Number(b(whole + 1)) = 0
    BY <1>3, <1>6
  <2>2. left \in Int
    <3>1. total \in Int
      BY <1>2 DEF total
    <3> QED BY <1>3, <3>1, <1>1
  <2> HIDE DEF b
  <2> QED BY <1>3, <2>1, <2>2
<1> QED BY Zenon, <1>4, <1>8, <1>9

-----------------------------------------------------------------------------
(* The checksum word: a step is linear, and Absorb is a sequence of steps. *)

(* Bits is a set of positions. *)
LEMMA BitsType ==
  ASSUME NEW n
  PROVE  Bits(n) \in SUBSET (0..29)
BY DEF Bits

(* The step yields a set of positions. *)
LEMMA StepType ==
  ASSUME NEW pre \in SUBSET (0..29)
  PROVE  bech32_polymod_step[pre] \in SUBSET (0..29)
<1> DEFINE generators(i) == {k \in 0..4 : k + 25 \in pre /\ i \in GENERATOR[k + 1]}
           ones(i) == Cardinality(generators(i)) + IF i - 5 \in pre THEN 1 ELSE 0
<1>1. bech32_polymod_step[pre] = {i \in 0..29 : ones(i) % 2 = 1}
  BY DEF bech32_polymod_step
<1> HIDE DEF ones
<1> QED BY <1>1

(* At most five generators are chosen: their number is a natural number. *)
LEMMA SubsetCardinality ==
  ASSUME NEW S \in SUBSET (0..4)
  PROVE  Cardinality(S) \in Nat
<1> DEFINE lo == 0
           hi == 4
<1>1. IsFiniteSet(0..4)
  <2>1. lo \in Int /\ hi \in Int
    OBVIOUS
  <2> HIDE DEF lo, hi
  <2>2. IsFiniteSet(lo..hi)
    BY <2>1, FS_Interval
  <2> QED BY <2>2 DEF lo, hi
<1>2. IsFiniteSet(S)
  BY Zenon, <1>1, FS_Subset
<1> QED BY <1>2, FS_CardinalityType

(* One more or one less term under an exclusive or flips it. *)
LEMMA ParityFlips ==
  ASSUME NEW c \in Nat, NEW A, NEW B
  PROVE  (c + IF (A /\ ~B) \/ (B /\ ~A) THEN 1 ELSE 0) % 2 = 1
         <=> ((c + IF A THEN 1 ELSE 0) % 2 = 1 /\ ~B) \/ (B /\ ~((c + IF A THEN 1 ELSE 0) % 2 = 1))
OBVIOUS

(* The step of the checksum is linear in the low 25 bits: what changes in  *)
(* the word before it changes five places higher in the word after it.     *)
LEMMA StepLinear ==
  ASSUME NEW a \in SUBSET (0..29), NEW b \in SUBSET (0..24)
  PROVE  bech32_polymod_step[SymDiff(a, b)] =
           SymDiff(bech32_polymod_step[a], {i \in 5..29 : i - 5 \in b})
<1> DEFINE generators(p, i) == {k \in 0..4 : k + 25 \in p /\ i \in GENERATOR[k + 1]}
           ones(p, i) == Cardinality(generators(p, i)) + IF i - 5 \in p THEN 1 ELSE 0
           s == SymDiff(a, b)
<1>1. s \in SUBSET (0..29) /\ \A i : i \in s <=> (i \in a /\ i \notin b) \/ (i \in b /\ i \notin a)
  BY DEF SymDiff
<1>2. ASSUME NEW p \in SUBSET (0..29)
      PROVE  bech32_polymod_step[p] = {i \in 0..29 : ones(p, i) % 2 = 1}
  BY DEF bech32_polymod_step
<1> HIDE DEF s
<1>3. ASSUME NEW i \in 0..29
      PROVE  ones(s, i) % 2 = 1 <=> \/ ones(a, i) % 2 = 1 /\ i - 5 \notin b
                                    \/ i - 5 \in b /\ ~(ones(a, i) % 2 = 1)
  <2> DEFINE c == Cardinality(generators(a, i))
             A == i - 5 \in a
             B == i - 5 \in b
             S == i - 5 \in s
  <2>1. \A k \in 0..4 : k + 25 \in s <=> k + 25 \in a
    <3>1. \A k \in 0..4 : k + 25 \notin b
      OBVIOUS
    <3> QED BY <3>1, <1>1
  <2>2. generators(s, i) = generators(a, i)
    BY <2>1
  <2>3. c \in Nat
    <3>1. generators(a, i) \in SUBSET (0..4)
      OBVIOUS
    <3> HIDE DEF generators
    <3> QED BY <3>1, SubsetCardinality
  <2>4. S <=> (A /\ ~B) \/ (B /\ ~A)
    BY <1>1
  <2>5. ones(s, i) = c + IF S THEN 1 ELSE 0
    BY <2>2
  <2>6. ones(s, i) = c + IF (A /\ ~B) \/ (B /\ ~A) THEN 1 ELSE 0
    <3> HIDE DEF ones, c, A, B, S
    <3> QED BY <2>4, <2>5
  <2>7. ones(a, i) = c + IF A THEN 1 ELSE 0
    OBVIOUS
  <2>8. ones(s, i) % 2 = 1 <=> (ones(a, i) % 2 = 1 /\ ~B) \/ (B /\ ~(ones(a, i) % 2 = 1))
    <3> HIDE DEF ones, c, A, B, S
    <3>1. (c + IF (A /\ ~B) \/ (B /\ ~A) THEN 1 ELSE 0) % 2 = 1
         <=> ((c + IF A THEN 1 ELSE 0) % 2 = 1 /\ ~B) \/ (B /\ ~((c + IF A THEN 1 ELSE 0) % 2 = 1))
      BY <2>3, ParityFlips
    <3> QED BY <3>1, <2>6, <2>7
  <2> HIDE DEF ones
  <2> QED BY <2>8
<1> DEFINE sa == bech32_polymod_step[a]
           shifted == {i \in 5..29 : i - 5 \in b}
<1>4. sa = {i \in 0..29 : ones(a, i) % 2 = 1} /\ bech32_polymod_step[s] = {i \in 0..29 : ones(s, i) % 2 = 1}
  BY <1>1, <1>2
<1>5. \A i \in 0..29 : i - 5 \in b <=> i \in shifted
  OBVIOUS
<1>6. shifted \in SUBSET (0..29)
  OBVIOUS
<1>7. SymDiff(sa, shifted) = {i \in 0..29 : (i \in sa /\ i \notin shifted) \/ (i \in shifted /\ i \notin sa)}
  <2>1. sa \in SUBSET (0..29)
    BY StepType
  <2> HIDE DEF sa, shifted
  <2> QED BY Zenon, <2>1, <1>6 DEF SymDiff
<1> HIDE DEF ones, sa, shifted
<1>8. bech32_polymod_step[s] = SymDiff(sa, shifted)
  BY <1>3, <1>4, <1>5, <1>7
<1> QED BY <1>8 DEF s, sa, shifted

Absorbs(f, start, values) ==
  /\ f[0] = start /\ Absorb(start, values) = f[Len(values)]
  /\ \A n \in 1..Len(values) :
       f[n] = SymDiff(bech32_polymod_step[f[n - 1]], Bits(values[n]))

(* Absorb computes the recursion its definition writes down. *)
LEMMA AbsorbFunction ==
  ASSUME NEW start \in SUBSET (0..29), NEW S, NEW values \in Seq(S)
  PROVE  \E f \in [0..Len(values) -> SUBSET (0..29)] : Absorbs(f, start, values)
<1> DEFINE N == Len(values)
           W == SUBSET (0..29)
           zero == start
           f == CHOOSE chk : chk = [n \in 0..N |->
                  IF n = 0 THEN start
                  ELSE SymDiff(bech32_polymod_step[chk[n - 1]], Bits(values[n]))]
           G == [p \in (1..N) \X W |-> SymDiff(bech32_polymod_step[p[2]], Bits(values[p[1]]))]
<1>1. N \in Nat /\ zero \in W
  OBVIOUS
<1>2. Absorb(start, values) = f[N]
  BY DEF Absorb
<1> HIDE DEF N
<1>3. \A k \in W, n \in 1..N : SymDiff(bech32_polymod_step[k], Bits(values[n])) \in W
  <2> TAKE k \in W, n \in 1..N
  <2>1. bech32_polymod_step[k] \in SUBSET (0..29) /\ Bits(values[n]) \in SUBSET (0..29)
    BY Zenon, StepType, BitsType
  <2> QED BY Zenon, <2>1 DEF SymDiff
<1> HIDE DEF W
<1>4. G \in [(1..N) \X W -> W]
  BY <1>3
<1>5. PICK g \in [0..N -> W] :
        g[0] = zero /\ \A i \in 1..N : g[i] = G[<<i, g[i - 1]>>]
  <2> HIDE DEF G, zero, f
  <2>1. \E g \in [0..N -> W] : Follows(g, N, zero, G)
    BY Zenon, <1>1, <1>4, Recursion
  <2> QED BY Zenon, <2>1 DEF Follows
<1>6. ASSUME NEW i \in 1..N
      PROVE  g[i] = SymDiff(bech32_polymod_step[g[i - 1]], Bits(values[i]))
  <2>1. g[i - 1] \in W /\ i - 1 \in 0..N
    BY <1>1
  <2>2. G[<<i, g[i - 1]>>] = SymDiff(bech32_polymod_step[g[i - 1]], Bits(values[i]))
    BY <2>1
  <2> QED BY Zenon, <2>2, <1>5
<1>7. g = [n \in 0..N |-> IF n = 0 THEN start
                          ELSE SymDiff(bech32_polymod_step[g[n - 1]], Bits(values[n]))]
  <2> HIDE DEF G, f
  <2>1. ASSUME NEW n \in 0..N
        PROVE  g[n] = IF n = 0 THEN start
                      ELSE SymDiff(bech32_polymod_step[g[n - 1]], Bits(values[n]))
    <3>1. CASE n = 0
      BY <3>1, <1>5
    <3>2. CASE n # 0
      <4>1. n \in 1..N
        BY <3>2, <1>1
      <4> QED BY <4>1, <3>2, <1>6
    <3> QED BY <3>1, <3>2
  <2> QED BY <2>1
<1>8. f = [n \in 0..N |-> IF n = 0 THEN start
                          ELSE SymDiff(bech32_polymod_step[f[n - 1]], Bits(values[n]))]
  <2> HIDE DEF G
  <2> QED BY Zenon, <1>7
<1> HIDE DEF f
<1>9. f[0] = start
  BY <1>1, <1>8
<1>10. ASSUME NEW n \in 1..N
       PROVE  f[n] = SymDiff(bech32_polymod_step[f[n - 1]], Bits(values[n]))
  BY <1>1, <1>8
<1>11. \A n \in 0..N : f[n] \in W
  <2> DEFINE T == {k \in 0..N : f[k] \in W}
  <2>1. 0 \in T
    BY <1>1, <1>9
  <2>2. ASSUME NEW i \in 0..N - 1, i \in T PROVE i + 1 \in T
    <3>1. i + 1 \in 1..N /\ i + 1 - 1 = i
      BY <1>1
    <3>2. f[i + 1] = SymDiff(bech32_polymod_step[f[i]], Bits(values[i + 1]))
      BY <3>1, <1>10
    <3>3. f[i + 1] \in W
      BY <2>2, <3>1, <3>2, <1>3
    <3> QED BY <3>1, <3>3
  <2>3. \A n \in 0..N : n \in T
    <3> HIDE DEF T
    <3> QED BY Zenon, <2>1, <2>2, <1>1, IntervalInduction
  <2> QED BY <2>3
<1> QED BY Zenon, <1>2, <1>8, <1>9, <1>10, <1>11 DEF N, W, Absorbs

-----------------------------------------------------------------------------
(* Six characters close the checksum.                                      *)

(* No number of five bits reaches a power of 2 from 2 ^ 5 on. *)
LEMMA PowerIsLarge ==
  ASSUME NEW e \in 5..29
  PROVE  2 ^ e \in Nat /\ 2 ^ e >= 32
<1>1. CASE e = 5
  BY <1>1
<1>2. CASE e = 6
  BY <1>2
<1>3. CASE e = 7
  BY <1>3
<1>4. CASE e = 8
  BY <1>4
<1>5. CASE e = 9
  BY <1>5
<1>6. CASE e = 10
  BY <1>6
<1>7. CASE e = 11
  BY <1>7
<1>8. CASE e = 12
  BY <1>8
<1>9. CASE e = 13
  BY <1>9
<1>10. CASE e = 14
  BY <1>10
<1>11. CASE e = 15
  BY <1>11
<1>12. CASE e = 16
  BY <1>12
<1>13. CASE e = 17
  BY <1>13
<1>14. CASE e = 18
  BY <1>14
<1>15. CASE e = 19
  BY <1>15
<1>16. CASE e = 20
  BY <1>16
<1>17. CASE e = 21
  BY <1>17
<1>18. CASE e = 22
  BY <1>18
<1>19. CASE e = 23
  BY <1>19
<1>20. CASE e = 24
  BY <1>20
<1>21. CASE e = 25
  BY <1>21
<1>22. CASE e = 26
  BY <1>22
<1>23. CASE e = 27
  BY <1>23
<1>24. CASE e = 28
  BY <1>24
<1>25. CASE e = 29
  BY <1>25
<1> QED BY <1>1, <1>2, <1>3, <1>4, <1>5, <1>6, <1>7, <1>8, <1>9, <1>10, <1>11, <1>12,
           <1>13, <1>14, <1>15, <1>16, <1>17, <1>18, <1>19, <1>20, <1>21, <1>22, <1>23,
           <1>24, <1>25

(* The elements of a concatenation. *)
LEMMA Concatenation ==
  ASSUME NEW S, NEW s \in Seq(S), NEW t \in Seq(S)
  PROVE  /\ s \o t \in Seq(S) /\ Len(s \o t) = Len(s) + Len(t)
         /\ \A i \in 1..Len(s) : (s \o t)[i] = s[i]
         /\ \A i \in 1..Len(t) : (s \o t)[Len(s) + i] = t[i]
OBVIOUS

(* The bits of a number made of five binary digits. *)
LEMMA BitsOfSymbol ==
  ASSUME NEW b \in [1..5 -> {0, 1}]
  PROVE  Bits(Number(b)) = {i \in 0..4 : b[5 - i] = 1}
<1> DEFINE n == Number(b)
<1>1. n \in 0..31
  BY NumberOf5
<1>2. ASSUME NEW i \in 0..4 PROVE (n \div 2 ^ i) % 2 = b[5 - i]
  <2>1. 4 - i \in 0..4 /\ 4 - (4 - i) = i /\ (4 - i) + 1 = 5 - i
    OBVIOUS
  <2>2. (Number(b) \div 2 ^ (4 - (4 - i))) % 2 = b[(4 - i) + 1]
    BY Zenon, <2>1, DigitOf5
  <2> QED BY <2>1, <2>2
<1>3. ASSUME NEW i \in 5..29 PROVE (n \div 2 ^ i) % 2 = 0
  <2> DEFINE p == 2 ^ i
             zero == 0
  <2>1. p \in Nat \ {0} /\ p >= 32
    <3>1. p \in Nat /\ p >= 32
      BY Zenon, PowerIsLarge
    <3> HIDE DEF p
    <3> QED BY <3>1
  <2>2. n \in Int /\ zero \in Int /\ n \in 0..p - 1 /\ n = p * zero + n
    <3> HIDE DEF p, n
    <3> QED BY <1>1, <2>1
  <2>3. n \div p = zero
    <3> HIDE DEF p, n, zero
    <3> QED BY <2>1, <2>2, DivModUnique
  <2> HIDE DEF p, n
  <2> QED BY <2>3 DEF p
<1> DEFINE val(i) == (n \div 2 ^ i) % 2
<1>4. Bits(n) = {i \in 0..29 : val(i) = 1}
  BY DEF Bits
<1> HIDE DEF n
<1>5. ASSUME NEW i \in 0..29
      PROVE  val(i) = 1 <=> i \in 0..4 /\ b[5 - i] = 1
  <2>1. CASE i \in 0..4
    <3>1. val(i) = b[5 - i]
      BY Zenon, <2>1, <1>2
    <3> HIDE DEF val
    <3> QED BY <3>1, <2>1
  <2>2. CASE i \in 5..29
    <3>1. val(i) = 0
      BY Zenon, <2>2, <1>3
    <3> HIDE DEF val
    <3> QED BY <3>1, <2>2
  <2> HIDE DEF val
  <2> QED BY <2>1, <2>2
<1>6. Bits(n) = {i \in 0..4 : b[5 - i] = 1}
  <2> HIDE DEF val
  <2> QED BY <1>4, <1>5
<1> QED BY <1>6 DEF n

(* Zero has no bits. *)
LEMMA BitsOfZero == Bits(0) = {}
<1>1. ASSUME NEW i \in 0..29 PROVE (0 \div 2 ^ i) % 2 # 1
  <2> DEFINE p == 2 ^ i
  <2>1. p \in Nat \ {0}
    <3>1. CASE i \in 0..7
      <4>1. p \in {1, 2, 4, 8, 16, 32, 64, 128}
        BY Zenon, <3>1, PowerIsSmall
      <4> HIDE DEF p
      <4> QED BY <4>1
    <3>2. CASE i \in 5..29
      <4>1. p \in Nat /\ p >= 32
        BY Zenon, <3>2, PowerIsLarge
      <4> HIDE DEF p
      <4> QED BY <4>1
    <3> QED BY <3>1, <3>2
  <2> HIDE DEF p
  <2>2. 0 \div p = 0
    <3>1. 0 = p * 0 + 0 /\ 0 \in 0..p - 1 /\ 0 \in Int
      BY <2>1
    <3> QED BY <2>1, <3>1, DivModUnique
  <2>3. (0 \div p) % 2 # 1
    BY <2>2
  <2> QED BY <2>3 DEF p
<1> QED BY Zenon, <1>1 DEF Bits

(* The six characters of a checksum. *)
Symbols(chk) ==
  [i \in 1..6 |-> Number([j \in 1..5 |-> IF 5 * (6 - i) + 5 - j \in chk THEN 1 ELSE 0])]

(* A checksum is six numbers below 32. *)
LEMMA SymbolsType ==
  ASSUME NEW chk
  PROVE  Symbols(chk) \in Seq(0..31) /\ Len(Symbols(chk)) = 6
<1> DEFINE b(i) == [j \in 1..5 |-> IF 5 * (6 - i) + 5 - j \in chk THEN 1 ELSE 0]
           n == 6
<1>1. \A i \in 1..6 : b(i) \in [1..5 -> {0, 1}]
  OBVIOUS
<1>2. \A i \in 1..6 : Number(b(i)) \in 0..31
  <2> HIDE DEF b
  <2> QED BY <1>1, NumberOf5
<1>3. Symbols(chk) \in [1..n -> 0..31] /\ n \in Nat
  <2>1. Symbols(chk) = [i \in 1..6 |-> Number(b(i))]
    BY DEF Symbols
  <2> HIDE DEF b
  <2> QED BY <2>1, <1>2
<1>4. Symbols(chk) \in Seq(0..31) /\ Len(Symbols(chk)) = n
  <2> HIDE DEF n
  <2> QED BY <1>3, FunctionIsSeq
<1> QED BY <1>4

(* The bits of the i-th character of a checksum are five bits of the word. *)
LEMMA BitsOfSymbols ==
  ASSUME NEW chk, NEW i \in 1..6
  PROVE  Bits(Symbols(chk)[i]) = {k \in 0..4 : 5 * (6 - i) + k \in chk}
<1> DEFINE b == [j \in 1..5 |-> IF 5 * (6 - i) + 5 - j \in chk THEN 1 ELSE 0]
<1>1. b \in [1..5 -> {0, 1}]
  OBVIOUS
<1>2. Symbols(chk)[i] = Number(b)
  BY DEF Symbols
<1>3. Bits(Number(b)) = {k \in 0..4 : b[5 - k] = 1}
  <2> HIDE DEF b
  <2> QED BY <1>1, BitsOfSymbol
<1>4. ASSUME NEW k \in 0..4 PROVE b[5 - k] = 1 <=> 5 * (6 - i) + k \in chk
  <2>1. 5 - k \in 1..5 /\ 5 * (6 - i) + 5 - (5 - k) = 5 * (6 - i) + k
    OBVIOUS
  <2> QED BY <2>1
<1> HIDE DEF b
<1> QED BY <1>2, <1>3, <1>4

(* n characters of the checksum in place of as many zeros: the word then   *)
(* differs in the bits these characters carry.                             *)
High(chk, n) == {i \in 0..(5 * n) - 1 : i + 5 * (6 - n) \in chk}

(* One character more carries five bits more. *)
LEMMA OneSymbolMore ==
  ASSUME NEW chk \in SUBSET (0..29), NEW n \in 0..5,
         NEW z \in SUBSET (0..29), NEW w \in SUBSET (0..29), w = SymDiff(z, High(chk, n))
  PROVE  SymDiff(bech32_polymod_step[w], Bits(Symbols(chk)[n + 1]))
           = SymDiff(SymDiff(bech32_polymod_step[z], Bits(0)), High(chk, n + 1))
<1> DEFINE b == High(chk, n)
           sz == bech32_polymod_step[z]
           shifted == {i \in 5..29 : i - 5 \in b}
           low == {k \in 0..4 : 5 * (6 - (n + 1)) + k \in chk}
           h == High(chk, n + 1)
<1>1. b \in SUBSET (0..24)
  BY DEF High
<1>2. bech32_polymod_step[w] = SymDiff(sz, shifted)
  <2>1. w = SymDiff(z, b)
    OBVIOUS
  <2> HIDE DEF b
  <2>2. bech32_polymod_step[SymDiff(z, b)] = SymDiff(bech32_polymod_step[z], {i \in 5..29 : i - 5 \in b})
    BY Zenon, <1>1, StepLinear
  <2> QED BY <2>1, <2>2
<1>3. Bits(Symbols(chk)[n + 1]) = low
  <2>1. n + 1 \in 1..6
    OBVIOUS
  <2> QED BY <2>1, BitsOfSymbols
<1>4. sz \in SUBSET (0..29)
  BY StepType
<1>5. \A i : i \in h <=> i \in shifted \/ i \in low
  <2>1. ASSUME NEW i \in h PROVE i \in shifted \/ i \in low
    <3>1. i \in 0..(5 * (n + 1)) - 1 /\ i + 5 * (6 - (n + 1)) \in chk
      BY DEF High
    <3>2. CASE i \in 0..4
      <4>1. 5 * (6 - (n + 1)) + i = i + 5 * (6 - (n + 1))
        BY <3>1
      <4> QED BY <3>1, <3>2, <4>1
    <3>3. CASE i \notin 0..4
      <4>1. i - 5 \in 0..(5 * n) - 1 /\ (i - 5) + 5 * (6 - n) = i + 5 * (6 - (n + 1)) /\ i \in 5..29
        BY <3>1, <3>3
      <4>2. i - 5 \in b
        BY <3>1, <4>1 DEF High
      <4> QED BY <4>1, <4>2
    <3> QED BY <3>2, <3>3
  <2>2. ASSUME NEW i \in shifted PROVE i \in h
    <3>1. i \in 5..29 /\ i - 5 \in 0..(5 * n) - 1 /\ (i - 5) + 5 * (6 - n) \in chk
      BY DEF High
    <3>2. i \in 0..(5 * (n + 1)) - 1 /\ (i - 5) + 5 * (6 - n) = i + 5 * (6 - (n + 1))
      BY <3>1
    <3> QED BY <3>1, <3>2 DEF High
  <2>3. ASSUME NEW i \in low PROVE i \in h
    <3>1. i \in 0..(5 * (n + 1)) - 1 /\ 5 * (6 - (n + 1)) + i = i + 5 * (6 - (n + 1))
      OBVIOUS
    <3> QED BY <3>1 DEF High
  <2> HIDE DEF h, shifted, low
  <2> QED BY <2>1, <2>2, <2>3
<1>6. \A i : ~(i \in shifted /\ i \in low)
  OBVIOUS
<1> HIDE DEF b, sz, shifted, low, h
<1>7. SymDiff(SymDiff(sz, shifted), low) = SymDiff(sz, h)
  BY <1>5, <1>6 DEF SymDiff
<1>8. SymDiff(sz, Bits(0)) = sz
  BY BitsOfZero DEF SymDiff
<1> QED BY <1>2, <1>3, <1>7, <1>8 DEF sz, h

(* The two words side by side, while the last six values are absorbed.     *)
LEMMA SixSymbols ==
  ASSUME NEW chk \in SUBSET (0..29), NEW L \in Nat,
         NEW f \in [0..L + 6 -> SUBSET (0..29)], NEW g \in [0..L + 6 -> SUBSET (0..29)],
         f[L] = g[L],
         \A n \in 0..5 : /\ f[L + (n + 1)] = SymDiff(bech32_polymod_step[f[L + n]], Bits(0))
                         /\ g[L + (n + 1)] = SymDiff(bech32_polymod_step[g[L + n]],
                                                     Bits(Symbols(chk)[n + 1]))
  PROVE  g[L + 6] = SymDiff(f[L + 6], chk)
<1> DEFINE six == 6
           T == {i \in 0..six : g[L + i] = SymDiff(f[L + i], High(chk, i))}
<1>1. 0 \in T
  <2>1. High(chk, 0) = {}
    BY DEF High
  <2>2. L + 0 = L
    OBVIOUS
  <2>3. SymDiff(f[L], {}) = f[L]
    BY DEF SymDiff
  <2>4. g[L + 0] = SymDiff(f[L + 0], High(chk, 0))
    BY Zenon, <2>1, <2>2, <2>3
  <2> QED BY <2>4
<1>2. ASSUME NEW i \in 0..six - 1, i \in T PROVE i + 1 \in T
  <2> DEFINE z == f[L + i]
             w == g[L + i]
  <2>1. i \in 0..5 /\ L + i \in 0..L + 6 /\ i + 1 \in 0..six
    OBVIOUS
  <2>2. z \in SUBSET (0..29) /\ w \in SUBSET (0..29) /\ w = SymDiff(z, High(chk, i))
    BY Zenon, <2>1, <1>2
  <2>3. /\ f[L + (i + 1)] = SymDiff(bech32_polymod_step[z], Bits(0))
        /\ g[L + (i + 1)] = SymDiff(bech32_polymod_step[w], Bits(Symbols(chk)[i + 1]))
    BY Zenon, <2>1
  <2> HIDE DEF z, w, T, six
  <2>4. SymDiff(bech32_polymod_step[w], Bits(Symbols(chk)[i + 1]))
          = SymDiff(SymDiff(bech32_polymod_step[z], Bits(0)), High(chk, i + 1))
    BY ZenonT(60), <2>1, <2>2, OneSymbolMore
  <2>5. g[L + (i + 1)] = SymDiff(f[L + (i + 1)], High(chk, i + 1))
    BY <2>3, <2>4
  <2> QED BY <2>1, <2>5 DEF T
<1>3. \A i \in 0..six : i \in T
  <2>1. six \in Nat
    OBVIOUS
  <2> HIDE DEF T, six
  <2> QED BY Zenon, <1>1, <1>2, <2>1, IntervalInduction
<1>4. g[L + 6] = SymDiff(f[L + 6], High(chk, 6))
  BY <1>3
<1>5. High(chk, 6) = chk
  <2>1. High(chk, 6) = {i \in 0..(5 * 6) - 1 : i + 5 * (6 - 6) \in chk}
    BY DEF High
  <2>2. \A i \in 0..29 : i + 5 * (6 - 6) = i
    OBVIOUS
  <2>3. 0..(5 * 6) - 1 = 0..29
    OBVIOUS
  <2> QED BY ZenonT(60), <2>1, <2>2, <2>3
<1> QED BY <1>4, <1>5

(* Six zeros absorbed and a constant exclusive-ored make the characters    *)
(* that, absorbed in place of the zeros, leave the constant.               *)
LEMMA ChecksumCloses ==
  ASSUME NEW start \in SUBSET (0..29), NEW data \in Seq(0..31), NEW const \in SUBSET (0..29),
         NEW chk, chk = SymDiff(Absorb(start, data \o [i \in 1..6 |-> 0]), const)
  PROVE  Absorb(start, data \o Symbols(chk)) = const
<1> DEFINE zeros == [i \in 1..6 |-> 0]
           check == Symbols(chk)
           L == Len(data)
           u == data \o zeros
           v == data \o check
<1>1. zeros \in Seq(0..31) /\ Len(zeros) = 6
  <2> DEFINE n == 6
  <2>1. zeros \in [1..n -> 0..31] /\ n \in Nat
    OBVIOUS
  <2>2. zeros \in Seq(0..31) /\ Len(zeros) = n
    <3> HIDE DEF zeros, n
    <3> QED BY <2>1, FunctionIsSeq
  <2> QED BY <2>2
<1>2. check \in Seq(0..31) /\ Len(check) = 6
  BY SymbolsType
<1>3. L \in Nat /\ zeros[1] = 0 /\ \A i \in 1..6 : zeros[i] = 0
  OBVIOUS
<1> HIDE DEF zeros, check
<1>4. /\ u \in Seq(0..31) /\ Len(u) = L + 6 /\ \A i \in 1..L : u[i] = data[i]
      /\ \A i \in 1..6 : u[L + i] = zeros[i]
  <2> DEFINE S == 0..31
  <2>1. data \in Seq(S) /\ zeros \in Seq(S)
    BY <1>1
  <2> HIDE DEF S
  <2>2. /\ u \in Seq(S) /\ Len(u) = L + Len(zeros) /\ \A i \in 1..L : u[i] = data[i]
        /\ \A i \in 1..Len(zeros) : u[L + i] = zeros[i]
    BY <2>1, Concatenation
  <2> QED BY Zenon, <2>2, <1>1 DEF S
<1>5. /\ v \in Seq(0..31) /\ Len(v) = L + 6 /\ \A i \in 1..L : v[i] = data[i]
      /\ \A i \in 1..6 : v[L + i] = check[i]
  <2> DEFINE S == 0..31
  <2>1. data \in Seq(S) /\ check \in Seq(S)
    BY <1>2
  <2> HIDE DEF S
  <2>2. /\ v \in Seq(S) /\ Len(v) = L + Len(check) /\ \A i \in 1..L : v[i] = data[i]
        /\ \A i \in 1..Len(check) : v[L + i] = check[i]
    BY <2>1, Concatenation
  <2> QED BY Zenon, <2>2, <1>2 DEF S
<1> HIDE DEF u, v, L
<1>6. PICK f \in [0..L + 6 -> SUBSET (0..29)] :
        /\ f[0] = start /\ Absorb(start, u) = f[L + 6]
        /\ \A n \in 1..L + 6 : f[n] = SymDiff(bech32_polymod_step[f[n - 1]], Bits(u[n]))
  <2>1. \E f \in [0..Len(u) -> SUBSET (0..29)] : Absorbs(f, start, u)
    <3> DEFINE S == 0..31
    <3>1. u \in Seq(S)
      BY <1>4
    <3> HIDE DEF S
    <3> QED BY Zenon, <3>1, AbsorbFunction
  <2> QED BY Zenon, <2>1, <1>4 DEF Absorbs
<1>7. PICK g \in [0..L + 6 -> SUBSET (0..29)] :
        /\ g[0] = start /\ Absorb(start, v) = g[L + 6]
        /\ \A n \in 1..L + 6 : g[n] = SymDiff(bech32_polymod_step[g[n - 1]], Bits(v[n]))
  <2>1. \E g \in [0..Len(v) -> SUBSET (0..29)] : Absorbs(g, start, v)
    <3> DEFINE S == 0..31
    <3>1. v \in Seq(S)
      BY <1>5
    <3> HIDE DEF S
    <3> QED BY Zenon, <3>1, AbsorbFunction
  <2> QED BY Zenon, <2>1, <1>5 DEF Absorbs
<1>8. chk = SymDiff(f[L + 6], const)
  BY <1>6 DEF u, zeros
<1>9. f[L + 6] \in SUBSET (0..29)
  BY <1>3
<1>10. chk \in SUBSET (0..29)
  BY Zenon, <1>8, <1>9 DEF SymDiff
<1>11. \A i \in 0..L : f[i] = g[i]
  <2> DEFINE T == {i \in 0..L : f[i] = g[i]}
  <2>1. 0 \in T
    BY <1>3, <1>6, <1>7
  <2>2. ASSUME NEW i \in 0..L - 1, i \in T PROVE i + 1 \in T
    <3>1. i + 1 \in 1..L + 6 /\ i + 1 - 1 = i /\ i + 1 \in 1..L
      BY <1>3
    <3>2. f[i + 1] = SymDiff(bech32_polymod_step[f[i]], Bits(u[i + 1]))
      BY <3>1, <1>6
    <3>3. g[i + 1] = SymDiff(bech32_polymod_step[g[i]], Bits(v[i + 1]))
      BY <3>1, <1>7
    <3>4. f[i + 1] = g[i + 1]
      <4>1. u[i + 1] = v[i + 1]
        BY <3>1, <1>4, <1>5
      <4>2. f[i] = g[i]
        BY <2>2
      <4> QED BY <3>2, <3>3, <4>1, <4>2
    <3> QED BY <3>1, <3>4
  <2>3. \A i \in 0..L : i \in T
    <3> HIDE DEF T
    <3> QED BY Zenon, <2>1, <2>2, <1>3, IntervalInduction
  <2> QED BY <2>3
<1>12. ASSUME NEW n \in 0..5
       PROVE  /\ f[L + (n + 1)] = SymDiff(bech32_polymod_step[f[L + n]], Bits(0))
              /\ g[L + (n + 1)] = SymDiff(bech32_polymod_step[g[L + n]], Bits(check[n + 1]))
  <2> DEFINE m == L + (n + 1)
  <2>1. m \in 1..L + 6 /\ m - 1 = L + n /\ n + 1 \in 1..6
    BY <1>3
  <2>2. u[m] = 0 /\ v[m] = check[n + 1]
    BY Zenon, <2>1, <1>3, <1>4, <1>5
  <2> HIDE DEF m
  <2>3. f[m] = SymDiff(bech32_polymod_step[f[m - 1]], Bits(u[m]))
    BY Zenon, <2>1, <1>6
  <2>4. g[m] = SymDiff(bech32_polymod_step[g[m - 1]], Bits(v[m]))
    BY <2>1, <1>7
  <2> QED BY Zenon, <2>1, <2>2, <2>3, <2>4 DEF m
<1>13. g[L + 6] = SymDiff(f[L + 6], chk)
  <2>1. f[L] = g[L]
    BY <1>3, <1>11
  <2> QED BY Zenon, <2>1, <1>3, <1>10, <1>12, SixSymbols DEF check
<1>14. g[L + 6] = const
  BY <1>8, <1>13 DEF SymDiff
<1> QED BY <1>7, <1>14 DEF v, check

-----------------------------------------------------------------------------
(* The text that bech32_encode writes.                                     *)

IsJoined(r, S, s, n, t, m) ==
  /\ r \in Seq(S) /\ Len(r) = n + m
  /\ \A i \in 1..n : r[i] = s[i]
  /\ \A i \in 1..m : r[n + i] = t[i]

(* A concatenation is joined of its parts. *)
LEMMA Joined ==
  ASSUME NEW S, NEW s \in Seq(S), NEW t \in Seq(S), NEW n, n = Len(s), NEW m, m = Len(t),
         NEW r, r = s \o t
  PROVE  IsJoined(r, S, s, n, t, m)
BY Concatenation DEF IsJoined

(* The elements of a sequence of numbers up to k. *)
LEMMA ByteElements ==
  ASSUME NEW k \in Nat, NEW s \in Seq(0..k)
  PROVE  \A i \in 1..Len(s) : s[i] \in 0..k /\ s[i] \in Nat /\ ~(s[i] > k)
<1> TAKE i \in 1..Len(s)
<1> DEFINE S == 0..k
<1>1. s \in Seq(S)
  OBVIOUS
<1>2. s[i] \in S
  <2> HIDE DEF S
  <2> QED BY <1>1, ElementOfSeq
<1> DEFINE x == s[i]
<1>3. x \in 0..k
  BY <1>2
<1> HIDE DEF x
<1>4. x \in 0..k /\ x \in Nat /\ ~(x > k)
  BY <1>3
<1> QED BY <1>4 DEF x

(* The alphabet, character by character. *)
LEMMA CharsetValues ==
  charset[1] = 113 /\ charset[2] = 112 /\ charset[3] = 122 /\ charset[4] = 114 /\
  charset[5] = 121 /\ charset[6] = 57 /\ charset[7] = 120 /\ charset[8] = 56 /\
  charset[9] = 103 /\ charset[10] = 102 /\ charset[11] = 50 /\ charset[12] = 116 /\
  charset[13] = 118 /\ charset[14] = 100 /\ charset[15] = 119 /\ charset[16] = 48 /\
  charset[17] = 115 /\ charset[18] = 51 /\ charset[19] = 106 /\ charset[20] = 110 /\
  charset[21] = 53 /\ charset[22] = 52 /\ charset[23] = 107 /\ charset[24] = 104 /\
  charset[25] = 99 /\ charset[26] = 101 /\ charset[27] = 54 /\ charset[28] = 109 /\
  charset[29] = 117 /\ charset[30] = 97 /\ charset[31] = 55 /\ charset[32] = 108
BY DEF charset

(* The alphabet has 32 characters. *)
LEMMA CharsetIsSeq == charset \in Seq(Nat) /\ Len(charset) = 32
BY DEF charset

(* Characters of the alphabet are printable, not capitals and not the      *)
(* separator.                                                              *)
LEMMA CharsetType ==
  ASSUME NEW i \in 1..32
  PROVE  charset[i] \in (33..126) \ Upper /\ charset[i] # 49
<1>1. i \in {1, 2, 3, 4, 5, 6, 7, 8, 9, 10, 11, 12, 13, 14, 15, 16, 17, 18, 19, 20, 21, 22, 23, 24, 25, 26, 27, 28, 29, 30, 31, 32}
  OBVIOUS
<1> QED BY <1>1, CharsetValues DEF Upper

(* The characters of the alphabet differ. *)
LEMMA CharsetDistinct ==
  ASSUME NEW i \in 1..32, NEW j \in 1..32, charset[i] = charset[j]
  PROVE  i = j
<1>1. i \in {1, 2, 3, 4, 5, 6, 7, 8, 9, 10, 11, 12, 13, 14, 15, 16, 17, 18, 19, 20, 21, 22, 23, 24, 25, 26, 27, 28, 29, 30, 31, 32}
  OBVIOUS
<1>2. j \in {1, 2, 3, 4, 5, 6, 7, 8, 9, 10, 11, 12, 13, 14, 15, 16, 17, 18, 19, 20, 21, 22, 23, 24, 25, 26, 27, 28, 29, 30, 31, 32}
  OBVIOUS
<1> QED BY <1>1, <1>2, CharsetValues

(* The least element of a singleton. *)
LEMMA MinOfSingleton ==
  ASSUME NEW x \in Int
  PROVE  Min({x}) = x
BY DEF Min

(* charset_rev finds the value of a character of either case. *)
LEMMA CharsetRev ==
  ASSUME NEW v \in 0..31, NEW ch, ToLower(ch) = charset[v + 1]
  PROVE  charset_rev(ch) = v
<1> DEFINE I == {i \in 1..Len(charset) : charset[i] = ToLower(ch)}
<1>1. charset_rev(ch) = (IF I # {} THEN Min(I) ELSE 0) - 1
  BY DEF charset_rev, SelectInSeq
<1>2. v + 1 \in 1..32
  OBVIOUS
<1>3. I = {v + 1}
  BY Zenon, <1>2, CharsetIsSeq, CharsetDistinct
<1>4. Min({v + 1}) = v + 1
  BY <1>2, MinOfSingleton
<1> HIDE DEF I
<1> QED BY <1>1, <1>3, <1>4

(* What bech32_encode writes when it does not refuse. *)
CharactersOf(values) == [i \in 1..Len(values) |-> charset[values[i] + 1]]
ChecksumOf(hrp, data, enc) ==
  Symbols(SymDiff(Absorb(HrpChecksum(hrp), data \o [i \in 1..6 |-> 0]),
                  bech32_final_constant(enc)))
TextOf(hrp, data, enc) ==
  hrp \o <<ONE>> \o CharactersOf(data) \o CharactersOf(ChecksumOf(hrp, data, enc))
HrpCharacters == (33..126) \ Upper

(* bech32_encode writes TextOf when the lengths and the characters are     *)
(* right.                                                                  *)
LEMMA EncodeWritesText ==
  ASSUME NEW hrp \in Seq(HrpCharacters), NEW data \in Seq(0..31), NEW enc,
         Len(hrp) + 7 + Len(data) <= 90
  PROVE  bech32_encode(hrp, data, enc) = TextOf(hrp, data, enc)
<1>1. \A i \in 1..Len(hrp) : hrp[i] \in 33..126 /\ hrp[i] \notin Upper
  BY DEF HrpCharacters
<1>2. ~(Len(hrp) + 7 + Len(data) > 90)
  OBVIOUS
<1>3. \A i \in 1..Len(data) : ~(data[i] > 31)
  BY Zenon, ByteElements, 31 \in Nat
<1> QED BY Zenon, <1>1, <1>2, <1>3 DEF bech32_encode, TextOf, CharactersOf, ChecksumOf, Symbols

(* bech32_encode refuses a value above 31, such as a version that is a     *)
(* byte and not five bits.                                                 *)
LEMMA EncodeRefuses ==
  ASSUME NEW hrp, NEW data, NEW enc, \E i \in 1..Len(data) : data[i] > 31
  PROVE  bech32_encode(hrp, data, enc) = <<>>
BY DEF bech32_encode

(* The checksum of a human readable part is a word of 30 bits. *)
LEMMA HrpChecksumType ==
  ASSUME NEW hrp \in Seq(HrpCharacters)
  PROVE  HrpChecksum(hrp) \in SUBSET (0..29)
<1> DEFINE high == [i \in 1..Len(hrp) |-> hrp[i] \div 32]
           low == [i \in 1..Len(hrp) |-> hrp[i] % 32]
           values == high \o <<0>> \o low
           start == Bits(1)
<1>1. \A i \in 1..Len(hrp) : hrp[i] \in Int
  <2>1. \A i \in 1..Len(hrp) : hrp[i] \in HrpCharacters
    BY ElementOfSeq
  <2>2. \A x \in HrpCharacters : x \in Int
    BY DEF HrpCharacters
  <2> QED BY <2>1, <2>2
<1>2. \A i \in 1..Len(hrp) : hrp[i] \div 32 \in Int /\ hrp[i] % 32 \in Int
  BY <1>1
<1>3. high \in Seq(Int) /\ low \in Seq(Int) /\ <<0>> \in Seq(Int)
  BY <1>2
<1>4. values \in Seq(Int)
  <2> HIDE DEF high, low
  <2> QED BY <1>3
<1>5. HrpChecksum(hrp) = Absorb(start, values)
  BY DEF HrpChecksum
<1>6. start \in SUBSET (0..29)
  BY BitsType
<1> HIDE DEF values, start
<1>7. PICK f \in [0..Len(values) -> SUBSET (0..29)] : Absorbs(f, start, values)
  BY Zenon, <1>4, <1>6, AbsorbFunction
<1>8. Absorb(start, values) = f[Len(values)]
  BY <1>7 DEF Absorbs
<1>9. Len(values) \in 0..Len(values)
  BY <1>4
<1> QED BY Zenon, <1>5, <1>8, <1>9

(* A checksum is six numbers below 32. *)
LEMMA ChecksumType ==
  ASSUME NEW hrp, NEW data, NEW enc
  PROVE  ChecksumOf(hrp, data, enc) \in Seq(0..31) /\ Len(ChecksumOf(hrp, data, enc)) = 6
BY SymbolsType DEF ChecksumOf

(* The text, character by character. *)
LEMMA TextShape ==
  ASSUME NEW hrp \in Seq(HrpCharacters), NEW data \in Seq(0..31), NEW enc
  PROVE  LET text == TextOf(hrp, data, enc)
             all == data \o ChecksumOf(hrp, data, enc)
             h == Len(hrp)
         IN  /\ text \in Seq(HrpCharacters) /\ Len(text) = h + 7 + Len(data)
             /\ all \in Seq(0..31) /\ Len(all) = Len(data) + 6
             /\ \A i \in 1..h : text[i] = hrp[i]
             /\ text[h + 1] = ONE
             /\ \A i \in 1..Len(all) : text[(h + 1) + i] = charset[all[i] + 1]
<1> DEFINE check == ChecksumOf(hrp, data, enc)
           a == CharactersOf(data)
           b == CharactersOf(check)
           one == <<ONE>>
           h == Len(hrp)
           d == Len(data)
           text == TextOf(hrp, data, enc)
           all == data \o check
           S == HrpCharacters
           V == 0..31
<1>1. check \in Seq(V) /\ Len(check) = 6
  BY ChecksumType
<1>2. h \in Nat /\ d \in Nat /\ data \in Seq(V)
  OBVIOUS
<1>3. \A v \in 0..31 : charset[v + 1] \in S
  <2>1. \A v \in 0..31 : v + 1 \in 1..32
    OBVIOUS
  <2> QED BY Zenon, <2>1, CharsetType DEF HrpCharacters
<1>4. ASSUME NEW values \in Seq(0..31)
      PROVE  /\ CharactersOf(values) \in Seq(S) /\ Len(CharactersOf(values)) = Len(values)
             /\ \A i \in 1..Len(values) : CharactersOf(values)[i] = charset[values[i] + 1]
  <2> DEFINE n == Len(values)
             e == CharactersOf(values)
  <2>1. n \in Nat /\ \A i \in 1..n : values[i] \in 0..31
    <3>1. n \in Nat
      OBVIOUS
    <3>2. \A i \in 1..Len(values) : values[i] \in 0..31
      BY Zenon, ByteElements, 31 \in Nat
    <3> QED BY <3>1, <3>2
  <2>2. e = [i \in 1..n |-> charset[values[i] + 1]]
    BY DEF CharactersOf
  <2> HIDE DEF n, e, S
  <2>3. e \in [1..n -> S]
    BY Zenon, <1>3, <2>1, <2>2
  <2>4. e \in Seq(S) /\ Len(e) = n
    BY <2>1, <2>3, FunctionIsSeq
  <2> QED BY <2>2, <2>4 DEF e, n
<1>5. one \in Seq(S) /\ Len(one) = 1 /\ one[1] = ONE
  BY DEF HrpCharacters, ONE, Upper
<1>6. /\ a \in Seq(S) /\ Len(a) = d /\ b \in Seq(S) /\ Len(b) = 6
      /\ \A i \in 1..d : a[i] = charset[data[i] + 1]
      /\ \A i \in 1..6 : b[i] = charset[check[i] + 1]
  <2> HIDE DEF S, check
  <2> QED BY Zenon, <1>1, <1>4 DEF V
<1>7. text = ((hrp \o one) \o a) \o b
  BY DEF TextOf
<1> HIDE DEF check, a, b, one, text, S, V
<1> DEFINE t1 == hrp \o one
           t2 == t1 \o a
<1>8. hrp \in Seq(S)
  BY DEF S
<1>9. /\ t1 \in Seq(S) /\ Len(t1) = h + 1
      /\ \A i \in 1..h : t1[i] = hrp[i]
      /\ \A i \in 1..1 : t1[h + i] = one[i]
  <2>1. h = Len(hrp) /\ 1 = Len(one) /\ t1 = hrp \o one
    BY <1>5
  <2> HIDE DEF t1, h
  <2>2. IsJoined(t1, S, hrp, h, one, 1)
    BY Zenon, <2>1, <1>5, <1>8, Joined
  <2> QED BY <2>2 DEF IsJoined
<1>10. t1[h + 1] = ONE
  <2>1. 1 \in 1..1
    OBVIOUS
  <2> HIDE DEF t1, h
  <2> QED BY <2>1, <1>5, <1>9
<1> HIDE DEF t1
<1>11. /\ t2 \in Seq(S) /\ Len(t2) = (h + 1) + d
       /\ \A i \in 1..h + 1 : t2[i] = t1[i]
       /\ \A i \in 1..d : t2[(h + 1) + i] = a[i]
  <2>1. h + 1 = Len(t1) /\ d = Len(a) /\ t2 = t1 \o a
    BY <1>6, <1>9
  <2> HIDE DEF t2, h, d
  <2>2. IsJoined(t2, S, t1, h + 1, a, d)
    BY Zenon, <2>1, <1>6, <1>9, Joined
  <2> QED BY <2>2 DEF IsJoined
<1> HIDE DEF t2
<1>12. /\ text \in Seq(S) /\ Len(text) = ((h + 1) + d) + 6
       /\ \A i \in 1..(h + 1) + d : text[i] = t2[i]
       /\ \A i \in 1..6 : text[((h + 1) + d) + i] = b[i]
  <2> HIDE DEF h, d
  <2>1. (h + 1) + d = Len(t2) /\ 6 = Len(b) /\ text = t2 \o b
    <3>1. (h + 1) + d = Len(t2) /\ 6 = Len(b)
      BY <1>6, <1>11
    <3>2. text = t2 \o b
      BY <1>7 DEF t1, t2
    <3> QED BY <3>1, <3>2
  <2>2. IsJoined(text, S, t2, (h + 1) + d, b, 6)
    BY Zenon, <2>1, <1>6, <1>11, Joined
  <2> QED BY <2>2 DEF IsJoined
<1>13. /\ all \in Seq(V) /\ Len(all) = d + 6
       /\ \A i \in 1..d : all[i] = data[i]
       /\ \A i \in 1..6 : all[d + i] = check[i]
  <2>1. d = Len(data) /\ 6 = Len(check) /\ all = data \o check
    BY <1>1
  <2> HIDE DEF all, h, d
  <2>2. IsJoined(all, V, data, d, check, 6)
    BY Zenon, <2>1, <1>1, <1>2, Joined
  <2> QED BY <2>2 DEF IsJoined
<1> HIDE DEF all, h, d
<1>14. ASSUME NEW i \in 1..h PROVE text[i] = hrp[i]
  <2>1. i \in 1..h + 1 /\ i \in 1..(h + 1) + d
    BY <1>2
  <2> QED BY Zenon, <2>1, <1>9, <1>11, <1>12
<1>15. text[h + 1] = ONE
  <2>1. h + 1 \in 1..h + 1 /\ h + 1 \in 1..(h + 1) + d
    BY <1>2
  <2> QED BY Zenon, <2>1, <1>10, <1>11, <1>12
<1>16. ASSUME NEW i \in 1..d + 6 PROVE text[(h + 1) + i] = charset[all[i] + 1]
  <2>1. CASE i \in 1..d
    <3> DEFINE m == (h + 1) + i
    <3>1. m \in 1..(h + 1) + d
      BY <1>2, <2>1
    <3>2. t2[m] = a[i] /\ a[i] = charset[data[i] + 1] /\ all[i] = data[i]
      BY Zenon, <2>1, <1>6, <1>11, <1>13
    <3>3. text[m] = t2[m]
      <4> HIDE DEF m
      <4> QED BY <3>1, <1>12
    <3> QED BY <3>2, <3>3
  <2>2. CASE i \notin 1..d
    <3> DEFINE j == i - d
    <3>1. j \in 1..6 /\ i = d + j /\ (h + 1) + i = ((h + 1) + d) + j
      BY <1>2, <2>2
    <3> HIDE DEF j
    <3>2. text[((h + 1) + d) + j] = b[j] /\ all[d + j] = check[j] /\ b[j] = charset[check[j] + 1]
      BY Zenon, <3>1, <1>6, <1>12, <1>13
    <3> QED BY <3>1, <3>2
  <2> QED BY <2>1, <2>2
<1>17. ((h + 1) + d) + 6 = h + 7 + d
  BY <1>2
<1> QED BY Zenon, <1>12, <1>13, <1>14, <1>15, <1>16, <1>17 DEF all, h, d, text, check, S, V

-----------------------------------------------------------------------------
(* bech32_decode reads that text, in either case.                          *)

(* A character whose lower case may stand in a text is printable, and a    *)
(* separator only if the text has one there.                               *)
LEMMA LowerCase ==
  ASSUME NEW ch, NEW x \in HrpCharacters, ToLower(ch) = x
  PROVE  ch \in 33..126 /\ (ch = 49 <=> x = 49)
BY DEF ToLower, Upper, HrpCharacters

(* The element of a set that no other exceeds is its maximum. *)
LEMMA MaxOfSet ==
  ASSUME NEW I \in SUBSET Int, NEW m \in I, \A i \in I : i <= m
  PROVE  Max(I) = m
<1>1. m \in I /\ \A i \in I : m >= i
  OBVIOUS
<1>2. Max(I) \in I /\ \A i \in I : Max(I) >= i
  BY Zenon, <1>1 DEF Max
<1>3. Max(I) >= m /\ m >= Max(I) /\ Max(I) \in Int /\ m \in Int
  BY Zenon, <1>1, <1>2
<1> QED BY <1>3

(* The constants of Bech32 and Bech32m are words, and they differ. *)
LEMMA FinalConstants ==
  /\ bech32_final_constant("BECH32") \in SUBSET (0..29)
  /\ bech32_final_constant("BECH32M") \in SUBSET (0..29)
  /\ bech32_final_constant("BECH32") # bech32_final_constant("BECH32M")
<1>1. 1 \in Bits(734539939)
  <2>1. 2 ^ 1 = 2 /\ 1 \in 0..29
    OBVIOUS
  <2>2. (734539939 \div 2) % 2 = 1
    OBVIOUS
  <2> QED BY <2>1, <2>2 DEF Bits
<1>2. 1 \notin Bits(1)
  <2>1. 2 ^ 1 = 2
    OBVIOUS
  <2>2. (1 \div 2) % 2 = 0
    OBVIOUS
  <2> QED BY <2>1, <2>2 DEF Bits
<1> QED BY <1>1, <1>2, BitsType DEF bech32_final_constant

(* A sequence that was joined is split at the right place. *)
LEMMA SplitJoined ==
  ASSUME NEW S, NEW s \in Seq(S), NEW t \in Seq(S)
  PROVE  /\ SubSeq(s \o t, 1, Len(s)) = s
         /\ SubSeq(s \o t, Len(s) + 1, Len(s) + Len(t)) = t
<1> DEFINE r == s \o t
           n == Len(s)
           m == Len(t)
<1>1. /\ r \in Seq(S) /\ Len(r) = n + m
      /\ \A i \in 1..n : r[i] = s[i]
      /\ \A i \in 1..m : r[n + i] = t[i]
  BY Concatenation
<1>2. n \in Nat /\ m \in Nat /\ s = [i \in 1..n |-> s[i]] /\ t = [i \in 1..m |-> t[i]]
  OBVIOUS
<1> HIDE DEF r
<1>3. SubSeq(r, 1, n) = s
  <2>1. SubSeq(r, 1, n) = [i \in 1..n |-> r[i]]
    <3> HIDE DEF n, m
    <3> QED BY <1>1, <1>2
  <2> QED BY <2>1, <1>1, <1>2
<1>4. SubSeq(r, n + 1, n + m) = t
  <2> HIDE DEF n, m
  <2>1. SubSeq(r, n + 1, n + m) = [i \in 1..(n + m) - (n + 1) + 1 |-> r[i + (n + 1) - 1]]
    BY <1>1, <1>2
  <2>2. (n + m) - (n + 1) + 1 = m /\ \A i \in 1..m : i + (n + 1) - 1 = n + i
    BY <1>2
  <2>3. [i \in 1..m |-> r[i + (n + 1) - 1]] = [i \in 1..m |-> r[n + i]]
    BY <2>2
  <2>4. [i \in 1..m |-> r[n + i]] = [i \in 1..m |-> t[i]]
    BY <1>1
  <2> QED BY Zenon, <2>1, <2>2, <2>3, <2>4, <1>2
<1> QED BY <1>3, <1>4 DEF r

(* A copy that is the text, in one case, is decoded to what was encoded. *)
LEMMA DecodeReadsText ==
  ASSUME NEW hrp \in Seq(HrpCharacters), NEW data \in Seq(0..31), NEW enc \in {"BECH32", "BECH32M"},
         Len(hrp) >= 1, Len(hrp) + 7 + Len(data) <= 90,
         NEW input \in Seq(Nat), SameText(input, TextOf(hrp, data, enc))
  PROVE  bech32_decode(input) = [enc |-> enc, hrp |-> hrp, data |-> data]
<1> DEFINE text == TextOf(hrp, data, enc)
           cs == ChecksumOf(hrp, data, enc)
           all == data \o cs
           h == Len(hrp)
           d == Len(data)
           n == Len(input)
           I == {i \in 1..Len(input) : input[i] = ONE}
           separator == IF I # {} THEN Max(I) ELSE 0
           hrp1 == [i \in 1..separator - 1 |-> ToLower(input[i])]
           values == [i \in 1..Len(input) - separator |-> charset_rev(input[separator + i])]
           data1 == SubSeq(values, 1, Len(values) - 6)
           check == SubSeq(values, Len(values) - 5, Len(values))
           chk == Absorb(HrpChecksum(hrp1), data1 \o check)
<1>1. h \in Nat /\ d \in Nat /\ n \in Nat /\ h >= 1 /\ h + 7 + d <= 90
  OBVIOUS
<1>2. /\ text \in Seq(HrpCharacters) /\ Len(text) = h + 7 + d
      /\ all \in Seq(0..31) /\ Len(all) = d + 6
      /\ \A i \in 1..h : text[i] = hrp[i]
      /\ text[h + 1] = ONE
      /\ \A i \in 1..Len(all) : text[(h + 1) + i] = charset[all[i] + 1]
  BY TextShape
<1>3. cs \in Seq(0..31) /\ Len(cs) = 6
  BY ChecksumType
<1>4. InOneCase(input) /\ [i \in 1..n |-> ToLower(input[i])] = text
  BY DEF SameText
<1>5. Absorb(HrpChecksum(hrp), all) = bech32_final_constant(enc)
  <2> DEFINE start == HrpChecksum(hrp)
             const == bech32_final_constant(enc)
             word == SymDiff(Absorb(start, data \o [i \in 1..6 |-> 0]), const)
  <2>1. start \in SUBSET (0..29)
    BY Zenon, HrpChecksumType
  <2>2. const \in SUBSET (0..29)
    BY Zenon, FinalConstants
  <2>3. cs = Symbols(word)
    BY DEF ChecksumOf
  <2> HIDE DEF start, const
  <2>4. word = SymDiff(Absorb(start, data \o [i \in 1..6 |-> 0]), const)
    OBVIOUS
  <2> HIDE DEF word
  <2>5. Absorb(start, data \o Symbols(word)) = const
    BY <2>1, <2>2, <2>4, ChecksumCloses
  <2> QED BY <2>3, <2>5 DEF start, const
<1> HIDE DEF text, cs, h, d, n
<1>6. n = h + 7 + d /\ \A i \in 1..n : ToLower(input[i]) = text[i]
  <2>1. Len([i \in 1..n |-> ToLower(input[i])]) = n
    BY <1>1
  <2> QED BY Zenon, <2>1, <1>2, <1>4
<1>7. \A i \in 1..n : text[i] \in HrpCharacters /\ input[i] \in 33..126 /\ (input[i] = 49 <=> text[i] = 49)
  <2> TAKE i \in 1..n
  <2>1. text[i] \in HrpCharacters
    BY Zenon, <1>2, <1>6, ElementOfSeq
  <2>2. ToLower(input[i]) = text[i]
    BY <1>6
  <2> QED BY <2>1, <2>2, LowerCase
<1>8. separator = h + 1
  <2>1. h + 1 \in 1..n /\ input[h + 1] = ONE
    BY <1>1, <1>2, <1>6, <1>7 DEF ONE
  <2>2. ASSUME NEW i \in 1..n, input[i] = ONE PROVE i <= h + 1
    <3>1. text[i] = 49
      BY <2>2, <1>7 DEF ONE
    <3>2. CASE i > h + 1
      <4> DEFINE j == i - (h + 1)
      <4>1. j \in 1..Len(all) /\ i = (h + 1) + j
        BY SMTT(30), <1>1, <1>2, <1>6, <3>2
      <4> HIDE DEF j
      <4>2. text[(h + 1) + j] = charset[all[j] + 1]
        BY Zenon, <1>2, <4>1
      <4>3. all[j] \in 0..31
        <5> HIDE DEF all
        <5> QED BY Zenon, <1>2, <4>1, ByteElements, 31 \in Nat
      <4>4. charset[all[j] + 1] # 49
        <5> DEFINE v == all[j]
                   k == v + 1
        <5>1. k \in 1..32
          <6>1. v \in 0..31
            BY Zenon, <4>3
          <6> HIDE DEF v
          <6> QED BY <6>1
        <5>2. charset[k] # 49
          <6> HIDE DEF k
          <6> QED BY Zenon, <5>1, CharsetType
        <5> QED BY Zenon, <5>2
      <4> QED BY Zenon, <3>1, <4>1, <4>2, <4>4
    <3> QED BY <1>1, <3>2
  <2>3. h + 1 \in I /\ I \in SUBSET Int /\ \A i \in I : i <= h + 1
    BY <2>1, <2>2 DEF n
  <2>4. Max(I) = h + 1
    <3> HIDE DEF I
    <3> QED BY Zenon, <2>3, MaxOfSet
  <2> QED BY Zenon, <2>3, <2>4
<1>9. bech32_decode(input) =
        LET decoded(e) == [enc |-> e, hrp |-> hrp1, data |-> data1]
        IN  IF \/ n < 8 \/ n > 90
               \/ separator <= 1 \/ Len(values) < 6
               \/ \E i \in 1..separator - 1 : input[i] \notin 33..126
               \/ \E i \in 1..Len(values) : values[i] = -1
               \/ ToSet(input) \intersect Lower # {} /\ ToSet(input) \intersect Upper # {}
            THEN NotDecoded
            ELSE IF chk = bech32_final_constant("BECH32") THEN decoded("BECH32")
            ELSE IF chk = bech32_final_constant("BECH32M") THEN decoded("BECH32M")
            ELSE NotDecoded
  BY DEF bech32_decode, SelectLastInSeq, n
<1> HIDE DEF separator, all
<1>10. hrp1 = hrp
  <2>1. separator - 1 = h
    BY <1>1, <1>8
  <2>2. \A i \in 1..h : i \in 1..n
    BY <1>1, <1>6
  <2>3. \A i \in 1..h : ToLower(input[i]) = hrp[i]
    BY <2>2, <1>2, <1>6
  <2>4. hrp = [i \in 1..h |-> hrp[i]]
    BY DEF h
  <2> QED BY <2>1, <2>3, <2>4
<1>11. values = all
  <2>1. Len(input) - separator = d + 6
    BY <1>1, <1>6, <1>8 DEF n
  <2>2. ASSUME NEW i \in 1..d + 6 PROVE charset_rev(input[separator + i]) = all[i]
    <3> DEFINE m == (h + 1) + i
               v == all[i]
               ch == input[m]
    <3>1. m \in 1..n /\ separator + i = m /\ i \in 1..Len(all)
      BY SMTT(30), <1>1, <1>2, <1>6, <1>8
    <3>2. v \in 0..31
      BY Zenon, <1>2, <3>1, ByteElements, 31 \in Nat
    <3>3. text[m] = charset[v + 1]
      BY Zenon, <1>2, <3>1
    <3>4. ToLower(ch) = charset[v + 1]
      <4> HIDE DEF m
      <4> QED BY <1>6, <3>1, <3>3
    <3> HIDE DEF m, v, ch
    <3>5. charset_rev(ch) = v
      BY Zenon, <3>2, <3>4, CharsetRev
    <3> QED BY <3>1, <3>5 DEF v, ch
  <2>3. all = [i \in 1..d + 6 |-> all[i]]
    BY <1>2
  <2> QED BY <2>1, <2>2, <2>3
<1> HIDE DEF values, hrp1
<1>12. Len(values) = d + 6 /\ Len(values) - 6 = d /\ Len(values) - 5 = d + 1
  BY SMTT(30), <1>1, <1>2, <1>11
<1>13. data1 = data /\ check = cs
  <2>1. SubSeq(all, 1, Len(data)) = data /\ SubSeq(all, Len(data) + 1, Len(data) + Len(cs)) = cs
    <3> DEFINE S == 0..31
    <3>1. data \in Seq(S) /\ cs \in Seq(S)
      BY <1>3
    <3> HIDE DEF S
    <3> QED BY <3>1, SplitJoined DEF all
  <2> QED BY Zenon, <2>1, <1>3, <1>11, <1>12 DEF d
<1> HIDE DEF data1, check
<1>14. chk = bech32_final_constant(enc)
  BY <1>5, <1>10, <1>13 DEF all
<1> HIDE DEF chk
<1>15. ~(n < 8 \/ n > 90 \/ separator <= 1 \/ Len(values) < 6)
  BY <1>1, <1>6, <1>8, <1>12
<1>16. ~(\E i \in 1..separator - 1 : input[i] \notin 33..126)
  <2>1. \A i \in 1..separator - 1 : i \in 1..n
    BY <1>1, <1>6, <1>8
  <2> QED BY Zenon, <2>1, <1>7
<1>17. ~(\E i \in 1..Len(values) : values[i] = -1)
  <2>1. \A i \in 1..Len(all) : all[i] \in 0..31
    BY Zenon, <1>2, ByteElements, 31 \in Nat
  <2>2. \A x \in 0..31 : x # -1
    OBVIOUS
  <2> QED BY Zenon, <2>1, <2>2, <1>11
<1>18. ~(ToSet(input) \intersect Lower # {} /\ ToSet(input) \intersect Upper # {})
  BY <1>4 DEF InOneCase
<1>19. bech32_decode(input) =
         IF chk = bech32_final_constant("BECH32") THEN [enc |-> "BECH32", hrp |-> hrp1, data |-> data1]
         ELSE IF chk = bech32_final_constant("BECH32M") THEN [enc |-> "BECH32M", hrp |-> hrp1, data |-> data1]
         ELSE NotDecoded
  BY Zenon, <1>9, <1>15, <1>16, <1>17, <1>18, Zenon
<1>20. CASE enc = "BECH32"
  BY <1>10, <1>13, <1>14, <1>19, <1>20
<1>21. CASE enc = "BECH32M"
  BY <1>10, <1>13, <1>14, <1>19, <1>21, FinalConstants
<1> QED BY <1>20, <1>21

-----------------------------------------------------------------------------
(* The texts of the app: the copies of a fixed length cut nothing.         *)

(* A copy of a fixed length that is long enough is the whole text. *)
LEMMA CopiedIsText ==
  ASSUME NEW text \in Seq(HrpCharacters), NEW length \in {Len(text), Len(text) + 1}
  PROVE  Copied(text, length) = text
<1> DEFINE n == Len(text)
           chars == SubSeq(text \o <<0>>, 1, length) \o <<0>>
           I == {i \in 1..Len(chars) : chars[i] = 0}
<1>1. text \in Seq(Int) /\ \A i \in 1..n : text[i] # 0
  <2>1. \A x \in HrpCharacters : x \in Int /\ x # 0
    BY DEF HrpCharacters
  <2>2. \A i \in 1..n : text[i] \in HrpCharacters
    BY ElementOfSeq
  <2> HIDE DEF n
  <2>3. text = [i \in 1..n |-> text[i]] /\ n \in Nat
    BY DEF n
  <2>4. text \in [1..n -> Int]
    BY <2>1, <2>2, <2>3
  <2> QED BY <2>1, <2>2, <2>3, <2>4, FunctionIsSeq
<1>2. <<0>> \in Seq(Int) /\ Len(<<0>>) = 1 /\ n \in Nat
  OBVIOUS
<1> DEFINE t == text \o <<0>>
<1>3. t \in Seq(Int) /\ Len(t) = n + 1 /\ (\A i \in 1..n : t[i] = text[i]) /\ t[n + 1] = 0
  <2> DEFINE z == <<0>>
             one == 1
  <2>1. z \in Seq(Int) /\ one = Len(z) /\ n = Len(text) /\ t = text \o z /\ z[1] = 0
    OBVIOUS
  <2> HIDE DEF z, one, t, n
  <2>2. IsJoined(t, Int, text, n, z, one)
    BY Zenon, <1>1, <2>1, Joined
  <2>3. 1 \in 1..one
    BY DEF one
  <2> QED BY <2>1, <2>2, <2>3, <1>2 DEF IsJoined, one
<1> HIDE DEF t, n
<1>4. chars \in Seq(Int) /\ Len(chars) \in Nat /\ n + 1 \in 1..Len(chars) /\ chars[n + 1] = 0
      /\ \A i \in 1..n : chars[i] = text[i]
  <2>1. CASE length = n
    <3>1. SubSeq(t, 1, length) = text
      <4>1. SubSeq(t, 1, n) = [i \in 1..n |-> t[i]]
        BY <1>2, <1>3
      <4>2. [i \in 1..n |-> t[i]] = [i \in 1..n |-> text[i]]
        BY <1>3
      <4>3. [i \in 1..n |-> text[i]] = text
        BY <1>1 DEF n
      <4> QED BY <4>1, <4>2, <4>3, <2>1
    <3>2. chars = t
      BY <3>1 DEF t
    <3> HIDE DEF chars
    <3> QED BY <3>2, <1>2, <1>3
  <2>2. CASE length = n + 1
    <3>1. SubSeq(t, 1, length) = t
      BY <2>2, <1>3, SubSeqFull
    <3>2. chars = t \o <<0>>
      BY Zenon, <3>1 DEF t
    <3> DEFINE z == <<0>>
               one == 1
    <3>3. z \in Seq(Int) /\ one = Len(z) /\ n + 1 = Len(t)
      BY <1>3
    <3> HIDE DEF z, one, chars
    <3>4. IsJoined(chars, Int, t, n + 1, z, one)
      BY Zenon, <1>3, <3>2, <3>3, Joined DEF z
    <3>5. /\ chars \in Seq(Int) /\ Len(chars) = n + 1 + 1
          /\ \A i \in 1..n + 1 : chars[i] = t[i]
      BY <3>4 DEF IsJoined, one
    <3> QED BY <3>5, <1>2, <1>3
  <2> QED BY <2>1, <2>2 DEF n
<1>5. Copied(text, length) = SubSeq(chars, 1, (IF I # {} THEN Min(I) ELSE 0) - 1)
  BY DEF Copied, SelectInSeq
<1> HIDE DEF chars
<1>6. n + 1 \in I /\ I \in SUBSET Int /\ \A i \in I : n + 1 <= i
  BY <1>1, <1>2, <1>4
<1> HIDE DEF I
<1>7. Min(I) = n + 1
  <2>1. Min(I) \in I /\ \A i \in I : Min(I) <= i
    BY Zenon, <1>6 DEF Min
  <2>2. Min(I) <= n + 1 /\ n + 1 <= Min(I) /\ Min(I) \in Int /\ n + 1 \in Int
    BY Zenon, <1>6, <2>1
  <2> QED BY <2>2
<1>8. Copied(text, length) = SubSeq(chars, 1, n)
  BY <1>2, <1>5, <1>6, <1>7
<1>9. SubSeq(chars, 1, n) = [i \in 1..n |-> chars[i]]
  BY <1>2, <1>4
<1>10. [i \in 1..n |-> chars[i]] = [i \in 1..n |-> text[i]]
  BY <1>4
<1>11. [i \in 1..n |-> text[i]] = text
  BY DEF n
<1> QED BY <1>8, <1>9, <1>10, <1>11

(* The two prefixes are printable lower case characters. *)
LEMMA HrpsAreProper ==
  /\ HRP_ADDRESS \in Seq(HrpCharacters) /\ Len(HRP_ADDRESS) = 1
  /\ HRP_TOKEN \in Seq(HrpCharacters) /\ Len(HRP_TOKEN) = 3
BY DEF HRP_ADDRESS, HRP_TOKEN, HrpCharacters, Upper

Groups(bytes) == convert_bits(5, bytes, 8, TRUE)

(* Bytes become groups of five bits, as many as hold them. *)
LEMMA GroupsType ==
  ASSUME NEW in \in Seq(0..255)
  PROVE  Groups(in) \in Seq(0..31) /\ Len(Groups(in)) = (8 * Len(in) + 4) \div 5
BY Zenon, GroupsOf5 DEF Groups

(* bech32_addr_encode writes the text of the groups for 2 to 40 bytes. *)
LEMMA AddressTexts ==
  ASSUME NEW bytes \in Seq(0..255)
  PROVE  /\ Len(bytes) = 20 =>
              /\ address_encode(bytes, 41) = TextOf(HRP_ADDRESS, Groups(bytes), "BECH32")
              /\ Len(Groups(bytes)) = 32
         /\ Len(bytes) = 10 =>
              /\ token_standard_encode(bytes, 28) = TextOf(HRP_TOKEN, Groups(bytes), "BECH32")
              /\ Len(Groups(bytes)) = 16
<1> DEFINE data == Groups(bytes)
           enc == "BECH32"
<1>1. data \in Seq(0..31) /\ Len(data) = (8 * Len(bytes) + 4) \div 5
  BY GroupsType
<1>2. ASSUME NEW hrp \in Seq(HrpCharacters), Len(hrp) + 7 + Len(data) <= 90, Len(bytes) \in {10, 20}
      PROVE  bech32_addr_encode(hrp, bytes) = TextOf(hrp, data, enc)
  <2> DEFINE m == Len(bytes)
  <2>1. ~(m < 2 \/ m > 40)
    <3>1. m \in {10, 20}
      BY <1>2
    <3> HIDE DEF m
    <3> QED BY <3>1
  <2>2. bech32_addr_encode(hrp, bytes) = bech32_encode(hrp, data, "BECH32")
    BY <2>1 DEF bech32_addr_encode, Groups
  <2> HIDE DEF data
  <2> QED BY <1>1, <1>2, <2>2, EncodeWritesText
<1>3. ASSUME NEW hrp \in Seq(HrpCharacters)
      PROVE  /\ TextOf(hrp, data, enc) \in Seq(HrpCharacters)
             /\ Len(TextOf(hrp, data, enc)) = Len(hrp) + 7 + Len(data)
  <2> HIDE DEF data
  <2> QED BY <1>1, TextShape
<1>4. CASE Len(bytes) = 20
  <2>1. Len(data) = 32
    <3> HIDE DEF data
    <3> QED BY <1>1, <1>4
  <2> DEFINE text == TextOf(HRP_ADDRESS, data, enc)
             len == 40
  <2>2. bech32_addr_encode(HRP_ADDRESS, bytes) = text
    <3> HIDE DEF data
    <3>1. Len(HRP_ADDRESS) + 7 + Len(data) <= 90
      BY <2>1, HrpsAreProper
    <3> QED BY Zenon, <3>1, <1>2, <1>4, HrpsAreProper
  <2>3. text \in Seq(HrpCharacters) /\ Len(text) = len
    <3> HIDE DEF data
    <3>1. text \in Seq(HrpCharacters) /\ Len(text) = Len(HRP_ADDRESS) + 7 + Len(data)
      BY Zenon, <1>3, HrpsAreProper
    <3> HIDE DEF text
    <3> QED BY <3>1, <2>1, HrpsAreProper
  <2>4. address_encode(bytes, 41) = Copied(text, len)
    <3> HIDE DEF data
    <3> QED BY <2>2 DEF address_encode
  <2>5. Copied(text, len) = text
    <3> HIDE DEF text, len
    <3> QED BY <2>3, CopiedIsText
  <2> QED BY <1>4, <2>1, <2>4, <2>5
<1>5. CASE Len(bytes) = 10
  <2>1. Len(data) = 16
    <3> HIDE DEF data
    <3> QED BY <1>1, <1>5
  <2> DEFINE text == TextOf(HRP_TOKEN, data, enc)
             len == 27
  <2>2. bech32_addr_encode(HRP_TOKEN, bytes) = text
    <3> HIDE DEF data
    <3>1. Len(HRP_TOKEN) + 7 + Len(data) <= 90
      BY <2>1, HrpsAreProper
    <3> QED BY Zenon, <3>1, <1>2, <1>5, HrpsAreProper
  <2>3. text \in Seq(HrpCharacters) /\ len = Len(text) + 1
    <3> HIDE DEF data
    <3>1. text \in Seq(HrpCharacters) /\ Len(text) = Len(HRP_TOKEN) + 7 + Len(data)
      BY Zenon, <1>3, HrpsAreProper
    <3> HIDE DEF text
    <3> QED BY <3>1, <2>1, HrpsAreProper
  <2>4. token_standard_encode(bytes, 28) = Copied(text, len)
    <3> HIDE DEF data
    <3> QED BY <2>2 DEF token_standard_encode
  <2>5. Copied(text, len) = text
    <3> HIDE DEF text, len
    <3> QED BY <2>3, CopiedIsText
  <2> QED BY <1>5, <2>1, <2>4, <2>5
<1> QED BY <1>4, <1>5

-----------------------------------------------------------------------------
(* The invariant, and which programs get a text.                           *)

(* The text an address, a token or a versioned program has. *)
TextShown ==
  IF Versioned THEN segwit_addr_encode(HRP_ADDRESS, version[1], prog)
  ELSE IF IsToken THEN token_standard_encode(prog, G_TOKEN_SIZE)
  ELSE IF IsHash THEN address_from_pubkey(prog, G_ADDRESS_SIZE)
  ELSE address_encode(prog, G_ADDRESS_SIZE)

Given ==
  \/ version = <<>> /\ prog \in Programs
  \/ version \in {<<v>> : v \in Versions} /\ prog \in WitnessPrograms

Texts ==
  /\ Given
  /\ phase # "given" => shown = TextShown
  /\ phase = "copied" =>
       shown # <<>> /\ copy \in ExactCopies(shown) \union Slips(shown, Characters)

(* The invariant holds initially. *)
LEMMA TextsInit == Init => Texts
BY DEF Init, Texts, Given

(* Every step keeps the invariant. *)
LEMMA TextsStep == Texts /\ [Next]_vars => Texts'
<1> SUFFICES ASSUME Texts, [Next]_vars PROVE Texts'
  OBVIOUS
<1>1. CASE Show
  <2>1. Given' /\ TextShown' = TextShown
    BY <1>1 DEF Show, Texts, Given, TextShown, Versioned, IsToken, IsHash
  <2>2. shown' = TextShown /\ phase' = "shown"
    BY <1>1 DEF Show, TextShown
  <2> QED BY <2>1, <2>2 DEF Texts
<1>2. CASE ShowVersioned
  <2>1. Given' /\ TextShown' = TextShown
    BY <1>2 DEF ShowVersioned, Texts, Given, TextShown, Versioned, IsToken, IsHash
  <2>2. shown' = TextShown /\ phase' = "shown"
    BY <1>2 DEF ShowVersioned, TextShown
  <2> QED BY <2>1, <2>2 DEF Texts
<1>3. CASE Copy
  <2>1. Given' /\ TextShown' = TextShown
    BY <1>3 DEF Copy, Texts, Given, TextShown, Versioned, IsToken, IsHash
  <2>2. shown' = TextShown
    BY <1>3 DEF Copy, Texts
  <2>3. shown' # <<>> /\ copy' \in ExactCopies(shown') \union Slips(shown', Characters)
    BY <1>3 DEF Copy
  <2> QED BY <2>1, <2>2, <2>3 DEF Texts
<1>4. CASE UNCHANGED vars
  <2>1. Given' /\ TextShown' = TextShown
    BY <1>4 DEF vars, Texts, Given, TextShown, Versioned, IsToken, IsHash
  <2>2. (phase' # "given" => shown' = TextShown')
    BY <1>4, <2>1 DEF vars, Texts
  <2>3. phase' = "copied" =>
          shown' # <<>> /\ copy' \in ExactCopies(shown') \union Slips(shown', Characters)
    BY <1>4 DEF vars, Texts
  <2> QED BY <2>1, <2>2, <2>3 DEF Texts
<1> QED BY <1>1, <1>2, <1>3, <1>4 DEF Next

(* What is shown is always the text of the bytes given. *)
LEMMA SpecTexts == Spec => []Texts
BY TextsInit, TextsStep, PTL DEF Spec

-----------------------------------------------------------------------------
(* The bytes a text without a version stands for, and its prefix. *)
Bytes == IF IsHash THEN <<0>> \o SubSeq(prog, 1, ADDRESS_LEN - 1) ELSE prog
Hrp == IF IsToken THEN HRP_TOKEN ELSE HRP_ADDRESS

(* The bytes of a text without a version: 20 for addresses and hashes, 10  *)
(* for tokens.                                                             *)
LEMMA PlainPrograms ==
  ASSUME Given, ~Versioned
  PROVE  /\ Bytes \in Seq(0..255) /\ Bytes = Meant
         /\ prog \in Seq(0..255) /\ version = <<>>
         /\ IF IsToken THEN Bytes = prog /\ Len(prog) = 10 ELSE Len(Bytes) = 20
<1>1. version = <<>> /\ prog \in Seq(0..255) /\ Len(prog) \in {20, 10, 32}
  <2>1. version = <<>> /\ prog \in Programs
    <3>1. CASE version = <<>> /\ prog \in Programs
      BY <3>1
    <3>2. CASE version \in {<<v>> : v \in Versions}
      <4>1. \A v : <<v>> # <<>>
        OBVIOUS
      <4> QED BY <3>2, <4>1 DEF Versioned
    <3> QED BY <3>1, <3>2 DEF Given
  <2> QED BY <2>1, AddressAssumption DEF ADDRESS_LEN, ZTS_LEN, HASH_LEN
<1>2. CASE IsHash
  <2> DEFINE S == 0..255
             zero == <<0>>
             rest == SubSeq(prog, 1, 19)
             one == 1
             nineteen == 19
             b == zero \o rest
  <2>1. Len(prog) = 32 /\ ~IsToken
    BY <1>2 DEF IsHash, IsToken, HASH_LEN, ZTS_LEN
  <2>2. Bytes = b
    BY <1>2 DEF Bytes, ADDRESS_LEN
  <2>3. rest \in Seq(S) /\ Len(rest) = nineteen /\ \A i \in 1..nineteen : rest[i] = prog[i]
    <3>1. prog \in Seq(S) /\ \A i \in 1..nineteen : i \in 1..Len(prog) /\ 1 + i - 1 = i
      BY <1>1, <2>1
    <3>2. nineteen \in Int /\ 1 <= nineteen /\ nineteen - 1 + 1 = nineteen /\ 1 \in Int
      OBVIOUS
    <3>3. rest = SubSeq(prog, 1, nineteen)
      OBVIOUS
    <3> HIDE DEF S, rest, nineteen
    <3>4. \A i \in 1..nineteen : prog[i] \in S
      BY <3>1, ElementOfSeq
    <3>5. /\ rest \in Seq(S)
          /\ Len(rest) = IF 1 <= nineteen THEN nineteen - 1 + 1 ELSE 0
          /\ \A i \in 1..nineteen - 1 + 1 : rest[i] = prog[1 + i - 1]
      BY <3>2, <3>3, <3>4, SubSeqProperties
    <3> QED BY <3>1, <3>2, <3>5
  <2>4. zero \in Seq(S) /\ Len(zero) = one /\ zero[1] = 0
    OBVIOUS
  <2>5. IsJoined(b, S, zero, one, rest, nineteen)
    <3> HIDE DEF S, zero, rest, one, nineteen, b
    <3>1. one = Len(zero) /\ nineteen = Len(rest)
      BY <2>3, <2>4
    <3> QED BY Zenon, <2>3, <2>4, <3>1, Joined DEF b
  <2>6. /\ b \in Seq(S) /\ Len(b) = 20 /\ b[1] = 0
        /\ \A i \in 1..19 : b[1 + i] = prog[i]
    <3> HIDE DEF b, S, rest, zero
    <3>1. 1 \in 1..one /\ Len(b) = 1 + 19
      BY <2>5 DEF one, nineteen, IsJoined
    <3> QED BY <2>3, <2>4, <2>5, <3>1 DEF one, nineteen, IsJoined
  <2> HIDE DEF b
  <2>7. \A i \in 1..20 : b[i] = IF i = 1 THEN 0 ELSE prog[i - 1]
    <3> TAKE i \in 1..20
    <3>1. CASE i = 1
      BY <3>1, <2>6
    <3>2. CASE i # 1
      <4> DEFINE j == i - 1
      <4>1. j \in 1..19 /\ 1 + j = i
        BY <3>2
      <4> HIDE DEF j
      <4>2. b[1 + j] = prog[j]
        BY Zenon, <4>1, <2>6
      <4> QED BY <4>1, <4>2, <3>2 DEF j
    <3> QED BY <3>1, <3>2
  <2>8. b = [i \in 1..20 |-> b[i]]
    BY <2>6
  <2>9. b = [i \in 1..20 |-> IF i = 1 THEN 0 ELSE prog[i - 1]]
    BY <2>7, <2>8
  <2>10. Meant = b
    BY <1>2, <2>9 DEF Meant, ADDRESS_LEN
  <2> QED BY <1>1, <2>1, <2>2, <2>6, <2>10
<1>3. CASE ~IsHash
  <2>1. Bytes = prog
    BY <1>3 DEF Bytes
  <2>2. Meant = <<>> \o prog
    BY <1>1, <1>3 DEF Meant
  <2>3. <<>> \o prog = prog
    BY <1>1
  <2>4. IF IsToken THEN Len(prog) = 10 ELSE Len(prog) = 20
    BY <1>1, <1>3 DEF IsToken, IsHash, Versioned, ZTS_LEN, HASH_LEN
  <2> QED BY <1>1, <2>1, <2>2, <2>3, <2>4
<1> QED BY <1>2, <1>3

(* Neither the buffers of the review nor the copies cut these texts. *)
LEMMA PlainTexts ==
  ASSUME Given, ~Versioned
  PROVE  /\ TextShown = TextOf(Hrp, Groups(Bytes), "BECH32")
         /\ Hrp \in Seq(HrpCharacters) /\ Len(Hrp) >= 1
         /\ Groups(Bytes) \in Seq(0..31) /\ Len(Groups(Bytes)) \in 1..64
         /\ Len(Hrp) + 7 + Len(Groups(Bytes)) <= 90
<1>1. /\ Bytes \in Seq(0..255)
      /\ IF IsToken THEN Bytes = prog /\ Len(prog) = 10 ELSE Len(Bytes) = 20
  BY PlainPrograms
<1>2. Groups(Bytes) \in Seq(0..31)
  BY <1>1, GroupsType
<1>3. CASE IsToken
  <2>1. /\ token_standard_encode(Bytes, 28) = TextOf(HRP_TOKEN, Groups(Bytes), "BECH32")
        /\ Len(Groups(Bytes)) = 16 /\ Bytes = prog
    BY <1>1, <1>3, AddressTexts
  <2>2. Hrp = HRP_TOKEN
    BY <1>3 DEF Hrp
  <2>3. TextShown = token_standard_encode(Bytes, 28)
    BY <1>3, <2>1 DEF TextShown, IsToken, G_TOKEN_SIZE
  <2> QED BY <1>2, <2>1, <2>2, <2>3, HrpsAreProper
<1>4. CASE ~IsToken
  <2>1. /\ address_encode(Bytes, 41) = TextOf(HRP_ADDRESS, Groups(Bytes), "BECH32")
        /\ Len(Groups(Bytes)) = 32
    BY <1>1, <1>4, AddressTexts
  <2>2. Hrp = HRP_ADDRESS
    BY <1>4 DEF Hrp
  <2>3. TextShown = address_encode(Bytes, 41)
    BY <1>4 DEF TextShown, Bytes, address_from_pubkey, G_ADDRESS_SIZE
  <2> QED BY <1>2, <2>1, <2>2, <2>3, HrpsAreProper
<1> QED BY <1>3, <1>4

(* What is in front of a sequence, and what comes after it. *)
LEMMA VersionedData ==
  ASSUME NEW S, NEW v \in S, NEW g \in Seq(S)
  PROVE  LET data == <<v>> \o g
         IN  /\ data \in Seq(S) /\ Len(data) = Len(g) + 1
             /\ data[1] = v /\ Head(data) = v /\ Tail(data) = g
<1> DEFINE data == <<v>> \o g
           one == 1
           n == Len(g)
           z == <<v>>
<1>1. z \in Seq(S) /\ one = Len(z) /\ n \in Nat /\ n = Len(g) /\ z[1] = v
  OBVIOUS
<1>2. IsJoined(data, S, z, one, g, n)
  <2> HIDE DEF z, one, n
  <2>1. data = z \o g
    BY DEF z
  <2> HIDE DEF data
  <2> QED BY Zenon, <1>1, <2>1, Joined
<1>3. data \in Seq(S) /\ Len(data) = one + n /\ data[1] = v /\ \A i \in 1..n : data[one + i] = g[i]
  <2> HIDE DEF data, z, n
  <2>1. 1 \in 1..one
    OBVIOUS
  <2> QED BY <1>1, <1>2, <2>1 DEF IsJoined
<1> HIDE DEF data
<1>4. data # <<>> /\ Len(data) = n + 1
  BY <1>1, <1>3
<1>5. Head(data) = v
  BY <1>3, <1>4
<1>6. Tail(data) \in Seq(S) /\ Len(Tail(data)) = n /\ \A i \in 1..n : Tail(data)[i] = data[i + 1]
  BY <1>1, <1>3, <1>4, HeadTailProperties
<1>7. \A i \in 1..n : Tail(data)[i] = g[i]
  <2>1. \A i \in 1..n : i + 1 = one + i
    OBVIOUS
  <2> HIDE DEF one
  <2> QED BY Zenon, <1>3, <1>6, <2>1
<1>8. Tail(data) = [i \in 1..n |-> Tail(data)[i]] /\ g = [i \in 1..n |-> g[i]]
  <2>1. n = Len(g) /\ n = Len(Tail(data))
    BY <1>6
  <2> HIDE DEF n
  <2> QED BY Zenon, <1>6, <2>1, SeqIsFunction
<1>9. Tail(data) = g
  <2> HIDE DEF n
  <2>1. [i \in 1..n |-> Tail(data)[i]] = [i \in 1..n |-> g[i]]
    BY Zenon, <1>7
  <2> QED BY Zenon, <2>1, <1>8
<1> QED BY <1>3, <1>4, <1>5, <1>9 DEF data

(* What is given with a version: an integer and bytes. *)
LEMMA VersionedGiven ==
  ASSUME Given, Versioned
  PROVE  /\ version = <<version[1]>> /\ version[1] \in Int /\ version[1] >= -224
         /\ prog \in Seq(0..255)
<1>1. PICK v \in Versions : version = <<v>> /\ prog \in WitnessPrograms
  BY DEF Given, Versioned
<1>2. version[1] = v
  BY <1>1
<1> QED BY <1>1, <1>2, AddressAssumption

(* What is a proper program of a version has a text; nothing else does. *)
LEMMA VersionedTexts ==
  ASSUME Given, Versioned
  PROVE  LET data == <<version[1]>> \o Groups(prog)
         IN  /\ Proper => /\ TextShown = TextOf(HRP_ADDRESS, data, Encoding(version[1]))
                          /\ data \in Seq(0..31) /\ Len(data) \in 2..65
                          /\ Len(Groups(prog)) \in 1..64
                          /\ Len(HRP_ADDRESS) + 7 + Len(data) <= 90
             /\ ~Proper => TextShown = <<>>
<1> DEFINE v == version[1]
           n == Len(prog)
           g == Groups(prog)
           m == Len(g)
<1>1. v \in Int /\ v >= -224 /\ prog \in Seq(0..255) /\ n \in Nat
  BY VersionedGiven
<1>2. g \in Seq(0..31) /\ m = (8 * n + 4) \div 5 /\ m \in Nat
  BY <1>1, GroupsType
<1>3. TextShown = segwit_addr_encode(HRP_ADDRESS, v, prog)
  BY DEF TextShown
<1>4. Proper <=> v \in 0..16 /\ WitnessLengthOK(v, n)
  BY DEF Proper, WitnessLengthOK
<1>5. segwit_addr_encode(HRP_ADDRESS, v, prog) =
        IF v > 16 \/ ~WitnessLengthOK(v, n) THEN <<>>
        ELSE bech32_encode(HRP_ADDRESS, <<v % 256>> \o g, Encoding(v))
  BY DEF segwit_addr_encode, Groups
<1> HIDE DEF v, n, g, m
<1>6. ASSUME Proper
      PROVE  LET data == <<v>> \o g
             IN  /\ TextShown = TextOf(HRP_ADDRESS, data, Encoding(v))
                 /\ data \in Seq(0..31) /\ Len(data) \in 2..65
                 /\ m \in 1..64
                 /\ Len(HRP_ADDRESS) + 7 + Len(data) <= 90
  <2> DEFINE data == <<v>> \o g
             enc == Encoding(v)
  <2>1. v \in 0..16 /\ ~(v > 16 \/ ~WitnessLengthOK(v, n)) /\ n \in 2..40
    BY <1>1, <1>4, <1>6 DEF WitnessLengthOK
  <2>2. v % 256 = v /\ v \in 0..31
    BY <2>1
  <2>3. m \in 1..64
    BY <1>2, <2>1
  <2>4. data \in Seq(0..31) /\ Len(data) = m + 1
    <3> DEFINE S == 0..31
    <3>1. v \in S /\ g \in Seq(S)
      BY <1>2, <2>2
    <3> HIDE DEF S
    <3>2. data \in Seq(S) /\ Len(data) = Len(g) + 1
      BY <3>1, VersionedData
    <3> QED BY <3>2 DEF S, m
  <2> HIDE DEF data
  <2>5. Len(data) \in 2..65 /\ Len(HRP_ADDRESS) + 7 + Len(data) <= 90
    BY <2>3, <2>4, HrpsAreProper
  <2>6. TextShown = bech32_encode(HRP_ADDRESS, data, enc)
    BY <1>3, <1>5, <2>1, <2>2 DEF data
  <2> HIDE DEF enc
  <2>7. bech32_encode(HRP_ADDRESS, data, enc) = TextOf(HRP_ADDRESS, data, enc)
    BY Zenon, <2>4, <2>5, HrpsAreProper, EncodeWritesText
  <2> QED BY <2>3, <2>4, <2>5, <2>6, <2>7 DEF data, enc
<1>7. ASSUME ~Proper PROVE TextShown = <<>>
  <2>1. CASE v > 16 \/ ~WitnessLengthOK(v, n)
    BY <2>1, <1>3, <1>5
  <2>2. CASE ~(v > 16 \/ ~WitnessLengthOK(v, n))
    <3> DEFINE b == v % 256
               data == <<b>> \o g
    <3>1. v < 0
      BY <1>1, <1>4, <1>7, <2>2
    <3>2. b \in Nat /\ b > 31
      BY <1>1, <3>1
    <3> HIDE DEF b
    <3>3. Len(data) = m + 1 /\ data[1] = b
      <4>1. g \in Seq(Nat)
        <5>1. \A i \in 1..m : g[i] \in Nat
          BY Zenon, <1>2, ByteElements, 31 \in Nat DEF m
        <5>2. g = [i \in 1..m |-> g[i]]
          BY <1>2 DEF m
        <5>3. g \in [1..m -> Nat]
          BY <5>1, <5>2
        <5> QED BY <1>2, <5>3, FunctionIsSeq
      <4> QED BY <3>2, <4>1, VersionedData DEF m
    <3>4. 1 \in 1..Len(data)
      BY <3>3, <1>2
    <3>5. \E i \in 1..Len(data) : data[i] > 31
      BY <3>2, <3>3, <3>4
    <3>6. bech32_encode(HRP_ADDRESS, data, Encoding(v)) = <<>>
      <4> HIDE DEF data
      <4> QED BY <3>5, EncodeRefuses
    <3> QED BY <2>2, <3>6, <1>3, <1>5 DEF b
  <2> QED BY <2>1, <2>2
<1> QED BY <1>6, <1>7 DEF v, g, m

(* No text is empty. *)
LEMMA TextIsNotEmpty ==
  ASSUME NEW hrp \in Seq(HrpCharacters), NEW data \in Seq(0..31), NEW enc
  PROVE  TextOf(hrp, data, enc) # <<>>
<1>1. Len(TextOf(hrp, data, enc)) = Len(hrp) + 7 + Len(data)
  BY TextShape
<1>2. Len(hrp) \in Nat /\ Len(data) \in Nat /\ Len(<<>>) = 0
  OBVIOUS
<1> QED BY <1>1, <1>2

(* The invariant says which programs have a text. *)
LEMMA TextsEncode == Texts => EncodesWhatIsProper
<1> SUFFICES ASSUME Texts, phase # "given" PROVE shown # <<>> <=> Proper
  BY DEF EncodesWhatIsProper
<1>1. Given /\ shown = TextShown
  BY DEF Texts
<1>2. CASE ~Versioned
  <2>1. Proper
    BY <1>2 DEF Proper
  <2>2. TextShown # <<>>
    BY <1>1, <1>2, PlainTexts, TextIsNotEmpty
  <2> QED BY <1>1, <2>1, <2>2
<1>3. CASE Versioned
  <2>1. Proper => TextShown # <<>>
    BY Zenon, <1>1, <1>3, VersionedTexts, HrpsAreProper, TextIsNotEmpty
  <2>2. ~Proper => TextShown = <<>>
    BY <1>1, <1>3, VersionedTexts
  <2> QED BY <1>1, <2>1, <2>2
<1> QED BY <1>2, <1>3

(* segwit_addr_encode, address_encode and token_standard_encode write a    *)
(* text for every proper program and for no other, and the buffers of the  *)
(* review are large enough.                                                *)
THEOREM SpecEncodesWhatIsProper == Spec => []EncodesWhatIsProper
BY SpecTexts, TextsEncode, PTL

-----------------------------------------------------------------------------
(* An exact copy reads back.                                               *)

(* A part of a sequence over S is a sequence over S. *)
LEMMA SubSeqType ==
  ASSUME NEW S, NEW s \in Seq(S), NEW m \in Nat, NEW n \in Nat, m >= 1, n <= Len(s)
  PROVE  SubSeq(s, m, n) \in Seq(S)
<1>1. \A i \in m..n : i \in 1..Len(s)
  OBVIOUS
<1>2. \A i \in m..n : s[i] \in S
  BY <1>1, ElementOfSeq
<1> QED BY <1>2, SubSeqProperties, m \in Int, n \in Int

(* A copy, exact or with a slip, is a string of characters. *)
LEMMA CopyType ==
  ASSUME NEW text \in Seq(Nat), NEW characters \in SUBSET Nat,
         NEW c \in ExactCopies(text) \union Slips(text, characters)
  PROVE  c \in Seq(Nat)
<1> DEFINE n == Len(text)
<1>1. n \in Nat /\ \A i \in 1..n : text[i] \in Nat
  OBVIOUS
<1>2. CASE c \in ExactCopies(text)
  <2>1. \A i \in 1..n : ToUpper(text[i]) \in Nat
    <3>1. \A x \in Nat : ToUpper(x) \in Nat
      BY DEF ToUpper, Lower
    <3> QED BY Zenon, <1>1, <3>1
  <2>2. [i \in 1..n |-> ToUpper(text[i])] \in [1..n -> Nat]
    BY <2>1
  <2>3. [i \in 1..n |-> ToUpper(text[i])] \in Seq(Nat)
    BY Zenon, <1>1, <2>2, FunctionIsSeq
  <2> QED BY Zenon, <1>2, <2>3 DEF ExactCopies
<1>3. CASE \E i \in 1..n, ch \in characters : c = [text EXCEPT ![i] = ch]
  <2>1. PICK i \in 1..n, ch \in characters : c = [text EXCEPT ![i] = ch]
    BY Zenon, <1>3
  <2> QED BY <2>1
<1>4. CASE \E i \in 1..n : c = RemoveAt(text, i)
  <2>1. PICK i \in 1..n : c = SubSeq(text, 1, i - 1) \o SubSeq(text, i + 1, n)
    BY Zenon, <1>4 DEF RemoveAt
  <2>2. SubSeq(text, 1, i - 1) \in Seq(Nat)
    BY <1>1, SubSeqType, 1 \in Nat, i - 1 \in Nat
  <2>3. SubSeq(text, i + 1, n) \in Seq(Nat)
    BY <1>1, SubSeqType, i + 1 \in Nat
  <2> QED BY Zenon, <2>1, <2>2, <2>3, Concatenation
<1>5. CASE \E i \in 1..n + 1, ch \in characters : c = InsertAt(text, i, ch)
  <2>1. PICK i \in 1..n + 1, ch \in characters :
          c = (SubSeq(text, 1, i - 1) \o <<ch>>) \o SubSeq(text, i, n)
    BY Zenon, <1>5 DEF InsertAt
  <2>2. SubSeq(text, 1, i - 1) \in Seq(Nat)
    BY <1>1, SubSeqType, 1 \in Nat, i - 1 \in Nat
  <2>3. SubSeq(text, i, n) \in Seq(Nat)
    BY <1>1, SubSeqType, i \in Nat
  <2>4. <<ch>> \in Seq(Nat)
    OBVIOUS
  <2>5. SubSeq(text, 1, i - 1) \o <<ch>> \in Seq(Nat)
    BY <2>2, <2>4, Concatenation
  <2> QED BY <2>1, <2>3, <2>5, Concatenation
<1>6. CASE \E i \in 1..n - 1 : c = [text EXCEPT ![i] = text[i + 1], ![i + 1] = text[i]]
  <2>1. PICK i \in 1..n - 1 : c = [text EXCEPT ![i] = text[i + 1], ![i + 1] = text[i]]
    BY Zenon, <1>6
  <2>2. text[i] \in Nat /\ text[i + 1] \in Nat
    BY <1>1
  <2> QED BY SMTT(30), <2>1, <2>2
<1> QED BY <1>2, <1>3, <1>4, <1>5, <1>6 DEF Slips

(* The invariant gives an exact copy its reading. *)
LEMMA TextsReadBack == Texts => ExactCopyReadsBack
<1> SUFFICES ASSUME Texts, phase = "copied", SameText(copy, shown) PROVE ReadBack = Meant
  BY DEF ExactCopyReadsBack
<1>1. Given /\ shown = TextShown /\ copy \in ExactCopies(shown) \union Slips(shown, Characters)
  BY DEF Texts
<1>2. Characters \in SUBSET Nat
  BY AddressAssumption
<1>3. ASSUME NEW hrp \in Seq(HrpCharacters), NEW data \in Seq(0..31),
             NEW enc \in {"BECH32", "BECH32M"}, Len(hrp) >= 1,
             Len(hrp) + 7 + Len(data) <= 90, shown = TextOf(hrp, data, enc)
      PROVE  bech32_decode(copy) = [enc |-> enc, hrp |-> hrp, data |-> data]
  <2>1. shown \in Seq(HrpCharacters)
    BY <1>3, TextShape
  <2>2. shown \in Seq(Nat)
    <3> DEFINE n == Len(shown)
    <3>1. \A x \in HrpCharacters : x \in Nat
      BY DEF HrpCharacters
    <3>2. \A i \in 1..n : shown[i] \in Nat
      BY <2>1, <3>1, ElementOfSeq
    <3>3. shown = [i \in 1..n |-> shown[i]] /\ n \in Nat
      BY <2>1, SeqIsFunction
    <3>4. shown \in [1..n -> Nat]
      BY <3>2, <3>3
    <3> QED BY <3>3, <3>4, FunctionIsSeq
  <2>3. copy \in Seq(Nat)
    BY Zenon, <1>1, <1>2, <2>2, CopyType
  <2> QED BY <1>3, <2>3, DecodeReadsText
<1>4. CASE ~Versioned
  <2> DEFINE data == Groups(Bytes)
             enc == "BECH32"
             decoded == bech32_decode(copy)
             back == convert_bits(8, data, 5, FALSE)
  <2>1. /\ shown = TextOf(Hrp, data, enc) /\ Hrp \in Seq(HrpCharacters) /\ Len(Hrp) >= 1
        /\ data \in Seq(0..31) /\ Len(data) \in 1..64 /\ Len(Hrp) + 7 + Len(data) <= 90
    BY <1>1, <1>4, PlainTexts
  <2>2. /\ Bytes \in Seq(0..255) /\ Bytes = Meant
        /\ IF IsToken THEN Bytes = prog /\ Len(prog) = 10 ELSE Len(Bytes) = 20
    BY <1>1, <1>4, PlainPrograms
  <2>3. decoded = [enc |-> enc, hrp |-> Hrp, data |-> data]
    <3> HIDE DEF data
    <3> QED BY <1>3, <2>1
  <2>4. back = Bytes
    BY Zenon, <2>2, RegroupsBack DEF Groups
  <2> HIDE DEF data
  <2>5. decoded.enc # "NONE" /\ decoded.hrp = Hrp /\ decoded.data = data
    BY <2>3
  <2> HIDE DEF decoded, back
  <2>6. CASE IsToken
    <3>1. Hrp = HRP_TOKEN /\ Len(back) = ZTS_LEN
      BY <2>2, <2>4, <2>6 DEF Hrp, ZTS_LEN
    <3>2. ReadBack = ReadToken
      BY <1>4, <2>6 DEF ReadBack
    <3>3. ReadToken = IF decoded.hrp = HRP_TOKEN /\ Len(convert_bits(8, decoded.data, 5, FALSE)) = ZTS_LEN
                      THEN convert_bits(8, decoded.data, 5, FALSE) ELSE <<>>
      BY DEF ReadToken, decoded
    <3>4. convert_bits(8, decoded.data, 5, FALSE) = back
      BY <2>5 DEF back
    <3> QED BY Zenon, <2>2, <2>4, <2>5, <3>1, <3>2, <3>3, <3>4
  <2>7. CASE ~IsToken
    <3>1. Hrp = HRP_ADDRESS /\ Len(back) = ADDRESS_LEN
      BY <2>2, <2>4, <2>7 DEF Hrp, ADDRESS_LEN
    <3>2. ReadBack = bech32_addr_decode(HRP_ADDRESS, copy)
      BY <1>4, <2>7 DEF ReadBack
    <3>3. bech32_addr_decode(HRP_ADDRESS, copy) =
            IF \/ decoded.enc = "NONE" \/ decoded.hrp # HRP_ADDRESS
               \/ Len(decoded.data) \notin 1..64
               \/ Len(convert_bits(8, decoded.data, 5, FALSE)) # ADDRESS_LEN
            THEN <<>> ELSE convert_bits(8, decoded.data, 5, FALSE)
      BY DEF bech32_addr_decode, decoded
    <3>4. convert_bits(8, decoded.data, 5, FALSE) = back
      BY <2>5 DEF back
    <3> QED BY Zenon, <2>1, <2>2, <2>4, <2>5, <3>1, <3>2, <3>3, <3>4
  <2> QED BY <2>6, <2>7
<1>5. CASE Versioned
  <2> DEFINE v == version[1]
             g == Groups(prog)
             data == <<v>> \o g
             enc == Encoding(v)
             decoded == bech32_decode(copy)
             back == convert_bits(8, g, 5, FALSE)
  <2>1. Proper
    <3>1. phase # "given" /\ shown # <<>>
      BY DEF Texts
    <3> QED BY <3>1, TextsEncode DEF EncodesWhatIsProper
  <2>2. /\ shown = TextOf(HRP_ADDRESS, data, enc) /\ data \in Seq(0..31)
        /\ Len(data) \in 2..65 /\ Len(HRP_ADDRESS) + 7 + Len(data) <= 90
    BY <1>1, <1>5, <2>1, VersionedTexts
  <2>3. /\ version = <<v>> /\ v \in 0..16 /\ WitnessLengthOK(v, Len(prog))
        /\ prog \in Seq(0..255)
    BY <1>1, <1>5, <2>1, VersionedGiven DEF Proper, WitnessLengthOK
  <2>4. enc \in {"BECH32", "BECH32M"} /\ enc # "NONE"
    BY DEF Encoding
  <2>5. decoded = [enc |-> enc, hrp |-> HRP_ADDRESS, data |-> data]
    <3> DEFINE hrp == HRP_ADDRESS
    <3> HIDE DEF data, enc, hrp
    <3>1. hrp \in Seq(HrpCharacters) /\ Len(hrp) >= 1
      BY HrpsAreProper DEF hrp
    <3>2. Len(hrp) + 7 + Len(data) <= 90 /\ shown = TextOf(hrp, data, enc)
      BY <2>2 DEF hrp
    <3>3. bech32_decode(copy) = [enc |-> enc, hrp |-> hrp, data |-> data]
      BY <1>3, <2>2, <2>4, <3>1, <3>2
    <3> QED BY <3>3 DEF hrp
  <2>6. back = prog
    BY Zenon, <2>3, RegroupsBack DEF Groups
  <2>7. Head(data) = v /\ Tail(data) = g
    <3> DEFINE S == 0..31
    <3>1. v \in S /\ g \in Seq(S)
      BY <2>3, GroupsType
    <3> HIDE DEF S, v, g
    <3> QED BY <3>1, VersionedData
  <2> HIDE DEF data, g, enc
  <2>8. decoded.enc = enc /\ decoded.hrp = HRP_ADDRESS /\ decoded.data = data
    BY <2>5
  <2> HIDE DEF decoded, back
  <2>9. convert_bits(8, Tail(decoded.data), 5, FALSE) = prog /\ Head(decoded.data) = v
    BY Zenon, <2>6, <2>7, <2>8 DEF back
  <2>10. segwit_addr_decode(HRP_ADDRESS, copy) =
           LET witver == Head(decoded.data)
               witprog == convert_bits(8, Tail(decoded.data), 5, FALSE)
           IN  IF \/ decoded.enc = "NONE" \/ Len(decoded.data) \notin 1..65
                  \/ decoded.hrp # HRP_ADDRESS
                  \/ witver > 16 \/ decoded.enc # Encoding(witver)
                  \/ ~WitnessLengthOK(witver, Len(witprog))
               THEN NotSegwit
               ELSE [witver |-> witver, witprog |-> witprog]
    BY DEF segwit_addr_decode, decoded
  <2>11. segwit_addr_decode(HRP_ADDRESS, copy) = [witver |-> v, witprog |-> prog]
    <3> HIDE DEF v
    <3>1. ~(v > 16) /\ enc = Encoding(v) /\ Len(data) \in 1..65
      BY <2>2, <2>3 DEF enc, v
    <3> QED BY Zenon, <2>3, <2>4, <2>8, <2>9, <2>10, <3>1
  <2>12. [witver |-> v, witprog |-> prog] # NotSegwit
    <3> HIDE DEF v
    <3>1. v # -1
      BY <2>3
    <3> QED BY <3>1 DEF NotSegwit
  <2>13. ReadBack = <<v>> \o prog
    <3> HIDE DEF v
    <3> QED BY <1>5, <2>11, <2>12 DEF ReadBack, ReadVersioned
  <2>14. Meant = version \o prog
    BY <1>5 DEF Meant, IsHash
  <2> QED BY Zenon, <2>3, <2>13, <2>14
<1> QED BY <1>4, <1>5

(* A copy of the text shown, in either case, decodes to the bytes that are *)
(* meant: the encoders of segwit_addr.c, the copies of address.c and       *)
(* token_standard.c and the decoders fit together for all bytes.           *)
THEOREM SpecExactCopyReadsBack == Spec => []ExactCopyReadsBack
BY SpecTexts, TextsReadBack, PTL

-----------------------------------------------------------------------------
(* Five bytes as eight groups, in numbers.                                 *)

(* The eight bits of a byte, at their places in the stream. *)
LEMMA BitsOfByte ==
  ASSUME NEW in \in Seq(0..255), NEW q \in Nat, q < Len(in), NEW k, k = 8 * q
  PROVE  LET x == in[q + 1]
         IN  /\ Bit(in, 8, k) = (x \div 128) % 2 /\ Bit(in, 8, k + 1) = (x \div 64) % 2
             /\ Bit(in, 8, k + 2) = (x \div 32) % 2 /\ Bit(in, 8, k + 3) = (x \div 16) % 2
             /\ Bit(in, 8, k + 4) = (x \div 8) % 2 /\ Bit(in, 8, k + 5) = (x \div 4) % 2
             /\ Bit(in, 8, k + 6) = (x \div 2) % 2 /\ Bit(in, 8, k + 7) = x % 2
<1> DEFINE x == in[q + 1]
<1>1. x \in 0..255
  <2>1. q + 1 \in 1..Len(in)
    OBVIOUS
  <2> QED BY <2>1, ByteElements, 255 \in Nat
<1>2. ASSUME NEW r \in 0..7, NEW p, p = 2 ^ (7 - r)
      PROVE  Bit(in, 8, k + r) = (x \div p) % 2
  <2> DEFINE m == k + r
  <2>1. m \in Int /\ m = 8 * q + r /\ r \in 0..8 - 1 /\ q \in Int
    OBVIOUS
  <2>2. m \div 8 = q /\ m % 8 = r
    <3> DEFINE eight == 8
    <3>1. eight \in Nat \ {0} /\ m = eight * q + r /\ r \in 0..eight - 1
      BY <2>1
    <3> HIDE DEF m, eight
    <3>2. m \div eight = q /\ m % eight = r
      BY Zenon, <2>1, <3>1, DivModUnique
    <3> QED BY <3>2 DEF eight
  <2>3. ~(m >= Len(in) * 8)
    OBVIOUS
  <2>4. 8 - 1 - r = 7 - r
    OBVIOUS
  <2> HIDE DEF m
  <2> QED BY Zenon, <1>2, <2>2, <2>3, <2>4 DEF Bit, m
<1>3. /\ 2 ^ (7 - 0) = 128 /\ 2 ^ (7 - 1) = 64 /\ 2 ^ (7 - 2) = 32 /\ 2 ^ (7 - 3) = 16
      /\ 2 ^ (7 - 4) = 8 /\ 2 ^ (7 - 5) = 4 /\ 2 ^ (7 - 6) = 2 /\ 2 ^ (7 - 7) = 1
  <2>1. 7 - 0 = 7 /\ 7 - 1 = 6 /\ 7 - 2 = 5 /\ 7 - 3 = 4 /\ 7 - 4 = 3 /\ 7 - 5 = 2
        /\ 7 - 6 = 1 /\ 7 - 7 = 0
    OBVIOUS
  <2> QED BY <2>1, SmallPowers
<1>4. /\ Bit(in, 8, k + 0) = (x \div 128) % 2 /\ Bit(in, 8, k + 1) = (x \div 64) % 2
      /\ Bit(in, 8, k + 2) = (x \div 32) % 2 /\ Bit(in, 8, k + 3) = (x \div 16) % 2
      /\ Bit(in, 8, k + 4) = (x \div 8) % 2 /\ Bit(in, 8, k + 5) = (x \div 4) % 2
      /\ Bit(in, 8, k + 6) = (x \div 2) % 2 /\ Bit(in, 8, k + 7) = (x \div 1) % 2
  <2> HIDE DEF x
  <2> QED BY <1>2, <1>3
<1>5. k + 0 = k /\ x \div 1 = x
  <2> HIDE DEF x
  <2> QED BY <1>1
<1> QED BY <1>4, <1>5

(* A group of five bits as the sum of its bits. *)
LEMMA GroupSum ==
  ASSUME NEW in \in Seq(0..255), NEW g \in 1..Len(Groups(in)), NEW k \in Nat, k = (g - 1) * 5
  PROVE  Groups(in)[g] = 16 * Bit(in, 8, k) + 8 * Bit(in, 8, k + 1) + 4 * Bit(in, 8, k + 2)
                           + 2 * Bit(in, 8, k + 3) + Bit(in, 8, k + 4)
<1> DEFINE b == [j \in 1..5 |-> Bit(in, 8, (g - 1) * 5 + j - 1)]
<1>1. b \in [1..5 -> {0, 1}] /\ Groups(in)[g] = Number(b)
  BY Zenon, GroupsOf5 DEF Groups
<1>2. Number(b) = 16 * b[1] + 8 * b[2] + 4 * b[3] + 2 * b[4] + b[5]
  <2> HIDE DEF b
  <2> QED BY <1>1, NumberOf5
<1>3. /\ (g - 1) * 5 + 1 - 1 = k /\ (g - 1) * 5 + 2 - 1 = k + 1 /\ (g - 1) * 5 + 3 - 1 = k + 2
      /\ (g - 1) * 5 + 4 - 1 = k + 3 /\ (g - 1) * 5 + 5 - 1 = k + 4
  OBVIOUS
<1>4. /\ b[1] = Bit(in, 8, k) /\ b[2] = Bit(in, 8, k + 1) /\ b[3] = Bit(in, 8, k + 2)
      /\ b[4] = Bit(in, 8, k + 3) /\ b[5] = Bit(in, 8, k + 4)
  BY <1>3
<1> HIDE DEF b
<1> QED BY <1>1, <1>2, <1>4

(* The parts of a byte and its digits. *)
LEMMA PartsOfByte ==
  ASSUME NEW x \in 0..255
  PROVE  LET d7 == (x \div 128) % 2
             d6 == (x \div 64) % 2
             d5 == (x \div 32) % 2
             d4 == (x \div 16) % 2
             d3 == (x \div 8) % 2
             d2 == (x \div 4) % 2
             d1 == (x \div 2) % 2
             d0 == x % 2
         IN  /\ x \div 8 = 16 * d7 + 8 * d6 + 4 * d5 + 2 * d4 + d3
             /\ 4 * (x % 8) = 16 * d2 + 8 * d1 + 4 * d0
             /\ x \div 64 = 2 * d7 + d6
             /\ (x \div 2) % 32 = 16 * d5 + 8 * d4 + 4 * d3 + 2 * d2 + d1
             /\ 16 * (x % 2) = 16 * d0
             /\ x \div 16 = 8 * d7 + 4 * d6 + 2 * d5 + d4
             /\ 2 * (x % 16) = 16 * d3 + 8 * d2 + 4 * d1 + 2 * d0
             /\ x \div 128 = d7
             /\ (x \div 4) % 32 = 16 * d6 + 8 * d5 + 4 * d4 + 2 * d3 + d2
             /\ 8 * (x % 4) = 16 * d1 + 8 * d0
             /\ x \div 32 = 4 * d7 + 2 * d6 + d5
             /\ x % 32 = 16 * d4 + 8 * d3 + 4 * d2 + 2 * d1 + d0
<1> DEFINE d7 == (x \div 128) % 2
           d6 == (x \div 64) % 2
           d5 == (x \div 32) % 2
           d4 == (x \div 16) % 2
           d3 == (x \div 8) % 2
           d2 == (x \div 4) % 2
           d1 == (x \div 2) % 2
           d0 == x % 2
<1>1. /\ d7 \in {0, 1} /\ d6 \in {0, 1} /\ d5 \in {0, 1} /\ d4 \in {0, 1}
      /\ d3 \in {0, 1} /\ d2 \in {0, 1} /\ d1 \in {0, 1} /\ d0 \in {0, 1}
  OBVIOUS
<1>2. x = 128 * d7 + 64 * d6 + 32 * d5 + 16 * d4 + 8 * d3 + 4 * d2 + 2 * d1 + d0
  OBVIOUS
<1> HIDE DEF d7, d6, d5, d4, d3, d2, d1, d0
<1>3. x \div 8 = 16 * d7 + 8 * d6 + 4 * d5 + 2 * d4 + d3
  BY <1>1, <1>2
<1>4. 4 * (x % 8) = 16 * d2 + 8 * d1 + 4 * d0
  BY <1>1, <1>2
<1>5. x \div 64 = 2 * d7 + d6
  BY <1>1, <1>2
<1>6. (x \div 2) % 32 = 16 * d5 + 8 * d4 + 4 * d3 + 2 * d2 + d1
  BY <1>1, <1>2
<1>7. 16 * (x % 2) = 16 * d0
  BY <1>1, <1>2
<1>8. x \div 16 = 8 * d7 + 4 * d6 + 2 * d5 + d4
  BY <1>1, <1>2
<1>9. 2 * (x % 16) = 16 * d3 + 8 * d2 + 4 * d1 + 2 * d0
  BY <1>1, <1>2
<1>10. x \div 128 = d7
  BY <1>1, <1>2
<1>11. (x \div 4) % 32 = 16 * d6 + 8 * d5 + 4 * d4 + 2 * d3 + d2
  BY <1>1, <1>2
<1>12. 8 * (x % 4) = 16 * d1 + 8 * d0
  BY <1>1, <1>2
<1>13. x \div 32 = 4 * d7 + 2 * d6 + d5
  BY <1>1, <1>2
<1>14. x % 32 = 16 * d4 + 8 * d3 + 4 * d2 + 2 * d1 + d0
  BY <1>1, <1>2
<1> QED BY <1>3, <1>4, <1>5, <1>6, <1>7, <1>8, <1>9, <1>10, <1>11, <1>12, <1>13, <1>14 DEF d7, d6, d5, d4, d3, d2, d1, d0

(* z holds the digits of five bytes. *)
DigitsOf(z, x1, x2, x3, x4, x5) ==
  /\ z[0] = (x1 \div 128) % 2 /\ z[1] = (x1 \div 64) % 2 /\ z[2] = (x1 \div 32) % 2 /\ z[3] = (x1 \div 16) % 2
  /\ z[4] = (x1 \div 8) % 2 /\ z[5] = (x1 \div 4) % 2 /\ z[6] = (x1 \div 2) % 2 /\ z[7] = x1 % 2
  /\ z[8] = (x2 \div 128) % 2 /\ z[9] = (x2 \div 64) % 2 /\ z[10] = (x2 \div 32) % 2 /\ z[11] = (x2 \div 16) % 2
  /\ z[12] = (x2 \div 8) % 2 /\ z[13] = (x2 \div 4) % 2 /\ z[14] = (x2 \div 2) % 2 /\ z[15] = x2 % 2
  /\ z[16] = (x3 \div 128) % 2 /\ z[17] = (x3 \div 64) % 2 /\ z[18] = (x3 \div 32) % 2 /\ z[19] = (x3 \div 16) % 2
  /\ z[20] = (x3 \div 8) % 2 /\ z[21] = (x3 \div 4) % 2 /\ z[22] = (x3 \div 2) % 2 /\ z[23] = x3 % 2
  /\ z[24] = (x4 \div 128) % 2 /\ z[25] = (x4 \div 64) % 2 /\ z[26] = (x4 \div 32) % 2 /\ z[27] = (x4 \div 16) % 2
  /\ z[28] = (x4 \div 8) % 2 /\ z[29] = (x4 \div 4) % 2 /\ z[30] = (x4 \div 2) % 2 /\ z[31] = x4 % 2
  /\ z[32] = (x5 \div 128) % 2 /\ z[33] = (x5 \div 64) % 2 /\ z[34] = (x5 \div 32) % 2 /\ z[35] = (x5 \div 16) % 2
  /\ z[36] = (x5 \div 8) % 2 /\ z[37] = (x5 \div 4) % 2 /\ z[38] = (x5 \div 2) % 2 /\ z[39] = x5 % 2

(* They are these eight numbers, taken five by five. *)
SumsAre(z, x1, x2, x3, x4, x5) ==
  /\ 16 * z[0] + 8 * z[1] + 4 * z[2] + 2 * z[3] + z[4] = x1 \div 8
  /\ 16 * z[5] + 8 * z[6] + 4 * z[7] + 2 * z[8] + z[9] = 4 * (x1 % 8) + (x2 \div 64)
  /\ 16 * z[10] + 8 * z[11] + 4 * z[12] + 2 * z[13] + z[14] = (x2 \div 2) % 32
  /\ 16 * z[15] + 8 * z[16] + 4 * z[17] + 2 * z[18] + z[19] = 16 * (x2 % 2) + (x3 \div 16)
  /\ 16 * z[20] + 8 * z[21] + 4 * z[22] + 2 * z[23] + z[24] = 2 * (x3 % 16) + (x4 \div 128)
  /\ 16 * z[25] + 8 * z[26] + 4 * z[27] + 2 * z[28] + z[29] = (x4 \div 4) % 32
  /\ 16 * z[30] + 8 * z[31] + 4 * z[32] + 2 * z[33] + z[34] = 8 * (x4 % 4) + (x5 \div 32)
  /\ 16 * z[35] + 8 * z[36] + 4 * z[37] + 2 * z[38] + z[39] = x5 % 32

(* c holds these numbers from o on. *)
GroupsAre(c, o, x1, x2, x3, x4, x5) ==
  /\ c[o + 1] = x1 \div 8
  /\ c[o + 2] = 4 * (x1 % 8) + (x2 \div 64)
  /\ c[o + 3] = (x2 \div 2) % 32
  /\ c[o + 4] = 16 * (x2 % 2) + (x3 \div 16)
  /\ c[o + 5] = 2 * (x3 % 16) + (x4 \div 128)
  /\ c[o + 6] = (x4 \div 4) % 32
  /\ c[o + 7] = 8 * (x4 % 4) + (x5 \div 32)
  /\ c[o + 8] = x5 % 32

(* The sums of SumsAre are the digits of five bytes, five by five. *)
LEMMA EightSums ==
  ASSUME NEW z, NEW x1 \in 0..255, NEW x2 \in 0..255, NEW x3 \in 0..255, NEW x4 \in 0..255,
         NEW x5 \in 0..255, DigitsOf(z, x1, x2, x3, x4, x5)
  PROVE  SumsAre(z, x1, x2, x3, x4, x5)
<1>1. 16 * z[0] + 8 * z[1] + 4 * z[2] + 2 * z[3] + z[4] = x1 \div 8
  <2>1. x1 \div 8 = 16 * ((x1 \div 128) % 2) + 8 * ((x1 \div 64) % 2) + 4 * ((x1 \div 32) % 2) + 2 * ((x1 \div 16) % 2) + ((x1 \div 8) % 2)
    BY PartsOfByte
  <2>2. x1 \div 8 = 16 * z[0] + 8 * z[1] + 4 * z[2] + 2 * z[3] + z[4]
    BY <2>1 DEF DigitsOf
  <2>9. z[0] \in Int /\ z[1] \in Int /\ z[2] \in Int /\ z[3] \in Int /\ z[4] \in Int
    BY DEF DigitsOf
  <2> QED BY <2>2, <2>9
<1>2. 16 * z[5] + 8 * z[6] + 4 * z[7] + 2 * z[8] + z[9] = 4 * (x1 % 8) + (x2 \div 64)
  <2> DEFINE u == 4 * (x1 % 8)
             w == x2 \div 64
  <2>1. 4 * (x1 % 8) = 16 * ((x1 \div 4) % 2) + 8 * ((x1 \div 2) % 2) + 4 * (x1 % 2)
    BY PartsOfByte
  <2>2. u = 16 * z[5] + 8 * z[6] + 4 * z[7]
    BY <2>1 DEF DigitsOf
  <2>3. x2 \div 64 = 2 * ((x2 \div 128) % 2) + ((x2 \div 64) % 2)
    BY PartsOfByte
  <2>4. w = 2 * z[8] + z[9]
    BY <2>3 DEF DigitsOf
  <2>9. z[5] \in Int /\ z[6] \in Int /\ z[7] \in Int /\ z[8] \in Int /\ z[9] \in Int
    BY DEF DigitsOf
  <2> HIDE DEF u, w
  <2>10. 16 * z[5] + 8 * z[6] + 4 * z[7] + 2 * z[8] + z[9] = u + w
    BY <2>2, <2>4, <2>9
  <2> QED BY <2>10 DEF u, w
<1>3. 16 * z[10] + 8 * z[11] + 4 * z[12] + 2 * z[13] + z[14] = (x2 \div 2) % 32
  <2>1. (x2 \div 2) % 32 = 16 * ((x2 \div 32) % 2) + 8 * ((x2 \div 16) % 2) + 4 * ((x2 \div 8) % 2) + 2 * ((x2 \div 4) % 2) + ((x2 \div 2) % 2)
    BY Zenon, PartsOfByte
  <2>2. (x2 \div 2) % 32 = 16 * z[10] + 8 * z[11] + 4 * z[12] + 2 * z[13] + z[14]
    BY <2>1 DEF DigitsOf
  <2>9. z[10] \in Int /\ z[11] \in Int /\ z[12] \in Int /\ z[13] \in Int /\ z[14] \in Int
    BY DEF DigitsOf
  <2> QED BY <2>2, <2>9
<1>4. 16 * z[15] + 8 * z[16] + 4 * z[17] + 2 * z[18] + z[19] = 16 * (x2 % 2) + (x3 \div 16)
  <2> DEFINE u == 16 * (x2 % 2)
             w == x3 \div 16
  <2>1. 16 * (x2 % 2) = 16 * (x2 % 2)
    BY PartsOfByte
  <2>2. u = 16 * z[15]
    BY <2>1 DEF DigitsOf
  <2>3. x3 \div 16 = 8 * ((x3 \div 128) % 2) + 4 * ((x3 \div 64) % 2) + 2 * ((x3 \div 32) % 2) + ((x3 \div 16) % 2)
    BY PartsOfByte
  <2>4. w = 8 * z[16] + 4 * z[17] + 2 * z[18] + z[19]
    BY <2>3 DEF DigitsOf
  <2>9. z[15] \in Int /\ z[16] \in Int /\ z[17] \in Int /\ z[18] \in Int /\ z[19] \in Int
    BY DEF DigitsOf
  <2> HIDE DEF u, w
  <2>10. 16 * z[15] + 8 * z[16] + 4 * z[17] + 2 * z[18] + z[19] = u + w
    BY <2>2, <2>4, <2>9
  <2> QED BY <2>10 DEF u, w
<1>5. 16 * z[20] + 8 * z[21] + 4 * z[22] + 2 * z[23] + z[24] = 2 * (x3 % 16) + (x4 \div 128)
  <2> DEFINE u == 2 * (x3 % 16)
             w == x4 \div 128
  <2>1. 2 * (x3 % 16) = 16 * ((x3 \div 8) % 2) + 8 * ((x3 \div 4) % 2) + 4 * ((x3 \div 2) % 2) + 2 * (x3 % 2)
    BY PartsOfByte
  <2>2. u = 16 * z[20] + 8 * z[21] + 4 * z[22] + 2 * z[23]
    BY <2>1 DEF DigitsOf
  <2>3. x4 \div 128 = ((x4 \div 128) % 2)
    BY PartsOfByte
  <2>4. w = z[24]
    BY <2>3 DEF DigitsOf
  <2>9. z[20] \in Int /\ z[21] \in Int /\ z[22] \in Int /\ z[23] \in Int /\ z[24] \in Int
    BY DEF DigitsOf
  <2> HIDE DEF u, w
  <2>10. 16 * z[20] + 8 * z[21] + 4 * z[22] + 2 * z[23] + z[24] = u + w
    BY <2>2, <2>4, <2>9
  <2> QED BY <2>10 DEF u, w
<1>6. 16 * z[25] + 8 * z[26] + 4 * z[27] + 2 * z[28] + z[29] = (x4 \div 4) % 32
  <2>1. (x4 \div 4) % 32 = 16 * ((x4 \div 64) % 2) + 8 * ((x4 \div 32) % 2) + 4 * ((x4 \div 16) % 2) + 2 * ((x4 \div 8) % 2) + ((x4 \div 4) % 2)
    BY PartsOfByte
  <2>2. (x4 \div 4) % 32 = 16 * z[25] + 8 * z[26] + 4 * z[27] + 2 * z[28] + z[29]
    BY <2>1 DEF DigitsOf
  <2>9. z[25] \in Int /\ z[26] \in Int /\ z[27] \in Int /\ z[28] \in Int /\ z[29] \in Int
    BY DEF DigitsOf
  <2> QED BY <2>2, <2>9
<1>7. 16 * z[30] + 8 * z[31] + 4 * z[32] + 2 * z[33] + z[34] = 8 * (x4 % 4) + (x5 \div 32)
  <2> DEFINE u == 8 * (x4 % 4)
             w == x5 \div 32
  <2>1. 8 * (x4 % 4) = 16 * ((x4 \div 2) % 2) + 8 * (x4 % 2)
    BY PartsOfByte
  <2>2. u = 16 * z[30] + 8 * z[31]
    BY <2>1 DEF DigitsOf
  <2>3. x5 \div 32 = 4 * ((x5 \div 128) % 2) + 2 * ((x5 \div 64) % 2) + ((x5 \div 32) % 2)
    BY PartsOfByte
  <2>4. w = 4 * z[32] + 2 * z[33] + z[34]
    BY <2>3 DEF DigitsOf
  <2>9. z[30] \in Int /\ z[31] \in Int /\ z[32] \in Int /\ z[33] \in Int /\ z[34] \in Int
    BY DEF DigitsOf
  <2> HIDE DEF u, w
  <2>10. 16 * z[30] + 8 * z[31] + 4 * z[32] + 2 * z[33] + z[34] = u + w
    BY <2>2, <2>4, <2>9
  <2> QED BY <2>10 DEF u, w
<1>8. 16 * z[35] + 8 * z[36] + 4 * z[37] + 2 * z[38] + z[39] = x5 % 32
  <2>1. x5 % 32 = 16 * ((x5 \div 16) % 2) + 8 * ((x5 \div 8) % 2) + 4 * ((x5 \div 4) % 2) + 2 * ((x5 \div 2) % 2) + (x5 % 2)
    BY Zenon, PartsOfByte
  <2>2. x5 % 32 = 16 * z[35] + 8 * z[36] + 4 * z[37] + 2 * z[38] + z[39]
    BY <2>1 DEF DigitsOf
  <2>9. z[35] \in Int /\ z[36] \in Int /\ z[37] \in Int /\ z[38] \in Int /\ z[39] \in Int
    BY DEF DigitsOf
  <2> QED BY <2>2, <2>9
<1> QED BY <1>1, <1>2, <1>3, <1>4, <1>5, <1>6, <1>7, <1>8 DEF SumsAre

(* Five bytes are eight groups. *)
LEMMA GroupsOfBytes ==
  ASSUME NEW in \in Seq(0..255), NEW q \in Nat, 5 * q + 5 <= Len(in),
         NEW x1, NEW x2, NEW x3, NEW x4, NEW x5,
         x1 = in[5 * q + 1], x2 = in[5 * q + 2], x3 = in[5 * q + 3], x4 = in[5 * q + 4],
         x5 = in[5 * q + 5]
  PROVE  /\ 8 * q + 8 <= Len(Groups(in))
         /\ GroupsAre(Groups(in), 8 * q, x1, x2, x3, x4, x5)
<1> DEFINE k == 40 * q
           n == Len(in)
           c == Groups(in)
           m == Len(c)
           z == [e \in 0..39 |-> Bit(in, 8, k + e)]
<1>1. k \in Nat /\ n \in Nat
  OBVIOUS
<1>2. x1 \in 0..255 /\ x2 \in 0..255 /\ x3 \in 0..255 /\ x4 \in 0..255 /\ x5 \in 0..255
  <2>1. \A i \in 1..5 : 5 * q + i \in 1..n
    BY <1>1
  <2>2. \A i \in 1..5 : in[5 * q + i] \in 0..255
    BY <2>1, ByteElements, 255 \in Nat
  <2> QED BY <2>2
<1>3. m \in Nat /\ 8 * q + 8 <= m
  <2> DEFINE a == 8 * n + 4
  <2>1. m = a \div 5 /\ a \in Int /\ a >= 5 * (8 * q + 8) + 4
    BY <1>1, GroupsType
  <2>2. a \div 5 \in Int /\ a % 5 \in 0..5 - 1 /\ a = 5 * (a \div 5) + (a % 5)
    <3> HIDE DEF a
    <3> QED BY <2>1, DivMod
  <2> HIDE DEF a, m
  <2> QED BY <2>1, <2>2
<1>4. /\ z[0] = (x1 \div 128) % 2 /\ z[1] = (x1 \div 64) % 2 /\ z[2] = (x1 \div 32) % 2 /\ z[3] = (x1 \div 16) % 2
      /\ z[4] = (x1 \div 8) % 2 /\ z[5] = (x1 \div 4) % 2 /\ z[6] = (x1 \div 2) % 2 /\ z[7] = x1 % 2
  <2> DEFINE y == 5 * q + 0
             o == 8 * y
  <2>1. y \in Nat /\ y < Len(in) /\ y + 1 = 5 * q + 1 /\ in[y + 1] = x1
    OBVIOUS
  <2>2. o = k + 0 /\ o + 1 = k + 1 /\ o + 2 = k + 2 /\ o + 3 = k + 3 /\ o + 4 = k + 4 /\ o + 5 = k + 5 /\ o + 6 = k + 6 /\ o + 7 = k + 7
    OBVIOUS
  <2>3. z[0] = Bit(in, 8, k + 0) /\ z[1] = Bit(in, 8, k + 1) /\ z[2] = Bit(in, 8, k + 2) /\ z[3] = Bit(in, 8, k + 3) /\ z[4] = Bit(in, 8, k + 4) /\ z[5] = Bit(in, 8, k + 5) /\ z[6] = Bit(in, 8, k + 6) /\ z[7] = Bit(in, 8, k + 7)
    OBVIOUS
  <2>4. o = 8 * y
    OBVIOUS
  <2> HIDE DEF y, o, k, z
  <2>5. LET x == in[y + 1]
         IN  /\ Bit(in, 8, o) = (x \div 128) % 2 /\ Bit(in, 8, o + 1) = (x \div 64) % 2
             /\ Bit(in, 8, o + 2) = (x \div 32) % 2 /\ Bit(in, 8, o + 3) = (x \div 16) % 2
             /\ Bit(in, 8, o + 4) = (x \div 8) % 2 /\ Bit(in, 8, o + 5) = (x \div 4) % 2
             /\ Bit(in, 8, o + 6) = (x \div 2) % 2 /\ Bit(in, 8, o + 7) = x % 2
    BY <2>1, <2>4, BitsOfByte
  <2> QED BY <2>1, <2>2, <2>3, <2>5
<1>5. /\ z[8] = (x2 \div 128) % 2 /\ z[9] = (x2 \div 64) % 2 /\ z[10] = (x2 \div 32) % 2 /\ z[11] = (x2 \div 16) % 2
      /\ z[12] = (x2 \div 8) % 2 /\ z[13] = (x2 \div 4) % 2 /\ z[14] = (x2 \div 2) % 2 /\ z[15] = x2 % 2
  <2> DEFINE y == 5 * q + 1
             o == 8 * y
  <2>1. y \in Nat /\ y < Len(in) /\ y + 1 = 5 * q + 2 /\ in[y + 1] = x2
    OBVIOUS
  <2>2. o = k + 8 /\ o + 1 = k + 9 /\ o + 2 = k + 10 /\ o + 3 = k + 11 /\ o + 4 = k + 12 /\ o + 5 = k + 13 /\ o + 6 = k + 14 /\ o + 7 = k + 15
    OBVIOUS
  <2>3. z[8] = Bit(in, 8, k + 8) /\ z[9] = Bit(in, 8, k + 9) /\ z[10] = Bit(in, 8, k + 10) /\ z[11] = Bit(in, 8, k + 11) /\ z[12] = Bit(in, 8, k + 12) /\ z[13] = Bit(in, 8, k + 13) /\ z[14] = Bit(in, 8, k + 14) /\ z[15] = Bit(in, 8, k + 15)
    OBVIOUS
  <2>4. o = 8 * y
    OBVIOUS
  <2> HIDE DEF y, o, k, z
  <2>5. LET x == in[y + 1]
         IN  /\ Bit(in, 8, o) = (x \div 128) % 2 /\ Bit(in, 8, o + 1) = (x \div 64) % 2
             /\ Bit(in, 8, o + 2) = (x \div 32) % 2 /\ Bit(in, 8, o + 3) = (x \div 16) % 2
             /\ Bit(in, 8, o + 4) = (x \div 8) % 2 /\ Bit(in, 8, o + 5) = (x \div 4) % 2
             /\ Bit(in, 8, o + 6) = (x \div 2) % 2 /\ Bit(in, 8, o + 7) = x % 2
    BY <2>1, <2>4, BitsOfByte
  <2> QED BY <2>1, <2>2, <2>3, <2>5
<1>6. /\ z[16] = (x3 \div 128) % 2 /\ z[17] = (x3 \div 64) % 2 /\ z[18] = (x3 \div 32) % 2 /\ z[19] = (x3 \div 16) % 2
      /\ z[20] = (x3 \div 8) % 2 /\ z[21] = (x3 \div 4) % 2 /\ z[22] = (x3 \div 2) % 2 /\ z[23] = x3 % 2
  <2> DEFINE y == 5 * q + 2
             o == 8 * y
  <2>1. y \in Nat /\ y < Len(in) /\ y + 1 = 5 * q + 3 /\ in[y + 1] = x3
    OBVIOUS
  <2>2. o = k + 16 /\ o + 1 = k + 17 /\ o + 2 = k + 18 /\ o + 3 = k + 19 /\ o + 4 = k + 20 /\ o + 5 = k + 21 /\ o + 6 = k + 22 /\ o + 7 = k + 23
    OBVIOUS
  <2>3. z[16] = Bit(in, 8, k + 16) /\ z[17] = Bit(in, 8, k + 17) /\ z[18] = Bit(in, 8, k + 18) /\ z[19] = Bit(in, 8, k + 19) /\ z[20] = Bit(in, 8, k + 20) /\ z[21] = Bit(in, 8, k + 21) /\ z[22] = Bit(in, 8, k + 22) /\ z[23] = Bit(in, 8, k + 23)
    OBVIOUS
  <2>4. o = 8 * y
    OBVIOUS
  <2> HIDE DEF y, o, k, z
  <2>5. LET x == in[y + 1]
         IN  /\ Bit(in, 8, o) = (x \div 128) % 2 /\ Bit(in, 8, o + 1) = (x \div 64) % 2
             /\ Bit(in, 8, o + 2) = (x \div 32) % 2 /\ Bit(in, 8, o + 3) = (x \div 16) % 2
             /\ Bit(in, 8, o + 4) = (x \div 8) % 2 /\ Bit(in, 8, o + 5) = (x \div 4) % 2
             /\ Bit(in, 8, o + 6) = (x \div 2) % 2 /\ Bit(in, 8, o + 7) = x % 2
    BY <2>1, <2>4, BitsOfByte
  <2> QED BY <2>1, <2>2, <2>3, <2>5
<1>7. /\ z[24] = (x4 \div 128) % 2 /\ z[25] = (x4 \div 64) % 2 /\ z[26] = (x4 \div 32) % 2 /\ z[27] = (x4 \div 16) % 2
      /\ z[28] = (x4 \div 8) % 2 /\ z[29] = (x4 \div 4) % 2 /\ z[30] = (x4 \div 2) % 2 /\ z[31] = x4 % 2
  <2> DEFINE y == 5 * q + 3
             o == 8 * y
  <2>1. y \in Nat /\ y < Len(in) /\ y + 1 = 5 * q + 4 /\ in[y + 1] = x4
    OBVIOUS
  <2>2. o = k + 24 /\ o + 1 = k + 25 /\ o + 2 = k + 26 /\ o + 3 = k + 27 /\ o + 4 = k + 28 /\ o + 5 = k + 29 /\ o + 6 = k + 30 /\ o + 7 = k + 31
    OBVIOUS
  <2>3. z[24] = Bit(in, 8, k + 24) /\ z[25] = Bit(in, 8, k + 25) /\ z[26] = Bit(in, 8, k + 26) /\ z[27] = Bit(in, 8, k + 27) /\ z[28] = Bit(in, 8, k + 28) /\ z[29] = Bit(in, 8, k + 29) /\ z[30] = Bit(in, 8, k + 30) /\ z[31] = Bit(in, 8, k + 31)
    OBVIOUS
  <2>4. o = 8 * y
    OBVIOUS
  <2> HIDE DEF y, o, k, z
  <2>5. LET x == in[y + 1]
         IN  /\ Bit(in, 8, o) = (x \div 128) % 2 /\ Bit(in, 8, o + 1) = (x \div 64) % 2
             /\ Bit(in, 8, o + 2) = (x \div 32) % 2 /\ Bit(in, 8, o + 3) = (x \div 16) % 2
             /\ Bit(in, 8, o + 4) = (x \div 8) % 2 /\ Bit(in, 8, o + 5) = (x \div 4) % 2
             /\ Bit(in, 8, o + 6) = (x \div 2) % 2 /\ Bit(in, 8, o + 7) = x % 2
    BY <2>1, <2>4, BitsOfByte
  <2> QED BY <2>1, <2>2, <2>3, <2>5
<1>8. /\ z[32] = (x5 \div 128) % 2 /\ z[33] = (x5 \div 64) % 2 /\ z[34] = (x5 \div 32) % 2 /\ z[35] = (x5 \div 16) % 2
      /\ z[36] = (x5 \div 8) % 2 /\ z[37] = (x5 \div 4) % 2 /\ z[38] = (x5 \div 2) % 2 /\ z[39] = x5 % 2
  <2> DEFINE y == 5 * q + 4
             o == 8 * y
  <2>1. y \in Nat /\ y < Len(in) /\ y + 1 = 5 * q + 5 /\ in[y + 1] = x5
    OBVIOUS
  <2>2. o = k + 32 /\ o + 1 = k + 33 /\ o + 2 = k + 34 /\ o + 3 = k + 35 /\ o + 4 = k + 36 /\ o + 5 = k + 37 /\ o + 6 = k + 38 /\ o + 7 = k + 39
    OBVIOUS
  <2>3. z[32] = Bit(in, 8, k + 32) /\ z[33] = Bit(in, 8, k + 33) /\ z[34] = Bit(in, 8, k + 34) /\ z[35] = Bit(in, 8, k + 35) /\ z[36] = Bit(in, 8, k + 36) /\ z[37] = Bit(in, 8, k + 37) /\ z[38] = Bit(in, 8, k + 38) /\ z[39] = Bit(in, 8, k + 39)
    OBVIOUS
  <2>4. o = 8 * y
    OBVIOUS
  <2> HIDE DEF y, o, k, z
  <2>5. LET x == in[y + 1]
         IN  /\ Bit(in, 8, o) = (x \div 128) % 2 /\ Bit(in, 8, o + 1) = (x \div 64) % 2
             /\ Bit(in, 8, o + 2) = (x \div 32) % 2 /\ Bit(in, 8, o + 3) = (x \div 16) % 2
             /\ Bit(in, 8, o + 4) = (x \div 8) % 2 /\ Bit(in, 8, o + 5) = (x \div 4) % 2
             /\ Bit(in, 8, o + 6) = (x \div 2) % 2 /\ Bit(in, 8, o + 7) = x % 2
    BY <2>1, <2>4, BitsOfByte
  <2> QED BY <2>1, <2>2, <2>3, <2>5
<1>9. SumsAre(z, x1, x2, x3, x4, x5)
  <2> HIDE DEF z
  <2>1. DigitsOf(z, x1, x2, x3, x4, x5)
    BY <1>4, <1>5, <1>6, <1>7, <1>8 DEF DigitsOf
  <2> QED BY ZenonT(40), <1>2, <2>1, EightSums
<1>10. c[8 * q + 1] = 16 * z[0] + 8 * z[1] + 4 * z[2] + 2 * z[3] + z[4]
  <2> DEFINE h == 8 * q + 1
             o == k + 0
  <2>1. h \in 1..m /\ o \in Nat /\ o = (h - 1) * 5
    BY <1>1, <1>3
  <2>2. o = k + 0 /\ o + 1 = k + 1 /\ o + 2 = k + 2 /\ o + 3 = k + 3 /\ o + 4 = k + 4
    BY <1>1
  <2>3. z[0] = Bit(in, 8, k + 0) /\ z[1] = Bit(in, 8, k + 1) /\ z[2] = Bit(in, 8, k + 2) /\ z[3] = Bit(in, 8, k + 3) /\ z[4] = Bit(in, 8, k + 4)
    OBVIOUS
  <2> HIDE DEF h, o, k, z
  <2>4. c[h] = 16 * Bit(in, 8, o) + 8 * Bit(in, 8, o + 1) + 4 * Bit(in, 8, o + 2)
                 + 2 * Bit(in, 8, o + 3) + Bit(in, 8, o + 4)
    BY <2>1, GroupSum
  <2> HIDE DEF c
  <2>5. c[h] = 16 * z[0] + 8 * z[1] + 4 * z[2] + 2 * z[3] + z[4]
    BY <2>2, <2>3, <2>4
  <2> QED BY <2>5 DEF h
<1>11. c[8 * q + 2] = 16 * z[5] + 8 * z[6] + 4 * z[7] + 2 * z[8] + z[9]
  <2> DEFINE h == 8 * q + 2
             o == k + 5
  <2>1. h \in 1..m /\ o \in Nat /\ o = (h - 1) * 5
    BY <1>1, <1>3
  <2>2. o = k + 5 /\ o + 1 = k + 6 /\ o + 2 = k + 7 /\ o + 3 = k + 8 /\ o + 4 = k + 9
    BY <1>1
  <2>3. z[5] = Bit(in, 8, k + 5) /\ z[6] = Bit(in, 8, k + 6) /\ z[7] = Bit(in, 8, k + 7) /\ z[8] = Bit(in, 8, k + 8) /\ z[9] = Bit(in, 8, k + 9)
    OBVIOUS
  <2> HIDE DEF h, o, k, z
  <2>4. c[h] = 16 * Bit(in, 8, o) + 8 * Bit(in, 8, o + 1) + 4 * Bit(in, 8, o + 2)
                 + 2 * Bit(in, 8, o + 3) + Bit(in, 8, o + 4)
    BY <2>1, GroupSum
  <2> HIDE DEF c
  <2>5. c[h] = 16 * z[5] + 8 * z[6] + 4 * z[7] + 2 * z[8] + z[9]
    BY <2>2, <2>3, <2>4
  <2> QED BY <2>5 DEF h
<1>12. c[8 * q + 3] = 16 * z[10] + 8 * z[11] + 4 * z[12] + 2 * z[13] + z[14]
  <2> DEFINE h == 8 * q + 3
             o == k + 10
  <2>1. h \in 1..m /\ o \in Nat /\ o = (h - 1) * 5
    BY <1>1, <1>3
  <2>2. o = k + 10 /\ o + 1 = k + 11 /\ o + 2 = k + 12 /\ o + 3 = k + 13 /\ o + 4 = k + 14
    BY <1>1
  <2>3. z[10] = Bit(in, 8, k + 10) /\ z[11] = Bit(in, 8, k + 11) /\ z[12] = Bit(in, 8, k + 12) /\ z[13] = Bit(in, 8, k + 13) /\ z[14] = Bit(in, 8, k + 14)
    OBVIOUS
  <2> HIDE DEF h, o, k, z
  <2>4. c[h] = 16 * Bit(in, 8, o) + 8 * Bit(in, 8, o + 1) + 4 * Bit(in, 8, o + 2)
                 + 2 * Bit(in, 8, o + 3) + Bit(in, 8, o + 4)
    BY <2>1, GroupSum
  <2> HIDE DEF c
  <2>5. c[h] = 16 * z[10] + 8 * z[11] + 4 * z[12] + 2 * z[13] + z[14]
    BY <2>2, <2>3, <2>4
  <2> QED BY <2>5 DEF h
<1>13. c[8 * q + 4] = 16 * z[15] + 8 * z[16] + 4 * z[17] + 2 * z[18] + z[19]
  <2> DEFINE h == 8 * q + 4
             o == k + 15
  <2>1. h \in 1..m /\ o \in Nat /\ o = (h - 1) * 5
    BY <1>1, <1>3
  <2>2. o = k + 15 /\ o + 1 = k + 16 /\ o + 2 = k + 17 /\ o + 3 = k + 18 /\ o + 4 = k + 19
    BY <1>1
  <2>3. z[15] = Bit(in, 8, k + 15) /\ z[16] = Bit(in, 8, k + 16) /\ z[17] = Bit(in, 8, k + 17) /\ z[18] = Bit(in, 8, k + 18) /\ z[19] = Bit(in, 8, k + 19)
    OBVIOUS
  <2> HIDE DEF h, o, k, z
  <2>4. c[h] = 16 * Bit(in, 8, o) + 8 * Bit(in, 8, o + 1) + 4 * Bit(in, 8, o + 2)
                 + 2 * Bit(in, 8, o + 3) + Bit(in, 8, o + 4)
    BY <2>1, GroupSum
  <2> HIDE DEF c
  <2>5. c[h] = 16 * z[15] + 8 * z[16] + 4 * z[17] + 2 * z[18] + z[19]
    BY <2>2, <2>3, <2>4
  <2> QED BY <2>5 DEF h
<1>14. c[8 * q + 5] = 16 * z[20] + 8 * z[21] + 4 * z[22] + 2 * z[23] + z[24]
  <2> DEFINE h == 8 * q + 5
             o == k + 20
  <2>1. h \in 1..m /\ o \in Nat /\ o = (h - 1) * 5
    BY <1>1, <1>3
  <2>2. o = k + 20 /\ o + 1 = k + 21 /\ o + 2 = k + 22 /\ o + 3 = k + 23 /\ o + 4 = k + 24
    BY <1>1
  <2>3. z[20] = Bit(in, 8, k + 20) /\ z[21] = Bit(in, 8, k + 21) /\ z[22] = Bit(in, 8, k + 22) /\ z[23] = Bit(in, 8, k + 23) /\ z[24] = Bit(in, 8, k + 24)
    OBVIOUS
  <2> HIDE DEF h, o, k, z
  <2>4. c[h] = 16 * Bit(in, 8, o) + 8 * Bit(in, 8, o + 1) + 4 * Bit(in, 8, o + 2)
                 + 2 * Bit(in, 8, o + 3) + Bit(in, 8, o + 4)
    BY <2>1, GroupSum
  <2> HIDE DEF c
  <2>5. c[h] = 16 * z[20] + 8 * z[21] + 4 * z[22] + 2 * z[23] + z[24]
    BY <2>2, <2>3, <2>4
  <2> QED BY <2>5 DEF h
<1>15. c[8 * q + 6] = 16 * z[25] + 8 * z[26] + 4 * z[27] + 2 * z[28] + z[29]
  <2> DEFINE h == 8 * q + 6
             o == k + 25
  <2>1. h \in 1..m /\ o \in Nat /\ o = (h - 1) * 5
    BY <1>1, <1>3
  <2>2. o = k + 25 /\ o + 1 = k + 26 /\ o + 2 = k + 27 /\ o + 3 = k + 28 /\ o + 4 = k + 29
    BY <1>1
  <2>3. z[25] = Bit(in, 8, k + 25) /\ z[26] = Bit(in, 8, k + 26) /\ z[27] = Bit(in, 8, k + 27) /\ z[28] = Bit(in, 8, k + 28) /\ z[29] = Bit(in, 8, k + 29)
    OBVIOUS
  <2> HIDE DEF h, o, k, z
  <2>4. c[h] = 16 * Bit(in, 8, o) + 8 * Bit(in, 8, o + 1) + 4 * Bit(in, 8, o + 2)
                 + 2 * Bit(in, 8, o + 3) + Bit(in, 8, o + 4)
    BY <2>1, GroupSum
  <2> HIDE DEF c
  <2>5. c[h] = 16 * z[25] + 8 * z[26] + 4 * z[27] + 2 * z[28] + z[29]
    BY <2>2, <2>3, <2>4
  <2> QED BY <2>5 DEF h
<1>16. c[8 * q + 7] = 16 * z[30] + 8 * z[31] + 4 * z[32] + 2 * z[33] + z[34]
  <2> DEFINE h == 8 * q + 7
             o == k + 30
  <2>1. h \in 1..m /\ o \in Nat /\ o = (h - 1) * 5
    BY <1>1, <1>3
  <2>2. o = k + 30 /\ o + 1 = k + 31 /\ o + 2 = k + 32 /\ o + 3 = k + 33 /\ o + 4 = k + 34
    BY <1>1
  <2>3. z[30] = Bit(in, 8, k + 30) /\ z[31] = Bit(in, 8, k + 31) /\ z[32] = Bit(in, 8, k + 32) /\ z[33] = Bit(in, 8, k + 33) /\ z[34] = Bit(in, 8, k + 34)
    OBVIOUS
  <2> HIDE DEF h, o, k, z
  <2>4. c[h] = 16 * Bit(in, 8, o) + 8 * Bit(in, 8, o + 1) + 4 * Bit(in, 8, o + 2)
                 + 2 * Bit(in, 8, o + 3) + Bit(in, 8, o + 4)
    BY <2>1, GroupSum
  <2> HIDE DEF c
  <2>5. c[h] = 16 * z[30] + 8 * z[31] + 4 * z[32] + 2 * z[33] + z[34]
    BY <2>2, <2>3, <2>4
  <2> QED BY <2>5 DEF h
<1>17. c[8 * q + 8] = 16 * z[35] + 8 * z[36] + 4 * z[37] + 2 * z[38] + z[39]
  <2> DEFINE h == 8 * q + 8
             o == k + 35
  <2>1. h \in 1..m /\ o \in Nat /\ o = (h - 1) * 5
    BY <1>1, <1>3
  <2>2. o = k + 35 /\ o + 1 = k + 36 /\ o + 2 = k + 37 /\ o + 3 = k + 38 /\ o + 4 = k + 39
    BY <1>1
  <2>3. z[35] = Bit(in, 8, k + 35) /\ z[36] = Bit(in, 8, k + 36) /\ z[37] = Bit(in, 8, k + 37) /\ z[38] = Bit(in, 8, k + 38) /\ z[39] = Bit(in, 8, k + 39)
    OBVIOUS
  <2> HIDE DEF h, o, k, z
  <2>4. c[h] = 16 * Bit(in, 8, o) + 8 * Bit(in, 8, o + 1) + 4 * Bit(in, 8, o + 2)
                 + 2 * Bit(in, 8, o + 3) + Bit(in, 8, o + 4)
    BY <2>1, GroupSum
  <2> HIDE DEF c
  <2>5. c[h] = 16 * z[35] + 8 * z[36] + 4 * z[37] + 2 * z[38] + z[39]
    BY <2>2, <2>3, <2>4
  <2> QED BY <2>5 DEF h
<1>18. GroupsAre(c, 8 * q, x1, x2, x3, x4, x5)
  <2> HIDE DEF z, c
  <2> QED BY <1>9, <1>10, <1>11, <1>12, <1>13, <1>14, <1>15, <1>16, <1>17 DEF SumsAre, GroupsAre
<1> QED BY <1>3, <1>18

-----------------------------------------------------------------------------
(* The two coins.                                                          *)

(* The bytes of ZNN as groups of five bits. *)
LEMMA ZnnGroups ==
  /\ znnZtsBytes \in Seq(0..255) /\ Len(znnZtsBytes) = 10
  /\ Groups(znnZtsBytes) = <<2, 19, 19, 6, 6, 6, 6, 6, 6, 6, 6, 6, 6, 6, 6, 6>>
<1> DEFINE in == znnZtsBytes
           c == Groups(in)
<1>1. in \in Seq(0..255) /\ Len(in) = 10
  BY DEF znnZtsBytes
<1>2. /\ in[1] = 20 /\ in[2] = 230 /\ in[3] = 99 /\ in[4] = 24 /\ in[5] = 198
      /\ in[6] = 49 /\ in[7] = 140 /\ in[8] = 99 /\ in[9] = 24 /\ in[10] = 198
  BY DEF znnZtsBytes
<1> HIDE DEF in
<1>3. c \in Seq(0..31) /\ Len(c) = 16
  <2>1. c \in Seq(0..31) /\ Len(c) = (8 * Len(in) + 4) \div 5
    BY Zenon, <1>1, GroupsType
  <2> HIDE DEF c
  <2>2. (8 * 10 + 4) \div 5 = 16
    OBVIOUS
  <2> QED BY <1>1, <2>1, <2>2
<1>4. c[1] = 2 /\ c[2] = 19 /\ c[3] = 19 /\ c[4] = 6 /\ c[5] = 6 /\ c[6] = 6 /\ c[7] = 6 /\ c[8] = 6
  <2> DEFINE q == 0
  <2>1. q \in Nat /\ 5 * q + 5 <= Len(in)
    BY <1>1
  <2>2. /\ 5 * q + 1 = 1 /\ 5 * q + 2 = 2 /\ 5 * q + 3 = 3 /\ 5 * q + 4 = 4 /\ 5 * q + 5 = 5
        /\ 8 * q + 1 = 1 /\ 8 * q + 2 = 2 /\ 8 * q + 3 = 3 /\ 8 * q + 4 = 4
        /\ 8 * q + 5 = 5 /\ 8 * q + 6 = 6 /\ 8 * q + 7 = 7 /\ 8 * q + 8 = 8
    OBVIOUS
  <2> HIDE DEF q, c
  <2> DEFINE x1 == in[5 * q + 1]
             x2 == in[5 * q + 2]
             x3 == in[5 * q + 3]
             x4 == in[5 * q + 4]
             x5 == in[5 * q + 5]
  <2>3. x1 = 20 /\ x2 = 230 /\ x3 = 99 /\ x4 = 24 /\ x5 = 198
    BY <1>2, <2>2
  <2>4. /\ x1 = in[5 * q + 1] /\ x2 = in[5 * q + 2] /\ x3 = in[5 * q + 3]
        /\ x4 = in[5 * q + 4] /\ x5 = in[5 * q + 5]
    OBVIOUS
  <2> HIDE DEF x1, x2, x3, x4, x5
  <2>5. GroupsAre(c, 8 * q, x1, x2, x3, x4, x5)
    BY Zenon, <1>1, <2>1, <2>4, GroupsOfBytes DEF c
  <2> QED BY <2>2, <2>3, <2>5 DEF GroupsAre
<1>5. c[9] = 6 /\ c[10] = 6 /\ c[11] = 6 /\ c[12] = 6 /\ c[13] = 6 /\ c[14] = 6 /\ c[15] = 6 /\ c[16] = 6
  <2> DEFINE q == 1
  <2>1. q \in Nat /\ 5 * q + 5 <= Len(in)
    BY <1>1
  <2>2. /\ 5 * q + 1 = 6 /\ 5 * q + 2 = 7 /\ 5 * q + 3 = 8 /\ 5 * q + 4 = 9 /\ 5 * q + 5 = 10
        /\ 8 * q + 1 = 9 /\ 8 * q + 2 = 10 /\ 8 * q + 3 = 11 /\ 8 * q + 4 = 12
        /\ 8 * q + 5 = 13 /\ 8 * q + 6 = 14 /\ 8 * q + 7 = 15 /\ 8 * q + 8 = 16
    OBVIOUS
  <2> HIDE DEF q, c
  <2> DEFINE x1 == in[5 * q + 1]
             x2 == in[5 * q + 2]
             x3 == in[5 * q + 3]
             x4 == in[5 * q + 4]
             x5 == in[5 * q + 5]
  <2>3. x1 = 49 /\ x2 = 140 /\ x3 = 99 /\ x4 = 24 /\ x5 = 198
    BY <1>2, <2>2
  <2>4. /\ x1 = in[5 * q + 1] /\ x2 = in[5 * q + 2] /\ x3 = in[5 * q + 3]
        /\ x4 = in[5 * q + 4] /\ x5 = in[5 * q + 5]
    OBVIOUS
  <2> HIDE DEF x1, x2, x3, x4, x5
  <2>5. GroupsAre(c, 8 * q, x1, x2, x3, x4, x5)
    BY Zenon, <1>1, <2>1, <2>4, GroupsOfBytes DEF c
  <2> QED BY <2>2, <2>3, <2>5 DEF GroupsAre
<1>6. \A i \in 1..16 : c[i] = <<2, 19, 19, 6, 6, 6, 6, 6, 6, 6, 6, 6, 6, 6, 6, 6>>[i]
  <2> HIDE DEF c
  <2>1. \A i \in 1..16 : i \in {1, 2, 3, 4, 5, 6, 7, 8, 9, 10, 11, 12, 13, 14, 15, 16}
    OBVIOUS
  <2> QED BY <2>1, <1>4, <1>5
<1>7. c = <<2, 19, 19, 6, 6, 6, 6, 6, 6, 6, 6, 6, 6, 6, 6, 6>>
  <2> HIDE DEF c
  <2> QED BY <1>3, <1>6
<1> QED BY <1>1, <1>7 DEF in

(* The bytes of QSR as groups of five bits. *)
LEMMA QsrGroups ==
  /\ znnQsrBytes \in Seq(0..255) /\ Len(znnQsrBytes) = 10
  /\ Groups(znnQsrBytes) = <<0, 16, 3, 6, 6, 6, 6, 6, 6, 6, 6, 6, 6, 6, 6, 6>>
<1> DEFINE in == znnQsrBytes
           c == Groups(in)
<1>1. in \in Seq(0..255) /\ Len(in) = 10
  BY DEF znnQsrBytes
<1>2. /\ in[1] = 4 /\ in[2] = 6 /\ in[3] = 99 /\ in[4] = 24 /\ in[5] = 198
      /\ in[6] = 49 /\ in[7] = 140 /\ in[8] = 99 /\ in[9] = 24 /\ in[10] = 198
  BY DEF znnQsrBytes
<1> HIDE DEF in
<1>3. c \in Seq(0..31) /\ Len(c) = 16
  <2>1. c \in Seq(0..31) /\ Len(c) = (8 * Len(in) + 4) \div 5
    BY Zenon, <1>1, GroupsType
  <2> HIDE DEF c
  <2>2. (8 * 10 + 4) \div 5 = 16
    OBVIOUS
  <2> QED BY <1>1, <2>1, <2>2
<1>4. c[1] = 0 /\ c[2] = 16 /\ c[3] = 3 /\ c[4] = 6 /\ c[5] = 6 /\ c[6] = 6 /\ c[7] = 6 /\ c[8] = 6
  <2> DEFINE q == 0
  <2>1. q \in Nat /\ 5 * q + 5 <= Len(in)
    BY <1>1
  <2>2. /\ 5 * q + 1 = 1 /\ 5 * q + 2 = 2 /\ 5 * q + 3 = 3 /\ 5 * q + 4 = 4 /\ 5 * q + 5 = 5
        /\ 8 * q + 1 = 1 /\ 8 * q + 2 = 2 /\ 8 * q + 3 = 3 /\ 8 * q + 4 = 4
        /\ 8 * q + 5 = 5 /\ 8 * q + 6 = 6 /\ 8 * q + 7 = 7 /\ 8 * q + 8 = 8
    OBVIOUS
  <2> HIDE DEF q, c
  <2> DEFINE x1 == in[5 * q + 1]
             x2 == in[5 * q + 2]
             x3 == in[5 * q + 3]
             x4 == in[5 * q + 4]
             x5 == in[5 * q + 5]
  <2>3. x1 = 4 /\ x2 = 6 /\ x3 = 99 /\ x4 = 24 /\ x5 = 198
    BY <1>2, <2>2
  <2>4. /\ x1 = in[5 * q + 1] /\ x2 = in[5 * q + 2] /\ x3 = in[5 * q + 3]
        /\ x4 = in[5 * q + 4] /\ x5 = in[5 * q + 5]
    OBVIOUS
  <2> HIDE DEF x1, x2, x3, x4, x5
  <2>5. GroupsAre(c, 8 * q, x1, x2, x3, x4, x5)
    BY Zenon, <1>1, <2>1, <2>4, GroupsOfBytes DEF c
  <2> QED BY <2>2, <2>3, <2>5 DEF GroupsAre
<1>5. c[9] = 6 /\ c[10] = 6 /\ c[11] = 6 /\ c[12] = 6 /\ c[13] = 6 /\ c[14] = 6 /\ c[15] = 6 /\ c[16] = 6
  <2> DEFINE q == 1
  <2>1. q \in Nat /\ 5 * q + 5 <= Len(in)
    BY <1>1
  <2>2. /\ 5 * q + 1 = 6 /\ 5 * q + 2 = 7 /\ 5 * q + 3 = 8 /\ 5 * q + 4 = 9 /\ 5 * q + 5 = 10
        /\ 8 * q + 1 = 9 /\ 8 * q + 2 = 10 /\ 8 * q + 3 = 11 /\ 8 * q + 4 = 12
        /\ 8 * q + 5 = 13 /\ 8 * q + 6 = 14 /\ 8 * q + 7 = 15 /\ 8 * q + 8 = 16
    OBVIOUS
  <2> HIDE DEF q, c
  <2> DEFINE x1 == in[5 * q + 1]
             x2 == in[5 * q + 2]
             x3 == in[5 * q + 3]
             x4 == in[5 * q + 4]
             x5 == in[5 * q + 5]
  <2>3. x1 = 49 /\ x2 = 140 /\ x3 = 99 /\ x4 = 24 /\ x5 = 198
    BY <1>2, <2>2
  <2>4. /\ x1 = in[5 * q + 1] /\ x2 = in[5 * q + 2] /\ x3 = in[5 * q + 3]
        /\ x4 = in[5 * q + 4] /\ x5 = in[5 * q + 5]
    OBVIOUS
  <2> HIDE DEF x1, x2, x3, x4, x5
  <2>5. GroupsAre(c, 8 * q, x1, x2, x3, x4, x5)
    BY Zenon, <1>1, <2>1, <2>4, GroupsOfBytes DEF c
  <2> QED BY <2>2, <2>3, <2>5 DEF GroupsAre
<1>6. \A i \in 1..16 : c[i] = <<0, 16, 3, 6, 6, 6, 6, 6, 6, 6, 6, 6, 6, 6, 6, 6>>[i]
  <2> HIDE DEF c
  <2>1. \A i \in 1..16 : i \in {1, 2, 3, 4, 5, 6, 7, 8, 9, 10, 11, 12, 13, 14, 15, 16}
    OBVIOUS
  <2> QED BY <2>1, <1>4, <1>5
<1>7. c = <<0, 16, 3, 6, 6, 6, 6, 6, 6, 6, 6, 6, 6, 6, 6, 6>>
  <2> HIDE DEF c
  <2> QED BY <1>3, <1>6
<1> QED BY <1>1, <1>7 DEF in

CoinBytes(zts) == IF zts = "ZNN" THEN znnZtsBytes ELSE znnQsrBytes

(* After "zts1" the name of a coin has the characters of its bytes. *)
LEMMA CoinTextShape ==
  ASSUME NEW zts \in Coins
  PROVE  LET text == CoinText(zts)
             g == Groups(CoinBytes(zts))
         IN  /\ text \in Seq(Nat) /\ Len(text) = 20
             /\ \A i \in 1..3 : text[i] = HRP_TOKEN[i]
             /\ text[4] = ONE
             /\ \A i \in 1..16 : text[4 + i] = charset[g[i] + 1]
<1> DEFINE a == HRP_TOKEN
           b == <<ONE>>
           c == IF zts = "ZNN" THEN <<122, 110, 110>> ELSE <<113, 115, 114>>
           d == [i \in 1..13 |-> 120]
           one == 1
           three == 3
           thirteen == 13
           t1 == a \o b
           t2 == t1 \o c
           t3 == t2 \o d
           g == Groups(CoinBytes(zts))
<1>1. /\ a \in Seq(Nat) /\ three = Len(a) /\ b \in Seq(Nat) /\ one = Len(b)
      /\ c \in Seq(Nat) /\ three = Len(c) /\ b[1] = ONE
  BY DEF HRP_TOKEN, ONE
<1>2. d \in Seq(Nat) /\ thirteen = Len(d)
  <2>1. d \in [1..thirteen -> Nat] /\ thirteen \in Nat
    OBVIOUS
  <2> HIDE DEF thirteen, d
  <2> QED BY <2>1, FunctionIsSeq
<1>3. \A i \in 1..13 : d[i] = 120
  OBVIOUS
<1>4. CoinText(zts) = t3
  BY DEF CoinText
<1> HIDE DEF a, b, d, one, three, thirteen
<1>5. IsJoined(t1, Nat, a, three, b, one)
  <2>1. t1 = a \o b
    OBVIOUS
  <2> HIDE DEF t1, c
  <2> QED BY Zenon, <1>1, <2>1, Joined
<1> HIDE DEF t1
<1>6. t1 \in Seq(Nat) /\ Len(t1) = three + one
  BY <1>5 DEF IsJoined
<1>7. IsJoined(t2, Nat, t1, three + one, c, three)
  <2>1. t2 = t1 \o c
    OBVIOUS
  <2> HIDE DEF t2, c
  <2> QED BY Zenon, <1>1, <1>6, <2>1, Joined
<1> HIDE DEF t2
<1>8. t2 \in Seq(Nat) /\ Len(t2) = (three + one) + three
  BY <1>7 DEF IsJoined
<1>9. IsJoined(t3, Nat, t2, (three + one) + three, d, thirteen)
  <2>1. t3 = t2 \o d
    OBVIOUS
  <2> HIDE DEF t3, c
  <2> QED BY Zenon, <1>2, <1>8, <2>1, Joined
<1> HIDE DEF t3
<1>10. three = 3 /\ one = 1 /\ thirteen = 13 /\ three + one = 4 /\ (three + one) + three = 7
  BY DEF three, one, thirteen
<1>11. t3 \in Seq(Nat) /\ Len(t3) = 20
  <2>1. Len(t3) = 7 + 13
    BY <1>9, <1>10 DEF IsJoined
  <2> QED BY <2>1, <1>9 DEF IsJoined
<1>12. /\ \A i \in 1..7 : t3[i] = t2[i]
       /\ \A i \in 1..13 : t3[7 + i] = d[i]
       /\ \A i \in 1..4 : t2[i] = t1[i]
       /\ \A i \in 1..3 : t2[4 + i] = c[i]
       /\ \A i \in 1..3 : t1[i] = a[i]
       /\ \A i \in 1..1 : t1[3 + i] = b[i]
  <2> HIDE DEF c
  <2> QED BY <1>5, <1>7, <1>9, <1>10 DEF IsJoined
<1>13. \A i \in 1..3 : t3[i] = a[i]
  <2> TAKE i \in 1..3
  <2>1. i \in 1..7 /\ i \in 1..4
    OBVIOUS
  <2> QED BY <2>1, <1>12
<1>14. t3[4] = ONE
  <2>1. 4 \in 1..7 /\ 4 \in 1..4 /\ 1 \in 1..1 /\ 3 + 1 = 4
    OBVIOUS
  <2> HIDE DEF c
  <2>2. t1[3 + 1] = b[1]
    BY <1>12, <2>1
  <2>3. t3[4] = t2[4]
    BY <1>12, <2>1
  <2>4. t2[4] = t1[4]
    BY <1>12, <2>1
  <2>5. t1[4] = b[1]
    BY <2>1, <2>2
  <2>6. b[1] = ONE
    BY <1>1
  <2> QED BY <2>3, <2>4, <2>5, <2>6
<1>15. \A i \in 1..3 : t3[4 + i] = c[i]
  <2> TAKE i \in 1..3
  <2>1. 4 + i \in 1..7
    OBVIOUS
  <2> HIDE DEF c
  <2> QED BY <2>1, <1>12
<1>16. \A i \in 4..16 : t3[4 + i] = 120
  <2> TAKE i \in 4..16
  <2> DEFINE j == i - 3
  <2>1. j \in 1..13 /\ 4 + i = 7 + j
    OBVIOUS
  <2> HIDE DEF j
  <2> QED BY <2>1, <1>3, <1>12
<1>17. /\ g[1] \in 0..31 /\ \A i \in 4..16 : g[i] = 6
       /\ charset[g[1] + 1] = c[1] /\ charset[g[2] + 1] = c[2] /\ charset[g[3] + 1] = c[3]
  <2>1. CASE zts = "ZNN"
    <3>1. g = <<2, 19, 19, 6, 6, 6, 6, 6, 6, 6, 6, 6, 6, 6, 6, 6>>
      BY <2>1, ZnnGroups DEF CoinBytes
    <3> HIDE DEF g
    <3>2. g[1] = 2 /\ g[2] = 19 /\ g[3] = 19
      BY <3>1
    <3>3. \A i \in 4..16 : g[i] = 6
      <4>1. \A i \in 4..16 : i \in {4, 5, 6, 7, 8, 9, 10, 11, 12, 13, 14, 15, 16}
        OBVIOUS
      <4> QED BY <3>1, <4>1
    <3>4. c[1] = 122 /\ c[2] = 110 /\ c[3] = 110
      BY <2>1
    <3> HIDE DEF c
    <3> QED BY <3>2, <3>3, <3>4, CharsetValues
  <2>2. CASE zts = "QSR"
    <3>1. g = <<0, 16, 3, 6, 6, 6, 6, 6, 6, 6, 6, 6, 6, 6, 6, 6>>
      BY <2>2, QsrGroups DEF CoinBytes
    <3> HIDE DEF g
    <3>2. g[1] = 0 /\ g[2] = 16 /\ g[3] = 3
      BY <3>1
    <3>3. \A i \in 4..16 : g[i] = 6
      <4>1. \A i \in 4..16 : i \in {4, 5, 6, 7, 8, 9, 10, 11, 12, 13, 14, 15, 16}
        OBVIOUS
      <4> QED BY <3>1, <4>1
    <3>4. c[1] = 113 /\ c[2] = 115 /\ c[3] = 114
      BY <2>2
    <3> HIDE DEF c
    <3> QED BY <3>2, <3>3, <3>4, CharsetValues
  <2> QED BY <2>1, <2>2 DEF Coins
<1>18. \A i \in 1..16 : t3[4 + i] = charset[g[i] + 1]
  <2> HIDE DEF c, g
  <2> TAKE i \in 1..16
  <2>1. CASE i \in 4..16
    <3>1. g[i] = 6 /\ t3[4 + i] = 120
      BY <2>1, <1>16, <1>17
    <3>2. charset[6 + 1] = 120
      BY CharsetValues
    <3> QED BY <3>1, <3>2
  <2>2. CASE i \in {1, 2, 3}
    <3>1. t3[4 + i] = c[i]
      BY <2>2, <1>15
    <3> QED BY <2>2, <3>1, <1>17
  <2> QED BY <2>1, <2>2
<1> HIDE DEF g, c
<1>19. \A i \in 1..3 : CoinText(zts)[i] = HRP_TOKEN[i]
  BY <1>4, <1>13 DEF a
<1> QED BY <1>4, <1>11, <1>14, <1>18, <1>19 DEF g

(* token_standard_type takes for a coin the bytes of the coin. *)
LEMMA CoinOfBytes ==
  ASSUME NEW bytes, NEW zts \in Coins
  PROVE  token_standard_type(bytes) = zts <=> bytes = CoinBytes(zts)
<1>1. znnZtsBytes # znnQsrBytes
  <2>1. znnZtsBytes[1] = 20 /\ znnQsrBytes[1] = 4
    BY DEF znnZtsBytes, znnQsrBytes
  <2> QED BY <2>1
<1> QED BY <1>1 DEF token_standard_type, CoinBytes, Coins

(* Two programs with the same groups are the same. *)
LEMMA GroupsInjective ==
  ASSUME NEW p \in Seq(0..255), NEW q \in Seq(0..255), Groups(p) = Groups(q)
  PROVE  p = q
<1>1. convert_bits(8, Groups(p), 5, FALSE) = p
  BY Zenon, RegroupsBack DEF Groups
<1>2. convert_bits(8, Groups(q), 5, FALSE) = q
  BY Zenon, RegroupsBack DEF Groups
<1> HIDE DEF Groups
<1> QED BY Zenon, <1>1, <1>2

(* A sequence is a prefix when its elements are the first ones of the      *)
(* other.                                                                  *)
LEMMA PrefixByElement ==
  ASSUME NEW S, NEW s \in Seq(S), NEW T, NEW t \in Seq(T), NEW n \in Nat, n = Len(s), n <= Len(t)
  PROVE  IsPrefix(s, t) <=> \A i \in 1..n : s[i] = t[i]
<1>1. SubSeq(s, 1, n) = [i \in 1..n |-> s[i]]
  OBVIOUS
<1>2. SubSeq(t, 1, n) = [i \in 1..n |-> t[i]]
  OBVIOUS
<1>3. IsPrefix(s, t) <=> SubSeq(s, 1, n) = SubSeq(t, 1, n)
  BY DEF IsPrefix
<1>4. ASSUME [i \in 1..n |-> s[i]] = [i \in 1..n |-> t[i]], NEW i \in 1..n PROVE s[i] = t[i]
  <2>1. [j \in 1..n |-> s[j]][i] = [j \in 1..n |-> t[j]][i]
    BY <1>4
  <2> QED BY <2>1
<1> QED BY <1>1, <1>2, <1>3, <1>4

HasShape(text, hrp, data, all, h) ==
  /\ text \in Seq(HrpCharacters) /\ Len(text) = h + 7 + Len(data)
  /\ Len(all) = Len(data) + 6
  /\ \A i \in 1..h : text[i] = hrp[i]
  /\ text[h + 1] = ONE
  /\ \A i \in 1..Len(all) : text[(h + 1) + i] = charset[all[i] + 1]

(* The shape of a text, by name. *)
LEMMA TextHasShape ==
  ASSUME NEW hrp \in Seq(HrpCharacters), NEW data \in Seq(0..31), NEW enc
  PROVE  HasShape(TextOf(hrp, data, enc), hrp, data, data \o ChecksumOf(hrp, data, enc),
                  Len(hrp))
BY TextShape DEF HasShape

PrefixIsElementwise(s, t, n) == IsPrefix(s, t) <=> \A i \in 1..n : s[i] = t[i]

(* PrefixByElement, by name. *)
LEMMA PrefixElementwise ==
  ASSUME NEW S, NEW s \in Seq(S), NEW T, NEW t \in Seq(T), NEW n \in Nat, n = Len(s), n <= Len(t)
  PROVE  PrefixIsElementwise(s, t, n)
BY PrefixByElement DEF PrefixIsElementwise

(* The invariant makes a text that begins with the name of a coin that     *)
(* coin.                                                                   *)
LEMMA TextsNameCoins == Texts => CoinsAreNamedInTheirText
<1> SUFFICES ASSUME Texts, phase # "given", IsToken, NEW zts \in Coins
             PROVE  token_standard_type(prog) = zts <=> IsPrefix(CoinText(zts), shown)
  BY DEF CoinsAreNamedInTheirText
<1> DEFINE ct == CoinText(zts)
           coin == CoinBytes(zts)
           g == Groups(coin)
           p == Groups(prog)
           cs == ChecksumOf(HRP_TOKEN, p, "BECH32")
           all == p \o cs
<1>1. Given /\ shown = TextShown /\ ~Versioned
  BY DEF Texts, IsToken
<1>2. prog \in Seq(0..255) /\ Bytes = prog /\ Len(prog) = 10
  BY <1>1, PlainPrograms
<1>3. shown = TextOf(HRP_TOKEN, p, "BECH32")
  BY <1>1, <1>2, PlainTexts DEF Hrp
<1>4. coin \in Seq(0..255) /\ Len(coin) = 10
  BY ZnnGroups, QsrGroups DEF CoinBytes
<1>5. p \in Seq(0..31) /\ Len(p) = 16 /\ g \in Seq(0..31) /\ Len(g) = 16
  <2>1. (8 * 10 + 4) \div 5 = 16
    OBVIOUS
  <2> HIDE DEF coin
  <2> QED BY Zenon, <1>2, <1>4, <2>1, GroupsType
<1> HIDE DEF g, p, coin
<1>6. /\ shown \in Seq(HrpCharacters) /\ Len(shown) = 3 + 7 + 16 /\ Len(all) = 16 + 6
      /\ \A i \in 1..3 : shown[i] = HRP_TOKEN[i]
      /\ shown[3 + 1] = ONE
      /\ \A i \in 1..Len(all) : shown[(3 + 1) + i] = charset[all[i] + 1]
  <2> DEFINE hrp == HRP_TOKEN
             h == Len(hrp)
             enc == "BECH32"
  <2>1. hrp \in Seq(HrpCharacters) /\ h = 3
    BY HrpsAreProper
  <2>2. /\ shown \in Seq(HrpCharacters) /\ Len(shown) = h + 7 + Len(p)
        /\ Len(all) = Len(p) + 6
        /\ \A i \in 1..h : shown[i] = hrp[i]
        /\ shown[h + 1] = ONE
        /\ \A i \in 1..Len(all) : shown[(h + 1) + i] = charset[all[i] + 1]
    <3>1. all = p \o ChecksumOf(hrp, p, enc) /\ shown = TextOf(hrp, p, enc)
      BY <1>3
    <3>2. p \in Seq(0..31)
      BY <1>5
    <3>3. h = Len(hrp)
      OBVIOUS
    <3> HIDE DEF enc, hrp, cs, all, h
    <3>4. HasShape(TextOf(hrp, p, enc), hrp, p, p \o ChecksumOf(hrp, p, enc), Len(hrp))
      BY <3>2, <2>1, TextHasShape
    <3>5. HasShape(shown, hrp, p, all, h)
      BY <3>1, <3>3, <3>4
    <3> QED BY <3>5 DEF HasShape
  <2> HIDE DEF all, h
  <2> QED BY <2>1, <2>2, <1>5
<1>7. ASSUME NEW i \in 1..16 PROVE shown[4 + i] = charset[p[i] + 1]
  <2>1. cs \in Seq(0..31)
    BY ChecksumType
  <2>2. \A j \in 1..Len(p) : all[j] = p[j]
    <3> DEFINE S == 0..31
    <3>1. p \in Seq(S) /\ cs \in Seq(S)
      BY <1>5, <2>1
    <3> HIDE DEF S, cs
    <3> QED BY <3>1, Concatenation
  <2>3. all[i] = p[i] /\ i \in 1..Len(all) /\ (3 + 1) + i = 4 + i
    <3> HIDE DEF all
    <3>1. i \in 1..Len(p) /\ i \in 1..Len(all)
      BY <1>5, <1>6
    <3>2. all[i] = p[i]
      BY <2>2, <3>1
    <3>3. (3 + 1) + i = 4 + i
      OBVIOUS
    <3> QED BY <3>1, <3>2, <3>3
  <2> HIDE DEF all
  <2> QED BY Zenon, <2>3, <1>6
<1>8. /\ ct \in Seq(Nat) /\ Len(ct) = 20
      /\ \A i \in 1..3 : ct[i] = HRP_TOKEN[i]
      /\ ct[4] = ONE
      /\ \A i \in 1..16 : ct[4 + i] = charset[g[i] + 1]
  BY CoinTextShape DEF g, coin
<1> HIDE DEF ct, all
<1>9. IsPrefix(ct, shown) <=> \A i \in 1..20 : ct[i] = shown[i]
  <2> DEFINE n == 20
  <2>1. n \in Nat /\ n = Len(ct) /\ n <= Len(shown)
    BY <1>6, <1>8
  <2> HIDE DEF n
  <2>2. PrefixIsElementwise(ct, shown, n)
    <3>1. ct \in Seq(Nat)
      BY <1>8
    <3>2. shown \in Seq(HrpCharacters)
      BY <1>6
    <3> QED BY <3>1, <3>2, <2>1, PrefixElementwise
  <2> QED BY <2>2 DEF n, PrefixIsElementwise
<1>10. \A i \in 1..16 : p[i] \in 0..31 /\ g[i] \in 0..31
  BY Zenon, <1>5, ByteElements, 31 \in Nat
<1>11. ASSUME \A i \in 1..20 : ct[i] = shown[i], NEW i \in 1..16 PROVE p[i] = g[i]
  <2> DEFINE x == p[i]
             y == g[i]
  <2>1. ct[4 + i] = shown[4 + i]
    <3>1. 4 + i \in 1..20
      OBVIOUS
    <3> QED BY <3>1, <1>11
  <2>2. charset[x + 1] = charset[y + 1]
    BY Zenon, <2>1, <1>7, <1>8
  <2>3. x \in 0..31 /\ y \in 0..31
    BY <1>10
  <2> HIDE DEF x, y
  <2>4. x + 1 \in 1..32 /\ y + 1 \in 1..32
    BY <2>3
  <2>5. x + 1 = y + 1
    BY <2>2, <2>4, CharsetDistinct
  <2>6. x = y
    BY <2>3, <2>5
  <2> QED BY <2>6 DEF x, y
<1>12. ASSUME p = g, NEW i \in 1..20 PROVE ct[i] = shown[i]
  <2>1. CASE i \in 1..3
    BY Zenon, <2>1, <1>6, <1>8
  <2>2. CASE i = 4
    <3>1. shown[4] = ONE
      <4>1. 3 + 1 = 4
        OBVIOUS
      <4> QED BY <1>6, <4>1
    <3> QED BY <2>2, <3>1, <1>8
  <2>3. CASE i \in 5..20
    <3> DEFINE j == i - 4
    <3>1. j \in 1..16 /\ i = 4 + j
      BY <2>3
    <3> HIDE DEF j
    <3> QED BY Zenon, <3>1, <1>7, <1>8, <1>12
  <2> QED BY <2>1, <2>2, <2>3
<1>13. ASSUME \A i \in 1..16 : p[i] = g[i] PROVE p = g
  <2> DEFINE n == 16
  <2>1. n = Len(p) /\ n = Len(g) /\ \A i \in 1..n : p[i] = g[i]
    BY <1>5, <1>13
  <2> HIDE DEF n
  <2>2. p = [i \in 1..n |-> p[i]] /\ g = [i \in 1..n |-> g[i]]
    BY <1>5, <2>1, SeqIsFunction
  <2> QED BY Zenon, <2>1, <2>2
<1>14. p = g <=> prog = coin
  BY <1>2, <1>4, GroupsInjective DEF p, g
<1>15. token_standard_type(prog) = zts <=> prog = coin
  BY CoinOfBytes DEF coin
<1> QED BY <1>9, <1>11, <1>12, <1>13, <1>14, <1>15 DEF ct

(* A token is taken for ZNN or QSR by token_standard_type exactly when the *)
(* text shown for it begins with the name of that coin, for all ten bytes. *)
THEOREM SpecCoinsAreNamedInTheirText == Spec => []CoinsAreNamedInTheirText
BY SpecTexts, TextsNameCoins, PTL

-----------------------------------------------------------------------------
(* A slip is refused.  The words of two sequences of values that agree but *)
(* at two neighbouring places differ, after these, in their last two       *)
(* symbols.  Equal values carry that difference on by the step of the      *)
(* checksum, which is linear and injective: it never becomes empty.  And   *)
(* it never becomes what the constants of Bech32 and Bech32m differ in:    *)
(* that word's predecessors all have other bits, as far back as a text is  *)
(* long.  So an accepted copy of the same length has the same values.      *)

(* One step of the checksum: bit i of the next word, by the five           *)
(* generators the top bits choose and by the bit five places below.        *)
Xor(p, q) == (p /\ ~q) \/ (q /\ ~p)
Flip(p, q, r, s, t, u) == Xor(Xor(Xor(Xor(Xor(p, q), r), s), t), u)
Chosen(pre, i, k) == k + 25 \in pre /\ i \in GENERATOR[k + 1]
StepHas(pre, i) ==
  Flip(Chosen(pre, i, 0), Chosen(pre, i, 1), Chosen(pre, i, 2), Chosen(pre, i, 3),
       Chosen(pre, i, 4), i - 5 \in pre)

(* The number a truth value counts for. *)
One(p) == IF p THEN 1 ELSE 0

(* A set of numbers up to n has one element more than without n, or the    *)
(* same.                                                                   *)
LEMMA OneLess ==
  ASSUME NEW n \in Nat, NEW S \in SUBSET (0..n)
  PROVE  /\ S \ {n} \in SUBSET (0..n - 1)
         /\ Cardinality(S) = Cardinality(S \ {n}) + One(n \in S)
<1>1. IsFiniteSet(0..n)
  BY FS_Interval
<1>2. IsFiniteSet(S)
  BY Zenon, <1>1, FS_Subset
<1>3. Cardinality(S \ {n}) = IF n \in S THEN Cardinality(S) - 1 ELSE Cardinality(S)
  BY Zenon, <1>2, FS_RemoveElement
<1>4. Cardinality(S) \in Nat
  BY <1>2, FS_CardinalityType
<1> QED BY <1>3, <1>4 DEF One

(* A set of numbers below 5 has as many elements as it has of the five. *)
LEMMA CardinalityOfFive ==
  ASSUME NEW S \in SUBSET (0..4)
  PROVE  Cardinality(S) = One(0 \in S) + One(1 \in S) + One(2 \in S) + One(3 \in S) + One(4 \in S)
<1> DEFINE S3 == S \ {4}
           S2 == S3 \ {3}
           S1 == S2 \ {2}
           S0 == S1 \ {1}
           N == S0 \ {0}
<1>1. S3 \in SUBSET (0..3) /\ Cardinality(S) = Cardinality(S3) + One(4 \in S)
  <2>1. 4 \in Nat /\ 4 - 1 = 3
    OBVIOUS
  <2> QED BY <2>1, OneLess
<1>2. S2 \in SUBSET (0..2) /\ Cardinality(S3) = Cardinality(S2) + One(3 \in S3)
  <2>1. 3 \in Nat /\ 3 - 1 = 2
    OBVIOUS
  <2> HIDE DEF S3
  <2> QED BY <2>1, <1>1, OneLess
<1>3. S1 \in SUBSET (0..1) /\ Cardinality(S2) = Cardinality(S1) + One(2 \in S2)
  <2>1. 2 \in Nat /\ 2 - 1 = 1
    OBVIOUS
  <2> HIDE DEF S2
  <2> QED BY <2>1, <1>2, OneLess
<1>4. S0 \in SUBSET (0..0) /\ Cardinality(S1) = Cardinality(S0) + One(1 \in S1)
  <2>1. 1 \in Nat /\ 1 - 1 = 0
    OBVIOUS
  <2> HIDE DEF S1
  <2> QED BY <2>1, <1>3, OneLess
<1>5. Cardinality(S0) = Cardinality(N) + One(0 \in S0)
  <2>1. 0 \in Nat
    OBVIOUS
  <2> HIDE DEF S0
  <2> QED BY <2>1, <1>4, OneLess
<1>6. N = {}
  <2> HIDE DEF S0
  <2> QED BY <1>4
<1>7. Cardinality(N) = 0
  BY <1>6, FS_EmptySet
<1>8. (3 \in S3 <=> 3 \in S) /\ (2 \in S2 <=> 2 \in S) /\ (1 \in S1 <=> 1 \in S) /\ (0 \in S0 <=> 0 \in S)
  OBVIOUS
<1> HIDE DEF S3, S2, S1, S0, N
<1>9. \A k : One(k \in S) \in {0, 1}
  BY DEF One
<1>10. One(3 \in S3) = One(3 \in S) /\ One(2 \in S2) = One(2 \in S) /\ One(1 \in S1) = One(1 \in S)
       /\ One(0 \in S0) = One(0 \in S)
  BY <1>8 DEF One
<1>11. Cardinality(S0) = One(0 \in S)
  BY <1>5, <1>7, <1>9, <1>10
<1> QED BY <1>1, <1>2, <1>3, <1>4, <1>9, <1>10, <1>11

(* A count of six is odd exactly when their exclusive disjunction holds. *)
LEMMA OddOfSix ==
  ASSUME NEW p \in BOOLEAN, NEW q \in BOOLEAN, NEW r \in BOOLEAN,
         NEW s \in BOOLEAN, NEW t \in BOOLEAN, NEW u \in BOOLEAN
  PROVE  (One(p) + One(q) + One(r) + One(s) + One(t) + One(u)) % 2 = 1 <=> Flip(p, q, r, s, t, u)
BY DEF One, Flip, Xor

(* A bit of the next word is set exactly when an odd number of its sources *)
(* is.                                                                     *)
LEMMA StepBit ==
  ASSUME NEW pre \in SUBSET (0..29), NEW i \in 0..29
  PROVE  i \in bech32_polymod_step[pre] <=> StepHas(pre, i)
<1> DEFINE generators(j) == {k \in 0..4 : k + 25 \in pre /\ j \in GENERATOR[k + 1]}
           ones(j) == Cardinality(generators(j)) + IF j - 5 \in pre THEN 1 ELSE 0
           S == generators(i)
<1>1. i \in bech32_polymod_step[pre] <=> ones(i) % 2 = 1
  BY DEF bech32_polymod_step
<1>2. S \in SUBSET (0..4) /\ \A k \in 0..4 : k \in S <=> Chosen(pre, i, k)
  BY DEF Chosen
<1>3. ones(i) = Cardinality(S) + One(i - 5 \in pre)
  BY DEF One
<1> HIDE DEF S, ones
<1>4. Cardinality(S) = One(0 \in S) + One(1 \in S) + One(2 \in S) + One(3 \in S) + One(4 \in S)
  BY <1>2, CardinalityOfFive
<1>5. /\ One(0 \in S) = One(Chosen(pre, i, 0)) /\ One(1 \in S) = One(Chosen(pre, i, 1))
      /\ One(2 \in S) = One(Chosen(pre, i, 2)) /\ One(3 \in S) = One(Chosen(pre, i, 3))
      /\ One(4 \in S) = One(Chosen(pre, i, 4))
  BY <1>2 DEF One
<1>6. \A k : Chosen(pre, i, k) \in BOOLEAN
  BY DEF Chosen
<1>7. (i - 5 \in pre) \in BOOLEAN
  OBVIOUS
<1> DEFINE sum == One(Chosen(pre, i, 0)) + One(Chosen(pre, i, 1)) + One(Chosen(pre, i, 2))
                    + One(Chosen(pre, i, 3)) + One(Chosen(pre, i, 4)) + One(i - 5 \in pre)
<1>8. sum % 2 = 1 <=> StepHas(pre, i)
  <2>1. /\ Chosen(pre, i, 0) \in BOOLEAN /\ Chosen(pre, i, 1) \in BOOLEAN
        /\ Chosen(pre, i, 2) \in BOOLEAN /\ Chosen(pre, i, 3) \in BOOLEAN
        /\ Chosen(pre, i, 4) \in BOOLEAN
    BY Zenon, <1>6
  <2>2. ASSUME NEW p \in BOOLEAN, NEW q \in BOOLEAN, NEW r \in BOOLEAN,
         NEW s \in BOOLEAN,
               NEW t \in BOOLEAN, NEW u \in BOOLEAN,
               p = Chosen(pre, i, 0), q = Chosen(pre, i, 1), r = Chosen(pre, i, 2),
               s = Chosen(pre, i, 3), t = Chosen(pre, i, 4), u = (i - 5 \in pre)
        PROVE  sum % 2 = 1 <=> StepHas(pre, i)
    <3>1. (One(p) + One(q) + One(r) + One(s) + One(t) + One(u)) % 2 = 1 <=> Flip(p, q, r, s, t, u)
      BY OddOfSix
    <3> QED BY Zenon, <3>1, <2>2 DEF StepHas
  <2> QED BY Zenon, <2>1, <2>2, <1>7
<1>9. ones(i) = sum
  <2> HIDE DEF S
  <2> QED BY Zenon, <1>3, <1>4, <1>5
<1> QED BY Zenon, <1>1, <1>8, <1>9

(* The weights of thirty bits. *)
LEMMA PowersOfTwo ==
  /\ 2 ^ 0 = 1 /\ 2 ^ 1 = 2 /\ 2 ^ 2 = 4 /\ 2 ^ 3 = 8 /\ 2 ^ 4 = 16
  /\ 2 ^ 5 = 32 /\ 2 ^ 6 = 64 /\ 2 ^ 7 = 128 /\ 2 ^ 8 = 256 /\ 2 ^ 9 = 512
  /\ 2 ^ 10 = 1024 /\ 2 ^ 11 = 2048 /\ 2 ^ 12 = 4096 /\ 2 ^ 13 = 8192 /\ 2 ^ 14 = 16384
  /\ 2 ^ 15 = 32768 /\ 2 ^ 16 = 65536 /\ 2 ^ 17 = 131072 /\ 2 ^ 18 = 262144 /\ 2 ^ 19 = 524288
  /\ 2 ^ 20 = 1048576 /\ 2 ^ 21 = 2097152 /\ 2 ^ 22 = 4194304 /\ 2 ^ 23 = 8388608 /\ 2 ^ 24 = 16777216
  /\ 2 ^ 25 = 33554432 /\ 2 ^ 26 = 67108864 /\ 2 ^ 27 = 134217728 /\ 2 ^ 28 = 268435456 /\ 2 ^ 29 = 536870912
BY SMT

(* The positions of thirty bits, one by one. *)
LEMMA ThirtyPositions ==
  ASSUME NEW i \in 0..29
  PROVE  \/ i = 0 \/ i = 1 \/ i = 2 \/ i = 3 \/ i = 4 \/ i = 5 \/ i = 6 \/ i = 7 \/ i = 8 \/ i = 9
         \/ i = 10 \/ i = 11 \/ i = 12 \/ i = 13 \/ i = 14 \/ i = 15 \/ i = 16 \/ i = 17 \/ i = 18 \/ i = 19
         \/ i = 20 \/ i = 21 \/ i = 22 \/ i = 23 \/ i = 24 \/ i = 25 \/ i = 26 \/ i = 27 \/ i = 28 \/ i = 29
BY SMT

(* The bits of a number below 2^30, one by one. *)
LEMMA BitsOfNumber ==
  ASSUME NEW n
  PROVE
    /\ (0 \in Bits(n) <=> (n \div 1) % 2 = 1) /\ (1 \in Bits(n) <=> (n \div 2) % 2 = 1)
    /\ (2 \in Bits(n) <=> (n \div 4) % 2 = 1) /\ (3 \in Bits(n) <=> (n \div 8) % 2 = 1)
    /\ (4 \in Bits(n) <=> (n \div 16) % 2 = 1) /\ (5 \in Bits(n) <=> (n \div 32) % 2 = 1)
    /\ (6 \in Bits(n) <=> (n \div 64) % 2 = 1) /\ (7 \in Bits(n) <=> (n \div 128) % 2 = 1)
    /\ (8 \in Bits(n) <=> (n \div 256) % 2 = 1) /\ (9 \in Bits(n) <=> (n \div 512) % 2 = 1)
    /\ (10 \in Bits(n) <=> (n \div 1024) % 2 = 1) /\ (11 \in Bits(n) <=> (n \div 2048) % 2 = 1)
    /\ (12 \in Bits(n) <=> (n \div 4096) % 2 = 1) /\ (13 \in Bits(n) <=> (n \div 8192) % 2 = 1)
    /\ (14 \in Bits(n) <=> (n \div 16384) % 2 = 1) /\ (15 \in Bits(n) <=> (n \div 32768) % 2 = 1)
    /\ (16 \in Bits(n) <=> (n \div 65536) % 2 = 1) /\ (17 \in Bits(n) <=> (n \div 131072) % 2 = 1)
    /\ (18 \in Bits(n) <=> (n \div 262144) % 2 = 1)
    /\ (19 \in Bits(n) <=> (n \div 524288) % 2 = 1)
    /\ (20 \in Bits(n) <=> (n \div 1048576) % 2 = 1)
    /\ (21 \in Bits(n) <=> (n \div 2097152) % 2 = 1)
    /\ (22 \in Bits(n) <=> (n \div 4194304) % 2 = 1)
    /\ (23 \in Bits(n) <=> (n \div 8388608) % 2 = 1)
    /\ (24 \in Bits(n) <=> (n \div 16777216) % 2 = 1)
    /\ (25 \in Bits(n) <=> (n \div 33554432) % 2 = 1)
    /\ (26 \in Bits(n) <=> (n \div 67108864) % 2 = 1)
    /\ (27 \in Bits(n) <=> (n \div 134217728) % 2 = 1)
    /\ (28 \in Bits(n) <=> (n \div 268435456) % 2 = 1)
    /\ (29 \in Bits(n) <=> (n \div 536870912) % 2 = 1)
<1> DEFINE digit(power) == (n \div power) % 2
<1>1. \A i \in 0..29 : i \in Bits(n) <=> digit(2 ^ i) = 1
  BY DEF Bits
<1> HIDE DEF digit
<1>2.
    /\ (0 \in Bits(n) <=> digit(1) = 1) /\ (1 \in Bits(n) <=> digit(2) = 1)
    /\ (2 \in Bits(n) <=> digit(4) = 1)
    /\ (3 \in Bits(n) <=> digit(8) = 1) /\ (4 \in Bits(n) <=> digit(16) = 1)
    /\ (5 \in Bits(n) <=> digit(32) = 1)
    /\ (6 \in Bits(n) <=> digit(64) = 1) /\ (7 \in Bits(n) <=> digit(128) = 1)
    /\ (8 \in Bits(n) <=> digit(256) = 1)
    /\ (9 \in Bits(n) <=> digit(512) = 1) /\ (10 \in Bits(n) <=> digit(1024) = 1)
    /\ (11 \in Bits(n) <=> digit(2048) = 1)
    /\ (12 \in Bits(n) <=> digit(4096) = 1) /\ (13 \in Bits(n) <=> digit(8192) = 1)
    /\ (14 \in Bits(n) <=> digit(16384) = 1)
    /\ (15 \in Bits(n) <=> digit(32768) = 1) /\ (16 \in Bits(n) <=> digit(65536) = 1)
    /\ (17 \in Bits(n) <=> digit(131072) = 1)
    /\ (18 \in Bits(n) <=> digit(262144) = 1) /\ (19 \in Bits(n) <=> digit(524288) = 1)
    /\ (20 \in Bits(n) <=> digit(1048576) = 1)
    /\ (21 \in Bits(n) <=> digit(2097152) = 1) /\ (22 \in Bits(n) <=> digit(4194304) = 1)
    /\ (23 \in Bits(n) <=> digit(8388608) = 1)
    /\ (24 \in Bits(n) <=> digit(16777216) = 1) /\ (25 \in Bits(n) <=> digit(33554432) = 1)
    /\ (26 \in Bits(n) <=> digit(67108864) = 1)
    /\ (27 \in Bits(n) <=> digit(134217728) = 1) /\ (28 \in Bits(n) <=> digit(268435456) = 1)
    /\ (29 \in Bits(n) <=> digit(536870912) = 1)
  BY SMT, <1>1, PowersOfTwo
<1> QED BY SMT, <1>2 DEF digit

(* The first generator of bech32_polymod_step, as a set of bits. *)
LEMMA Generator1 ==
  Bits(996825010) = {1, 4, 5, 7, 8, 9, 10, 12, 14, 17, 19, 21, 22, 24, 25, 27, 28, 29}
<1>1. ASSUME NEW i \in 0..29
      PROVE  i \in Bits(996825010)
               <=> i \in {1, 4, 5, 7, 8, 9, 10, 12, 14, 17, 19, 21, 22, 24, 25, 27, 28, 29}
  BY SMT, BitsOfNumber, ThirtyPositions
<1> QED BY SMT, <1>1, BitsType

(* The second generator. *)
LEMMA Generator2 ==
  Bits(642813549) = {0, 2, 3, 5, 6, 9, 10, 11, 15, 20, 22, 25, 26, 29}
<1>1. ASSUME NEW i \in 0..29
      PROVE  i \in Bits(642813549) <=> i \in {0, 2, 3, 5, 6, 9, 10, 11, 15, 20, 22, 25, 26, 29}
  BY SMT, BitsOfNumber, ThirtyPositions
<1> QED BY SMT, <1>1, BitsType

(* The third. *)
LEMMA Generator3 ==
  Bits(513874426) = {1, 3, 4, 5, 6, 7, 8, 11, 12, 16, 21, 23, 25, 26, 27, 28}
<1>1. ASSUME NEW i \in 0..29
      PROVE  i \in Bits(513874426)
               <=> i \in {1, 3, 4, 5, 6, 7, 8, 11, 12, 16, 21, 23, 25, 26, 27, 28}
  BY SMT, BitsOfNumber, ThirtyPositions
<1> QED BY SMT, <1>1, BitsType

(* The fourth. *)
LEMMA Generator4 ==
  Bits(1027748829) = {0, 2, 3, 4, 6, 7, 8, 9, 12, 13, 17, 22, 24, 26, 27, 28, 29}
<1>1. ASSUME NEW i \in 0..29
      PROVE  i \in Bits(1027748829)
               <=> i \in {0, 2, 3, 4, 6, 7, 8, 9, 12, 13, 17, 22, 24, 26, 27, 28, 29}
  BY SMT, BitsOfNumber, ThirtyPositions
<1> QED BY SMT, <1>1, BitsType

(* The fifth. *)
LEMMA Generator5 ==
  Bits(705979059) = {0, 1, 4, 5, 7, 9, 13, 14, 18, 20, 25, 27, 29}
<1>1. ASSUME NEW i \in 0..29
      PROVE  i \in Bits(705979059) <=> i \in {0, 1, 4, 5, 7, 9, 13, 14, 18, 20, 25, 27, 29}
  BY SMT, BitsOfNumber, ThirtyPositions
<1> QED BY SMT, <1>1, BitsType

(* The constant of Bech32m. *)
LEMMA ConstantOfBech32m ==
  Bits(734539939) = {0, 1, 5, 7, 12, 13, 19, 22, 23, 24, 25, 27, 29}
<1>1. ASSUME NEW i \in 0..29
      PROVE  i \in Bits(734539939) <=> i \in {0, 1, 5, 7, 12, 13, 19, 22, 23, 24, 25, 27, 29}
  BY SMT, BitsOfNumber, ThirtyPositions
<1> QED BY SMT, <1>1, BitsType

(* The constant of Bech32. *)
LEMMA ConstantOfBech32 ==
  Bits(1) = {0}
<1>1. ASSUME NEW i \in 0..29
      PROVE  i \in Bits(1) <=> i \in {0}
  BY SMT, BitsOfNumber, ThirtyPositions
<1> QED BY SMT, <1>1, BitsType

(* The generators the step chooses from. *)
LEMMA Generators ==
  /\ GENERATOR[1] = {1, 4, 5, 7, 8, 9, 10, 12, 14, 17, 19, 21, 22, 24, 25, 27, 28, 29}
  /\ GENERATOR[2] = {0, 2, 3, 5, 6, 9, 10, 11, 15, 20, 22, 25, 26, 29}
  /\ GENERATOR[3] = {1, 3, 4, 5, 6, 7, 8, 11, 12, 16, 21, 23, 25, 26, 27, 28}
  /\ GENERATOR[4] = {0, 2, 3, 4, 6, 7, 8, 9, 12, 13, 17, 22, 24, 26, 27, 28, 29}
  /\ GENERATOR[5] = {0, 1, 4, 5, 7, 9, 13, 14, 18, 20, 25, 27, 29}
<1>1. /\ GENERATOR[1] = Bits(996825010) /\ GENERATOR[2] = Bits(642813549)
      /\ GENERATOR[3] = Bits(513874426) /\ GENERATOR[4] = Bits(1027748829)
      /\ GENERATOR[5] = Bits(705979059)
  BY SMT DEF GENERATOR
<1> QED BY SMT, <1>1, Generator1, Generator2, Generator3, Generator4, Generator5

(* One step of the checksum with the generators written out. *)
LEMMA StepLiteral ==
  ASSUME NEW pre \in SUBSET (0..29), NEW i \in 0..29
  PROVE  i \in bech32_polymod_step[pre] <=>
           Flip(25 \in pre /\ i \in {1, 4, 5, 7, 8, 9, 10, 12, 14, 17, 19, 21, 22, 24, 25, 27, 28, 29},
                26 \in pre /\ i \in {0, 2, 3, 5, 6, 9, 10, 11, 15, 20, 22, 25, 26, 29},
                27 \in pre /\ i \in {1, 3, 4, 5, 6, 7, 8, 11, 12, 16, 21, 23, 25, 26, 27, 28},
                28 \in pre /\ i \in {0, 2, 3, 4, 6, 7, 8, 9, 12, 13, 17, 22, 24, 26, 27, 28, 29},
                29 \in pre /\ i \in {0, 1, 4, 5, 7, 9, 13, 14, 18, 20, 25, 27, 29},
                i - 5 \in pre)
<1>1. /\ Chosen(pre, i, 0) <=> (25 \in pre /\ i \in GENERATOR[1])
      /\ Chosen(pre, i, 1) <=> (26 \in pre /\ i \in GENERATOR[2])
      /\ Chosen(pre, i, 2) <=> (27 \in pre /\ i \in GENERATOR[3])
      /\ Chosen(pre, i, 3) <=> (28 \in pre /\ i \in GENERATOR[4])
      /\ Chosen(pre, i, 4) <=> (29 \in pre /\ i \in GENERATOR[5])
  BY DEF Chosen
<1>2. i \in bech32_polymod_step[pre] <=> StepHas(pre, i)
  BY StepBit
<1> QED BY SMT, <1>1, <1>2, Generators DEF StepHas, Flip, Xor

-----------------------------------------------------------------------------
(* The step is linear and loses nothing.                                   *)

(* A bit is in the difference of two words when it is in one of them only. *)
LEMMA Differ ==
  ASSUME NEW a, NEW b, NEW i
  PROVE  i \in SymDiff(a, b) <=> Xor(i \in a, i \in b)
BY Zenon DEF SymDiff, Xor

(* An exclusive disjunction of exclusive disjunctions, in another order. *)
IsXor(x, p, q) == x <=> Xor(p, q)

LEMMA XorOfXors ==
  ASSUME NEW p, NEW q, NEW x, IsXor(x, p, q), NEW r, NEW s, NEW y, IsXor(y, r, s)
  PROVE  IsXor(Xor(x, y), Xor(p, r), Xor(q, s))
BY Zenon DEF IsXor, Xor

(* The step is linear. *)
LEMMA StepAdds ==
  ASSUME NEW a \in SUBSET (0..29), NEW b \in SUBSET (0..29)
  PROVE  bech32_polymod_step[SymDiff(a, b)]
           = SymDiff(bech32_polymod_step[a], bech32_polymod_step[b])
<1> DEFINE c == SymDiff(a, b)
<1>1. c \in SUBSET (0..29)
  BY DEF SymDiff
<1>2. \A i : i \in c <=> Xor(i \in a, i \in b)
  BY Differ
<1> HIDE DEF c
<1>3. ASSUME NEW i \in 0..29
      PROVE  i \in bech32_polymod_step[c]
               <=> i \in SymDiff(bech32_polymod_step[a], bech32_polymod_step[b])
  <2>1. /\ i \in bech32_polymod_step[c] <=> StepHas(c, i)
        /\ i \in bech32_polymod_step[a] <=> StepHas(a, i)
        /\ i \in bech32_polymod_step[b] <=> StepHas(b, i)
    BY <1>1, StepBit
  <2>2. \A k : Chosen(c, i, k) <=> Xor(Chosen(a, i, k), Chosen(b, i, k))
    BY <1>2 DEF Chosen, Xor
  <2>3. StepHas(c, i) <=> Xor(StepHas(a, i), StepHas(b, i))
    <3> DEFINE p(k) == Chosen(a, i, k)
               q(k) == Chosen(b, i, k)
               r(k) == Chosen(c, i, k)
    <3>1. \A k : IsXor(r(k), p(k), q(k))
      BY Zenon, <2>2 DEF IsXor
    <3>2. IsXor(i - 5 \in c, i - 5 \in a, i - 5 \in b)
      BY Zenon, <1>2 DEF IsXor
    <3> HIDE DEF p, q, r
    <3>3. IsXor(Xor(r(0), r(1)), Xor(p(0), p(1)), Xor(q(0), q(1)))
      BY Zenon, <3>1, XorOfXors
    <3>4. IsXor(Xor(Xor(r(0), r(1)), r(2)), Xor(Xor(p(0), p(1)), p(2)), Xor(Xor(q(0), q(1)), q(2)))
      BY Zenon, <3>1, <3>3, XorOfXors
    <3>5. IsXor(Xor(Xor(Xor(r(0), r(1)), r(2)), r(3)), Xor(Xor(Xor(p(0), p(1)), p(2)), p(3)),
                Xor(Xor(Xor(q(0), q(1)), q(2)), q(3)))
      BY Zenon, <3>1, <3>4, XorOfXors
    <3>6. IsXor(Xor(Xor(Xor(Xor(r(0), r(1)), r(2)), r(3)), r(4)),
                Xor(Xor(Xor(Xor(p(0), p(1)), p(2)), p(3)), p(4)),
                Xor(Xor(Xor(Xor(q(0), q(1)), q(2)), q(3)), q(4)))
      BY Zenon, <3>1, <3>5, XorOfXors
    <3>7. IsXor(Flip(r(0), r(1), r(2), r(3), r(4), i - 5 \in c),
                Flip(p(0), p(1), p(2), p(3), p(4), i - 5 \in a),
                Flip(q(0), q(1), q(2), q(3), q(4), i - 5 \in b))
      BY Zenon, <3>2, <3>6, XorOfXors DEF Flip
    <3> QED BY Zenon, <3>7 DEF StepHas, IsXor, p, q, r
  <2> QED BY Zenon, <2>1, <2>3, Differ DEF Xor
<1>4. /\ bech32_polymod_step[c] \in SUBSET (0..29)
      /\ bech32_polymod_step[a] \in SUBSET (0..29) /\ bech32_polymod_step[b] \in SUBSET (0..29)
  BY <1>1, StepType
<1>5. SymDiff(bech32_polymod_step[a], bech32_polymod_step[b]) \in SUBSET (0..29)
  BY <1>4 DEF SymDiff
<1> QED BY Zenon, <1>3, <1>4, <1>5 DEF c

(* Only the empty word has an empty step: no information is lost. *)
LEMMA StepKernel ==
  ASSUME NEW a \in SUBSET (0..29), bech32_polymod_step[a] = {}
  PROVE  a = {}
<1>1. 25 \notin a /\ 26 \notin a /\ 27 \notin a /\ 28 \notin a /\ 29 \notin a
  <2> DEFINE even(i) ==
               ~Flip(25 \in a /\ i \in {1, 4, 5, 7, 8, 9, 10, 12, 14, 17, 19, 21, 22, 24, 25, 27, 28, 29},
                     26 \in a /\ i \in {0, 2, 3, 5, 6, 9, 10, 11, 15, 20, 22, 25, 26, 29},
                     27 \in a /\ i \in {1, 3, 4, 5, 6, 7, 8, 11, 12, 16, 21, 23, 25, 26, 27, 28},
                     28 \in a /\ i \in {0, 2, 3, 4, 6, 7, 8, 9, 12, 13, 17, 22, 24, 26, 27, 28, 29},
                     29 \in a /\ i \in {0, 1, 4, 5, 7, 9, 13, 14, 18, 20, 25, 27, 29},
                     i - 5 \in a)
  <2>1. \A i \in 0..29 : even(i)
    BY SMT, StepLiteral
  <2>2. \A i \in 0..4 : i - 5 \notin a
    BY SMT
  <2>3. even(0) /\ even(1) /\ even(2) /\ even(3) /\ even(4)
    <3> HIDE DEF even
    <3> QED BY SMT, <2>1
  <2>4. ~Xor(Xor(26 \in a, 28 \in a), 29 \in a)
    <3>1. even(0) /\ ~(0 - 5 \in a)
      <4> HIDE DEF even
      <4> QED BY SMT, <2>2, <2>3
    <3> QED BY SMT, <3>1 DEF Flip, Xor
  <2>5. ~Xor(Xor(25 \in a, 27 \in a), 29 \in a)
    <3>1. even(1) /\ ~(1 - 5 \in a)
      <4> HIDE DEF even
      <4> QED BY SMT, <2>2, <2>3
    <3> QED BY SMT, <3>1 DEF Flip, Xor
  <2>6. ~Xor(26 \in a, 28 \in a)
    <3>1. even(2) /\ ~(2 - 5 \in a)
      <4> HIDE DEF even
      <4> QED BY SMT, <2>2, <2>3
    <3> QED BY SMT, <3>1 DEF Flip, Xor
  <2>7. ~Xor(Xor(26 \in a, 27 \in a), 28 \in a)
    <3>1. even(3) /\ ~(3 - 5 \in a)
      <4> HIDE DEF even
      <4> QED BY SMT, <2>2, <2>3
    <3> QED BY SMT, <3>1 DEF Flip, Xor
  <2>8. ~Xor(Xor(Xor(25 \in a, 27 \in a), 28 \in a), 29 \in a)
    <3>1. even(4) /\ ~(4 - 5 \in a)
      <4> HIDE DEF even
      <4> QED BY SMT, <2>2, <2>3
    <3> QED BY SMT, <3>1 DEF Flip, Xor
  <2> QED BY Zenon, <2>4, <2>5, <2>6, <2>7, <2>8 DEF Xor
<1>2. ASSUME NEW j \in 0..24
      PROVE  j \notin a
  <2> DEFINE i == j + 5
  <2>1. i \in 0..29 /\ i - 5 = j
    OBVIOUS
  <2>2. \A k \in 0..4 : ~Chosen(a, i, k)
    <3>1. \A k \in 0..4 : k + 25 \notin a
      BY SMT, <1>1
    <3> QED BY <3>1 DEF Chosen
  <2> HIDE DEF i
  <2>3. ~StepHas(a, i)
    BY Zenon, <2>1, StepBit
  <2>4. ~Chosen(a, i, 0) /\ ~Chosen(a, i, 1) /\ ~Chosen(a, i, 2) /\ ~Chosen(a, i, 3) /\ ~Chosen(a, i, 4)
    BY SMT, <2>2
  <2> QED BY Zenon, <2>1, <2>3, <2>4 DEF StepHas, Flip, Xor
<1>3. \A j \in 0..29 : j \in 0..24 \/ j = 25 \/ j = 26 \/ j = 27 \/ j = 28 \/ j = 29
  BY SMT
<1> QED BY Zenon, <1>1, <1>2, <1>3

(* Two words have no difference exactly when they are equal. *)
LEMMA EmptyDifference ==
  ASSUME NEW a, NEW b
  PROVE  SymDiff(a, b) = {} <=> a = b
BY Zenon DEF SymDiff

(* Different words have different steps. *)
LEMMA StepInjective ==
  ASSUME NEW a \in SUBSET (0..29), NEW b \in SUBSET (0..29),
         bech32_polymod_step[a] = bech32_polymod_step[b]
  PROVE  a = b
<1>1. SymDiff(a, b) \in SUBSET (0..29)
  BY DEF SymDiff
<1>2. bech32_polymod_step[SymDiff(a, b)] = {}
  <2>1. SymDiff(bech32_polymod_step[a], bech32_polymod_step[b]) = {}
    BY Zenon, EmptyDifference
  <2> QED BY Zenon, <2>1, StepAdds
<1> QED BY Zenon, <1>1, <1>2, StepKernel, EmptyDifference

-----------------------------------------------------------------------------
(* What a difference of two symbols cannot become.                         *)

(* Words that follow one another while equal values are absorbed, the first *)
(* of them not empty and of the last two symbols only.                      *)
RunsFrom(f, k) ==
  /\ \A j \in 0..k : f[j] \in SUBSET (0..29)
  /\ f[0] \in SUBSET (0..9) /\ f[0] # {}
  /\ \A j \in 1..k : f[j] = bech32_polymod_step[f[j - 1]]

(* No such words lead to d in n steps or fewer. *)
OutOfReach(d, n) == \A k \in 0..n : \A f : RunsFrom(f, k) => f[k] # d

(* A word beyond the last two symbols is not the first of them. *)
LEMMA FirstOutOfReach ==
  ASSUME NEW d, NEW i \in d, i \notin 0..9
  PROVE  OutOfReach(d, 0)
<1> SUFFICES ASSUME NEW k \in 0..0, NEW f, RunsFrom(f, k), f[k] = d PROVE FALSE
  BY DEF OutOfReach
<1>1. k = 0
  OBVIOUS
<1> QED BY <1>1 DEF RunsFrom

(* What is out of reach in n steps is out of reach, one step on, in n + 1. *)
LEMMA NextOutOfReach ==
  ASSUME NEW n \in Nat, NEW e \in SUBSET (0..29), OutOfReach(e, n),
         NEW d, d = bech32_polymod_step[e], d = {} \/ \E i \in d : i \notin 0..9
  PROVE  OutOfReach(d, n + 1)
<1> SUFFICES ASSUME NEW k \in 0..n + 1, NEW f, RunsFrom(f, k), f[k] = d PROVE FALSE
  BY DEF OutOfReach
<1>1. CASE k = 0
  BY <1>1 DEF RunsFrom
<1>2. CASE k # 0
  <2>1. k - 1 \in 0..n /\ k \in 1..k /\ k - 1 \in 0..k
        /\ (\A j \in 0..k - 1 : j \in 0..k) /\ (\A j \in 1..k - 1 : j \in 1..k)
    BY <1>2
  <2>2. bech32_polymod_step[f[k - 1]] = bech32_polymod_step[e] /\ f[k - 1] \in SUBSET (0..29)
    BY Zenon, <2>1 DEF RunsFrom
  <2>3. f[k - 1] = e
    BY Zenon, <2>2, StepInjective
  <2>4. RunsFrom(f, k - 1)
    BY Zenon, <2>1 DEF RunsFrom
  <2> QED BY Zenon, <2>1, <2>3, <2>4 DEF OutOfReach
<1> QED BY <1>1, <1>2

(* No difference is out of reach for ever: a difference stays one. *)
LEMMA EmptyOutOfReach ==
  ASSUME NEW k \in Nat, NEW f, RunsFrom(f, k)
  PROVE  f[k] # {}
<1> DEFINE T == {j \in 0..k : f[j] # {}}
<1>1. 0 \in T
  BY DEF RunsFrom
<1>2. ASSUME NEW j \in 0..k - 1, j \in T PROVE j + 1 \in T
  <2>1. j + 1 \in 1..k /\ j + 1 \in 0..k /\ (j + 1) - 1 = j /\ j \in 0..k
    OBVIOUS
  <2>2. f[j + 1] = bech32_polymod_step[f[j]] /\ f[j] \in SUBSET (0..29)
    BY Zenon, <2>1 DEF RunsFrom
  <2> QED BY Zenon, <1>2, <2>1, <2>2, StepKernel
<1>3. \A j \in 0..k : j \in T
  <2> HIDE DEF T
  <2> QED BY Zenon, <1>1, <1>2, IntervalInduction
<1> QED BY <1>3

(* One step leads from e to d, and d is not of the last two symbols only. *)
LeadsTo(e, d) ==
  /\ e \in SUBSET (0..29) /\ d \in SUBSET (0..29) /\ \E i \in d : i > 9
  /\ \A i \in 0..29 :
       i \in d <=>
         Flip(25 \in e /\ i \in {1, 4, 5, 7, 8, 9, 10, 12, 14, 17, 19, 21, 22, 24, 25, 27, 28, 29},
              26 \in e /\ i \in {0, 2, 3, 5, 6, 9, 10, 11, 15, 20, 22, 25, 26, 29},
              27 \in e /\ i \in {1, 3, 4, 5, 6, 7, 8, 11, 12, 16, 21, 23, 25, 26, 27, 28},
              28 \in e /\ i \in {0, 2, 3, 4, 6, 7, 8, 9, 12, 13, 17, 22, 24, 26, 27, 28, 29},
              29 \in e /\ i \in {0, 1, 4, 5, 7, 9, 13, 14, 18, 20, 25, 27, 29},
              i - 5 \in e)

(* LeadsTo carries what is out of reach one step farther. *)
LEMMA OneStepFarther ==
  ASSUME NEW n \in Nat, NEW m, m = n + 1, NEW e, NEW d, LeadsTo(e, d), OutOfReach(e, n)
  PROVE  OutOfReach(d, m)
<1>1. e \in SUBSET (0..29) /\ d \in SUBSET (0..29)
  BY DEF LeadsTo
<1>2. \A i \in 0..29 : i \in d <=> i \in bech32_polymod_step[e]
  BY SMT, <1>1, StepLiteral DEF LeadsTo
<1>3. d = bech32_polymod_step[e]
  BY Zenon, <1>1, <1>2, StepType
<1>4. \E i \in d : i \notin 0..9
  BY DEF LeadsTo
<1>5. OutOfReach(d, n + 1)
  BY Zenon, <1>1, <1>3, <1>4, NextOutOfReach
<1> QED BY Zenon, <1>5

(* What the constants of Bech32 and of Bech32m differ in. *)
ConstantsDiffer ==
  SymDiff(bech32_final_constant("BECH32"), bech32_final_constant("BECH32M"))

(* It is out of reach in 70 steps: going back from it, one step at a time, *)
(* every word has a bit beyond the last two symbols.                       *)
LEMMA ConstantsOutOfReach ==
  OutOfReach(ConstantsDiffer, 70)
<1> DEFINE w0 == {1, 5, 7, 12, 13, 19, 22, 23, 24, 25, 27, 29}
           w1 == {0, 2, 4, 6, 7, 9, 10, 15, 16, 18, 19, 20, 22, 25, 26, 28}
           w2 == {1, 3, 4, 6, 7, 8, 9, 10, 13, 15, 17, 18, 20, 21, 22, 25, 27, 28}
           w3 == {0, 4, 5, 6, 7, 8, 10, 11, 12, 13, 15, 17, 18, 21, 27}
           w4 == {1, 3, 5, 7, 8, 12, 14, 17, 20, 25, 26, 28, 29}
           w5 == {0, 1, 2, 3, 5, 7, 8, 9, 10, 11, 16, 18, 19, 20, 23, 24, 26, 27, 28}
           w6 == {1, 2, 3, 4, 6, 8, 9, 11, 13, 15, 16, 18, 19, 20, 22, 23, 25, 28}
           w7 == {2, 3, 4, 5, 9, 11, 14, 15, 18, 20, 21, 22, 23, 26, 29}
           w8 == {0, 1, 2, 5, 6, 9, 10, 14, 17, 18, 22, 25, 28, 29}
           w9 == {1, 5, 6, 8, 9, 11, 13, 16, 18, 19, 23, 27, 28}
           w10 == {0, 1, 3, 9, 10, 11, 13, 15, 16, 17, 18, 22, 23, 24, 25, 26, 28}
           w11 == {1, 3, 4, 5, 6, 7, 8, 12, 14, 19, 20, 25, 26, 27, 28, 29}
           w12 == {6, 9, 11, 14, 15, 16, 18, 24, 27}
           w13 == {1, 4, 6, 9, 10, 11, 13, 19, 22}
           w14 == {0, 1, 2, 3, 6, 7, 8, 9, 12, 16, 19, 20, 22, 23, 24, 25}
           w15 == {0, 2, 3, 4, 5, 7, 8, 9, 11, 15, 16, 17, 18, 19, 21, 25, 28}
           w16 == {0, 1, 6, 7, 8, 10, 11, 13, 14, 16, 17, 19, 20, 21, 22, 24, 28}
           w17 == {1, 2, 4, 7, 8, 10, 11, 13, 14, 15, 16, 17, 24, 26, 28, 29}
           w18 == {3, 4, 5, 6, 9, 13, 14, 18, 21, 22, 23, 25, 26, 27, 29}
           w19 == {2, 3, 7, 10, 11, 13, 14, 15, 16, 23, 25, 26, 27, 28}
           w20 == {0, 1, 2, 3, 4, 5, 7, 9, 11, 12, 13, 14, 16, 18, 19, 22, 24, 25, 26, 29}
           w21 == {0, 1, 3, 4, 8, 10, 11, 12, 13, 15, 16, 17, 20, 22, 23, 24, 25, 26}
           w22 == {0, 1, 2, 3, 7, 10, 13, 14, 22, 25, 27, 29}
           w23 == {0, 1, 2, 14, 16, 17, 21, 22, 24, 25, 28}
           w24 == {0, 4, 6, 8, 9, 18, 23, 24, 27, 28}
           w25 == {0, 1, 2, 3, 4, 6, 10, 14, 16, 17, 18, 19, 20, 23, 25, 26, 28, 29}
           w26 == {2, 3, 5, 6, 7, 10, 11, 13, 16, 18, 19, 20, 22, 24, 25, 26}
           w27 == {2, 3, 4, 5, 7, 10, 11, 12, 15, 16, 17, 23, 24, 25, 26, 29}
           w28 == {0, 1, 4, 6, 7, 10, 11, 12, 13, 14, 15, 16, 18, 19, 20, 22, 25, 28, 29}
           w29 == {0, 1, 4, 5, 6, 7, 10, 11, 14, 17, 22, 23, 29}
           w30 == {1, 4, 5, 6, 8, 12, 13, 15, 17, 18, 20, 22, 29}
           w31 == {1, 2, 4, 5, 8, 9, 10, 13, 14, 15, 16, 19, 20, 22, 23, 25}
           w32 == {0, 2, 3, 5, 9, 12, 13, 15, 17, 19, 20, 22, 24, 25, 26, 27, 29}
           w33 == {1, 5, 6, 7, 8, 12, 14, 19, 22, 26}
           w34 == {0, 1, 2, 3, 4, 6, 7, 8, 10, 15, 16, 21, 24, 25, 26, 28}
           w35 == {5, 6, 7, 9, 11, 12, 14, 15, 20, 22, 25, 26}
           w36 == {0, 1, 2, 4, 6, 7, 9, 10, 15, 17, 20, 21}
           w37 == {1, 3, 7, 11, 12, 17, 18, 22, 23, 24, 26, 27}
           w38 == {1, 2, 5, 6, 7, 8, 10, 11, 13, 15, 16, 17, 22, 26, 27, 28}
           w39 == {1, 2, 4, 7, 8, 10, 12, 13, 14, 15, 17, 18, 20, 21, 22, 24, 25, 27, 28, 29}
           w40 == {3, 4, 5, 7, 9, 11, 14, 15, 16, 17, 18, 20, 23, 25, 26, 27, 29}
           w41 == {1, 3, 6, 7, 8, 12, 13, 14, 17, 23, 25, 26, 27, 28}
           w42 == {2, 3, 5, 7, 9, 10, 11, 15, 16, 19, 20, 22, 23, 26, 27, 28}
           w43 == {1, 2, 3, 5, 7, 8, 11, 12, 13, 15, 16, 17, 18, 19, 20, 22, 24, 25, 26, 29}
           w44 == {1, 2, 6, 8, 9, 10, 11, 14, 23, 24, 28, 29}
           w45 == {0, 1, 7, 9, 11, 13, 14, 15, 19, 20, 25, 27, 28, 29}
           w46 == {2, 3, 5, 7, 8, 12, 13, 14, 15, 19, 20, 22, 26, 28, 29}
           w47 == {1, 2, 4, 6, 9, 12, 13, 15, 16, 17, 19, 20, 25, 26, 29}
           w48 == {1, 2, 7, 13, 15, 18, 19, 20, 21, 22, 25, 26, 27, 29}
           w49 == {0, 2, 3, 4, 5, 6, 7, 8, 10, 11, 16, 17, 18, 21, 22, 23, 25, 27, 28, 29}
           w50 == {0, 4, 5, 6, 7, 8, 11, 13, 16, 18, 19, 20, 21, 28}
           w51 == {1, 3, 8, 10, 11, 15, 17, 20, 22, 23, 25, 26, 28, 29}
           w52 == {1, 3, 6, 8, 11, 16, 17, 19, 20, 23, 24, 26, 27, 28}
           w53 == {3, 5, 6, 8, 10, 14, 16, 22, 23, 26, 27, 28}
           w54 == {0, 3, 4, 6, 12, 14, 19, 22, 23, 24, 25, 27}
           w55 == {0, 2, 4, 5, 7, 10, 11, 12, 13, 14, 16, 17, 21, 24, 26, 27, 28, 29}
           w56 == {0, 3, 12, 14, 16, 18, 19, 21, 24, 25, 27, 28}
           w57 == {1, 3, 4, 6, 8, 14, 15, 18, 19, 20, 21, 22, 24, 27, 29}
           w58 == {0, 2, 6, 7, 9, 10, 11, 13, 14, 15, 17, 18, 19, 20, 21, 23, 24, 27}
           w59 == {0, 1, 2, 4, 5, 6, 8, 11, 13, 16, 20, 22, 25, 26, 27}
           w60 == {0, 1, 2, 4, 5, 6, 7, 8, 10, 16, 18, 20, 21, 23, 24, 26, 27}
           w61 == {0, 1, 4, 7, 10, 13, 17, 19, 21, 23, 24, 26, 27}
           w62 == {0, 4, 5, 9, 12, 13, 14, 15, 16, 18, 19, 20, 21, 24, 29}
           w63 == {2, 4, 6, 7, 8, 9, 11, 15, 17, 19, 20, 22, 24, 25, 26, 28, 29}
           w64 == {1, 3, 4, 9, 10, 11, 13, 14, 16, 18, 20, 21, 22, 23, 24, 27, 28, 29}
           w65 == {0, 1, 2, 3, 4, 5, 7, 8, 9, 13, 15, 17, 19, 20, 21, 24, 27}
           w66 == {0, 1, 4, 6, 7, 8, 9, 21, 23, 25, 26}
           w67 == {0, 1, 3, 8, 9, 13, 15, 16, 18, 21, 22, 24, 29}
           w68 == {1, 4, 7, 8, 14, 16, 18, 19, 21, 23, 24, 25, 26, 27, 28, 29}
           w69 == {0, 4, 5, 7, 11, 12, 13, 17, 18, 21, 25}
           w70 == {7, 8, 10, 12, 14, 17, 22, 25, 26, 28, 29}
<1>0. OutOfReach(w70, 0)
  <2>1. 29 \in w70 /\ 29 \notin 0..9
    OBVIOUS
  <2> HIDE DEF w70
  <2> QED BY Zenon, <2>1, FirstOutOfReach
<1>1. OutOfReach(w69, 1)
  <2>1. LeadsTo(w70, w69)
    BY SMT DEF LeadsTo, Flip, Xor
  <2>2. 0 \in Nat /\ 1 = 0 + 1
    OBVIOUS
  <2> HIDE DEF w70, w69
  <2> QED BY Zenon, <1>0, <2>1, <2>2, OneStepFarther
<1>2. OutOfReach(w68, 2)
  <2>1. LeadsTo(w69, w68)
    BY SMT DEF LeadsTo, Flip, Xor
  <2>2. 1 \in Nat /\ 2 = 1 + 1
    OBVIOUS
  <2> HIDE DEF w69, w68
  <2> QED BY Zenon, <1>1, <2>1, <2>2, OneStepFarther
<1>3. OutOfReach(w67, 3)
  <2>1. LeadsTo(w68, w67)
    BY SMT DEF LeadsTo, Flip, Xor
  <2>2. 2 \in Nat /\ 3 = 2 + 1
    OBVIOUS
  <2> HIDE DEF w68, w67
  <2> QED BY Zenon, <1>2, <2>1, <2>2, OneStepFarther
<1>4. OutOfReach(w66, 4)
  <2>1. LeadsTo(w67, w66)
    BY SMT DEF LeadsTo, Flip, Xor
  <2>2. 3 \in Nat /\ 4 = 3 + 1
    OBVIOUS
  <2> HIDE DEF w67, w66
  <2> QED BY Zenon, <1>3, <2>1, <2>2, OneStepFarther
<1>5. OutOfReach(w65, 5)
  <2>1. LeadsTo(w66, w65)
    BY SMT DEF LeadsTo, Flip, Xor
  <2>2. 4 \in Nat /\ 5 = 4 + 1
    OBVIOUS
  <2> HIDE DEF w66, w65
  <2> QED BY Zenon, <1>4, <2>1, <2>2, OneStepFarther
<1>6. OutOfReach(w64, 6)
  <2>1. LeadsTo(w65, w64)
    BY SMT DEF LeadsTo, Flip, Xor
  <2>2. 5 \in Nat /\ 6 = 5 + 1
    OBVIOUS
  <2> HIDE DEF w65, w64
  <2> QED BY Zenon, <1>5, <2>1, <2>2, OneStepFarther
<1>7. OutOfReach(w63, 7)
  <2>1. LeadsTo(w64, w63)
    BY SMT DEF LeadsTo, Flip, Xor
  <2>2. 6 \in Nat /\ 7 = 6 + 1
    OBVIOUS
  <2> HIDE DEF w64, w63
  <2> QED BY Zenon, <1>6, <2>1, <2>2, OneStepFarther
<1>8. OutOfReach(w62, 8)
  <2>1. LeadsTo(w63, w62)
    BY SMT DEF LeadsTo, Flip, Xor
  <2>2. 7 \in Nat /\ 8 = 7 + 1
    OBVIOUS
  <2> HIDE DEF w63, w62
  <2> QED BY Zenon, <1>7, <2>1, <2>2, OneStepFarther
<1>9. OutOfReach(w61, 9)
  <2>1. LeadsTo(w62, w61)
    BY SMT DEF LeadsTo, Flip, Xor
  <2>2. 8 \in Nat /\ 9 = 8 + 1
    OBVIOUS
  <2> HIDE DEF w62, w61
  <2> QED BY Zenon, <1>8, <2>1, <2>2, OneStepFarther
<1>10. OutOfReach(w60, 10)
  <2>1. LeadsTo(w61, w60)
    BY SMT DEF LeadsTo, Flip, Xor
  <2>2. 9 \in Nat /\ 10 = 9 + 1
    OBVIOUS
  <2> HIDE DEF w61, w60
  <2> QED BY Zenon, <1>9, <2>1, <2>2, OneStepFarther
<1>11. OutOfReach(w59, 11)
  <2>1. LeadsTo(w60, w59)
    BY SMT DEF LeadsTo, Flip, Xor
  <2>2. 10 \in Nat /\ 11 = 10 + 1
    OBVIOUS
  <2> HIDE DEF w60, w59
  <2> QED BY Zenon, <1>10, <2>1, <2>2, OneStepFarther
<1>12. OutOfReach(w58, 12)
  <2>1. LeadsTo(w59, w58)
    BY SMT DEF LeadsTo, Flip, Xor
  <2>2. 11 \in Nat /\ 12 = 11 + 1
    OBVIOUS
  <2> HIDE DEF w59, w58
  <2> QED BY Zenon, <1>11, <2>1, <2>2, OneStepFarther
<1>13. OutOfReach(w57, 13)
  <2>1. LeadsTo(w58, w57)
    BY SMT DEF LeadsTo, Flip, Xor
  <2>2. 12 \in Nat /\ 13 = 12 + 1
    OBVIOUS
  <2> HIDE DEF w58, w57
  <2> QED BY Zenon, <1>12, <2>1, <2>2, OneStepFarther
<1>14. OutOfReach(w56, 14)
  <2>1. LeadsTo(w57, w56)
    BY SMT DEF LeadsTo, Flip, Xor
  <2>2. 13 \in Nat /\ 14 = 13 + 1
    OBVIOUS
  <2> HIDE DEF w57, w56
  <2> QED BY Zenon, <1>13, <2>1, <2>2, OneStepFarther
<1>15. OutOfReach(w55, 15)
  <2>1. LeadsTo(w56, w55)
    BY SMT DEF LeadsTo, Flip, Xor
  <2>2. 14 \in Nat /\ 15 = 14 + 1
    OBVIOUS
  <2> HIDE DEF w56, w55
  <2> QED BY Zenon, <1>14, <2>1, <2>2, OneStepFarther
<1>16. OutOfReach(w54, 16)
  <2>1. LeadsTo(w55, w54)
    BY SMT DEF LeadsTo, Flip, Xor
  <2>2. 15 \in Nat /\ 16 = 15 + 1
    OBVIOUS
  <2> HIDE DEF w55, w54
  <2> QED BY Zenon, <1>15, <2>1, <2>2, OneStepFarther
<1>17. OutOfReach(w53, 17)
  <2>1. LeadsTo(w54, w53)
    BY SMT DEF LeadsTo, Flip, Xor
  <2>2. 16 \in Nat /\ 17 = 16 + 1
    OBVIOUS
  <2> HIDE DEF w54, w53
  <2> QED BY Zenon, <1>16, <2>1, <2>2, OneStepFarther
<1>18. OutOfReach(w52, 18)
  <2>1. LeadsTo(w53, w52)
    BY SMT DEF LeadsTo, Flip, Xor
  <2>2. 17 \in Nat /\ 18 = 17 + 1
    OBVIOUS
  <2> HIDE DEF w53, w52
  <2> QED BY Zenon, <1>17, <2>1, <2>2, OneStepFarther
<1>19. OutOfReach(w51, 19)
  <2>1. LeadsTo(w52, w51)
    BY SMT DEF LeadsTo, Flip, Xor
  <2>2. 18 \in Nat /\ 19 = 18 + 1
    OBVIOUS
  <2> HIDE DEF w52, w51
  <2> QED BY Zenon, <1>18, <2>1, <2>2, OneStepFarther
<1>20. OutOfReach(w50, 20)
  <2>1. LeadsTo(w51, w50)
    BY SMT DEF LeadsTo, Flip, Xor
  <2>2. 19 \in Nat /\ 20 = 19 + 1
    OBVIOUS
  <2> HIDE DEF w51, w50
  <2> QED BY Zenon, <1>19, <2>1, <2>2, OneStepFarther
<1>21. OutOfReach(w49, 21)
  <2>1. LeadsTo(w50, w49)
    BY SMT DEF LeadsTo, Flip, Xor
  <2>2. 20 \in Nat /\ 21 = 20 + 1
    OBVIOUS
  <2> HIDE DEF w50, w49
  <2> QED BY Zenon, <1>20, <2>1, <2>2, OneStepFarther
<1>22. OutOfReach(w48, 22)
  <2>1. LeadsTo(w49, w48)
    BY SMT DEF LeadsTo, Flip, Xor
  <2>2. 21 \in Nat /\ 22 = 21 + 1
    OBVIOUS
  <2> HIDE DEF w49, w48
  <2> QED BY Zenon, <1>21, <2>1, <2>2, OneStepFarther
<1>23. OutOfReach(w47, 23)
  <2>1. LeadsTo(w48, w47)
    BY SMT DEF LeadsTo, Flip, Xor
  <2>2. 22 \in Nat /\ 23 = 22 + 1
    OBVIOUS
  <2> HIDE DEF w48, w47
  <2> QED BY Zenon, <1>22, <2>1, <2>2, OneStepFarther
<1>24. OutOfReach(w46, 24)
  <2>1. LeadsTo(w47, w46)
    BY SMT DEF LeadsTo, Flip, Xor
  <2>2. 23 \in Nat /\ 24 = 23 + 1
    OBVIOUS
  <2> HIDE DEF w47, w46
  <2> QED BY Zenon, <1>23, <2>1, <2>2, OneStepFarther
<1>25. OutOfReach(w45, 25)
  <2>1. LeadsTo(w46, w45)
    BY SMT DEF LeadsTo, Flip, Xor
  <2>2. 24 \in Nat /\ 25 = 24 + 1
    OBVIOUS
  <2> HIDE DEF w46, w45
  <2> QED BY Zenon, <1>24, <2>1, <2>2, OneStepFarther
<1>26. OutOfReach(w44, 26)
  <2>1. LeadsTo(w45, w44)
    BY SMT DEF LeadsTo, Flip, Xor
  <2>2. 25 \in Nat /\ 26 = 25 + 1
    OBVIOUS
  <2> HIDE DEF w45, w44
  <2> QED BY Zenon, <1>25, <2>1, <2>2, OneStepFarther
<1>27. OutOfReach(w43, 27)
  <2>1. LeadsTo(w44, w43)
    BY SMT DEF LeadsTo, Flip, Xor
  <2>2. 26 \in Nat /\ 27 = 26 + 1
    OBVIOUS
  <2> HIDE DEF w44, w43
  <2> QED BY Zenon, <1>26, <2>1, <2>2, OneStepFarther
<1>28. OutOfReach(w42, 28)
  <2>1. LeadsTo(w43, w42)
    BY SMT DEF LeadsTo, Flip, Xor
  <2>2. 27 \in Nat /\ 28 = 27 + 1
    OBVIOUS
  <2> HIDE DEF w43, w42
  <2> QED BY Zenon, <1>27, <2>1, <2>2, OneStepFarther
<1>29. OutOfReach(w41, 29)
  <2>1. LeadsTo(w42, w41)
    BY SMT DEF LeadsTo, Flip, Xor
  <2>2. 28 \in Nat /\ 29 = 28 + 1
    OBVIOUS
  <2> HIDE DEF w42, w41
  <2> QED BY Zenon, <1>28, <2>1, <2>2, OneStepFarther
<1>30. OutOfReach(w40, 30)
  <2>1. LeadsTo(w41, w40)
    BY SMT DEF LeadsTo, Flip, Xor
  <2>2. 29 \in Nat /\ 30 = 29 + 1
    OBVIOUS
  <2> HIDE DEF w41, w40
  <2> QED BY Zenon, <1>29, <2>1, <2>2, OneStepFarther
<1>31. OutOfReach(w39, 31)
  <2>1. LeadsTo(w40, w39)
    BY SMT DEF LeadsTo, Flip, Xor
  <2>2. 30 \in Nat /\ 31 = 30 + 1
    OBVIOUS
  <2> HIDE DEF w40, w39
  <2> QED BY Zenon, <1>30, <2>1, <2>2, OneStepFarther
<1>32. OutOfReach(w38, 32)
  <2>1. LeadsTo(w39, w38)
    BY SMT DEF LeadsTo, Flip, Xor
  <2>2. 31 \in Nat /\ 32 = 31 + 1
    OBVIOUS
  <2> HIDE DEF w39, w38
  <2> QED BY Zenon, <1>31, <2>1, <2>2, OneStepFarther
<1>33. OutOfReach(w37, 33)
  <2>1. LeadsTo(w38, w37)
    BY SMT DEF LeadsTo, Flip, Xor
  <2>2. 32 \in Nat /\ 33 = 32 + 1
    OBVIOUS
  <2> HIDE DEF w38, w37
  <2> QED BY Zenon, <1>32, <2>1, <2>2, OneStepFarther
<1>34. OutOfReach(w36, 34)
  <2>1. LeadsTo(w37, w36)
    BY SMT DEF LeadsTo, Flip, Xor
  <2>2. 33 \in Nat /\ 34 = 33 + 1
    OBVIOUS
  <2> HIDE DEF w37, w36
  <2> QED BY Zenon, <1>33, <2>1, <2>2, OneStepFarther
<1>35. OutOfReach(w35, 35)
  <2>1. LeadsTo(w36, w35)
    BY SMT DEF LeadsTo, Flip, Xor
  <2>2. 34 \in Nat /\ 35 = 34 + 1
    OBVIOUS
  <2> HIDE DEF w36, w35
  <2> QED BY Zenon, <1>34, <2>1, <2>2, OneStepFarther
<1>36. OutOfReach(w34, 36)
  <2>1. LeadsTo(w35, w34)
    BY SMT DEF LeadsTo, Flip, Xor
  <2>2. 35 \in Nat /\ 36 = 35 + 1
    OBVIOUS
  <2> HIDE DEF w35, w34
  <2> QED BY Zenon, <1>35, <2>1, <2>2, OneStepFarther
<1>37. OutOfReach(w33, 37)
  <2>1. LeadsTo(w34, w33)
    BY SMT DEF LeadsTo, Flip, Xor
  <2>2. 36 \in Nat /\ 37 = 36 + 1
    OBVIOUS
  <2> HIDE DEF w34, w33
  <2> QED BY Zenon, <1>36, <2>1, <2>2, OneStepFarther
<1>38. OutOfReach(w32, 38)
  <2>1. LeadsTo(w33, w32)
    BY SMT DEF LeadsTo, Flip, Xor
  <2>2. 37 \in Nat /\ 38 = 37 + 1
    OBVIOUS
  <2> HIDE DEF w33, w32
  <2> QED BY Zenon, <1>37, <2>1, <2>2, OneStepFarther
<1>39. OutOfReach(w31, 39)
  <2>1. LeadsTo(w32, w31)
    BY SMT DEF LeadsTo, Flip, Xor
  <2>2. 38 \in Nat /\ 39 = 38 + 1
    OBVIOUS
  <2> HIDE DEF w32, w31
  <2> QED BY Zenon, <1>38, <2>1, <2>2, OneStepFarther
<1>40. OutOfReach(w30, 40)
  <2>1. LeadsTo(w31, w30)
    BY SMT DEF LeadsTo, Flip, Xor
  <2>2. 39 \in Nat /\ 40 = 39 + 1
    OBVIOUS
  <2> HIDE DEF w31, w30
  <2> QED BY Zenon, <1>39, <2>1, <2>2, OneStepFarther
<1>41. OutOfReach(w29, 41)
  <2>1. LeadsTo(w30, w29)
    BY SMT DEF LeadsTo, Flip, Xor
  <2>2. 40 \in Nat /\ 41 = 40 + 1
    OBVIOUS
  <2> HIDE DEF w30, w29
  <2> QED BY Zenon, <1>40, <2>1, <2>2, OneStepFarther
<1>42. OutOfReach(w28, 42)
  <2>1. LeadsTo(w29, w28)
    BY SMT DEF LeadsTo, Flip, Xor
  <2>2. 41 \in Nat /\ 42 = 41 + 1
    OBVIOUS
  <2> HIDE DEF w29, w28
  <2> QED BY Zenon, <1>41, <2>1, <2>2, OneStepFarther
<1>43. OutOfReach(w27, 43)
  <2>1. LeadsTo(w28, w27)
    BY SMT DEF LeadsTo, Flip, Xor
  <2>2. 42 \in Nat /\ 43 = 42 + 1
    OBVIOUS
  <2> HIDE DEF w28, w27
  <2> QED BY Zenon, <1>42, <2>1, <2>2, OneStepFarther
<1>44. OutOfReach(w26, 44)
  <2>1. LeadsTo(w27, w26)
    BY SMT DEF LeadsTo, Flip, Xor
  <2>2. 43 \in Nat /\ 44 = 43 + 1
    OBVIOUS
  <2> HIDE DEF w27, w26
  <2> QED BY Zenon, <1>43, <2>1, <2>2, OneStepFarther
<1>45. OutOfReach(w25, 45)
  <2>1. LeadsTo(w26, w25)
    BY SMT DEF LeadsTo, Flip, Xor
  <2>2. 44 \in Nat /\ 45 = 44 + 1
    OBVIOUS
  <2> HIDE DEF w26, w25
  <2> QED BY Zenon, <1>44, <2>1, <2>2, OneStepFarther
<1>46. OutOfReach(w24, 46)
  <2>1. LeadsTo(w25, w24)
    BY SMT DEF LeadsTo, Flip, Xor
  <2>2. 45 \in Nat /\ 46 = 45 + 1
    OBVIOUS
  <2> HIDE DEF w25, w24
  <2> QED BY Zenon, <1>45, <2>1, <2>2, OneStepFarther
<1>47. OutOfReach(w23, 47)
  <2>1. LeadsTo(w24, w23)
    BY SMT DEF LeadsTo, Flip, Xor
  <2>2. 46 \in Nat /\ 47 = 46 + 1
    OBVIOUS
  <2> HIDE DEF w24, w23
  <2> QED BY Zenon, <1>46, <2>1, <2>2, OneStepFarther
<1>48. OutOfReach(w22, 48)
  <2>1. LeadsTo(w23, w22)
    BY SMT DEF LeadsTo, Flip, Xor
  <2>2. 47 \in Nat /\ 48 = 47 + 1
    OBVIOUS
  <2> HIDE DEF w23, w22
  <2> QED BY Zenon, <1>47, <2>1, <2>2, OneStepFarther
<1>49. OutOfReach(w21, 49)
  <2>1. LeadsTo(w22, w21)
    BY SMT DEF LeadsTo, Flip, Xor
  <2>2. 48 \in Nat /\ 49 = 48 + 1
    OBVIOUS
  <2> HIDE DEF w22, w21
  <2> QED BY Zenon, <1>48, <2>1, <2>2, OneStepFarther
<1>50. OutOfReach(w20, 50)
  <2>1. LeadsTo(w21, w20)
    BY SMT DEF LeadsTo, Flip, Xor
  <2>2. 49 \in Nat /\ 50 = 49 + 1
    OBVIOUS
  <2> HIDE DEF w21, w20
  <2> QED BY Zenon, <1>49, <2>1, <2>2, OneStepFarther
<1>51. OutOfReach(w19, 51)
  <2>1. LeadsTo(w20, w19)
    BY SMT DEF LeadsTo, Flip, Xor
  <2>2. 50 \in Nat /\ 51 = 50 + 1
    OBVIOUS
  <2> HIDE DEF w20, w19
  <2> QED BY Zenon, <1>50, <2>1, <2>2, OneStepFarther
<1>52. OutOfReach(w18, 52)
  <2>1. LeadsTo(w19, w18)
    BY SMT DEF LeadsTo, Flip, Xor
  <2>2. 51 \in Nat /\ 52 = 51 + 1
    OBVIOUS
  <2> HIDE DEF w19, w18
  <2> QED BY Zenon, <1>51, <2>1, <2>2, OneStepFarther
<1>53. OutOfReach(w17, 53)
  <2>1. LeadsTo(w18, w17)
    BY SMT DEF LeadsTo, Flip, Xor
  <2>2. 52 \in Nat /\ 53 = 52 + 1
    OBVIOUS
  <2> HIDE DEF w18, w17
  <2> QED BY Zenon, <1>52, <2>1, <2>2, OneStepFarther
<1>54. OutOfReach(w16, 54)
  <2>1. LeadsTo(w17, w16)
    BY SMT DEF LeadsTo, Flip, Xor
  <2>2. 53 \in Nat /\ 54 = 53 + 1
    OBVIOUS
  <2> HIDE DEF w17, w16
  <2> QED BY Zenon, <1>53, <2>1, <2>2, OneStepFarther
<1>55. OutOfReach(w15, 55)
  <2>1. LeadsTo(w16, w15)
    BY SMT DEF LeadsTo, Flip, Xor
  <2>2. 54 \in Nat /\ 55 = 54 + 1
    OBVIOUS
  <2> HIDE DEF w16, w15
  <2> QED BY Zenon, <1>54, <2>1, <2>2, OneStepFarther
<1>56. OutOfReach(w14, 56)
  <2>1. LeadsTo(w15, w14)
    BY SMT DEF LeadsTo, Flip, Xor
  <2>2. 55 \in Nat /\ 56 = 55 + 1
    OBVIOUS
  <2> HIDE DEF w15, w14
  <2> QED BY Zenon, <1>55, <2>1, <2>2, OneStepFarther
<1>57. OutOfReach(w13, 57)
  <2>1. LeadsTo(w14, w13)
    BY SMT DEF LeadsTo, Flip, Xor
  <2>2. 56 \in Nat /\ 57 = 56 + 1
    OBVIOUS
  <2> HIDE DEF w14, w13
  <2> QED BY Zenon, <1>56, <2>1, <2>2, OneStepFarther
<1>58. OutOfReach(w12, 58)
  <2>1. LeadsTo(w13, w12)
    BY SMT DEF LeadsTo, Flip, Xor
  <2>2. 57 \in Nat /\ 58 = 57 + 1
    OBVIOUS
  <2> HIDE DEF w13, w12
  <2> QED BY Zenon, <1>57, <2>1, <2>2, OneStepFarther
<1>59. OutOfReach(w11, 59)
  <2>1. LeadsTo(w12, w11)
    BY SMT DEF LeadsTo, Flip, Xor
  <2>2. 58 \in Nat /\ 59 = 58 + 1
    OBVIOUS
  <2> HIDE DEF w12, w11
  <2> QED BY Zenon, <1>58, <2>1, <2>2, OneStepFarther
<1>60. OutOfReach(w10, 60)
  <2>1. LeadsTo(w11, w10)
    BY SMT DEF LeadsTo, Flip, Xor
  <2>2. 59 \in Nat /\ 60 = 59 + 1
    OBVIOUS
  <2> HIDE DEF w11, w10
  <2> QED BY Zenon, <1>59, <2>1, <2>2, OneStepFarther
<1>61. OutOfReach(w9, 61)
  <2>1. LeadsTo(w10, w9)
    BY SMT DEF LeadsTo, Flip, Xor
  <2>2. 60 \in Nat /\ 61 = 60 + 1
    OBVIOUS
  <2> HIDE DEF w10, w9
  <2> QED BY Zenon, <1>60, <2>1, <2>2, OneStepFarther
<1>62. OutOfReach(w8, 62)
  <2>1. LeadsTo(w9, w8)
    BY SMT DEF LeadsTo, Flip, Xor
  <2>2. 61 \in Nat /\ 62 = 61 + 1
    OBVIOUS
  <2> HIDE DEF w9, w8
  <2> QED BY Zenon, <1>61, <2>1, <2>2, OneStepFarther
<1>63. OutOfReach(w7, 63)
  <2>1. LeadsTo(w8, w7)
    BY SMT DEF LeadsTo, Flip, Xor
  <2>2. 62 \in Nat /\ 63 = 62 + 1
    OBVIOUS
  <2> HIDE DEF w8, w7
  <2> QED BY Zenon, <1>62, <2>1, <2>2, OneStepFarther
<1>64. OutOfReach(w6, 64)
  <2>1. LeadsTo(w7, w6)
    BY SMT DEF LeadsTo, Flip, Xor
  <2>2. 63 \in Nat /\ 64 = 63 + 1
    OBVIOUS
  <2> HIDE DEF w7, w6
  <2> QED BY Zenon, <1>63, <2>1, <2>2, OneStepFarther
<1>65. OutOfReach(w5, 65)
  <2>1. LeadsTo(w6, w5)
    BY SMT DEF LeadsTo, Flip, Xor
  <2>2. 64 \in Nat /\ 65 = 64 + 1
    OBVIOUS
  <2> HIDE DEF w6, w5
  <2> QED BY Zenon, <1>64, <2>1, <2>2, OneStepFarther
<1>66. OutOfReach(w4, 66)
  <2>1. LeadsTo(w5, w4)
    BY SMT DEF LeadsTo, Flip, Xor
  <2>2. 65 \in Nat /\ 66 = 65 + 1
    OBVIOUS
  <2> HIDE DEF w5, w4
  <2> QED BY Zenon, <1>65, <2>1, <2>2, OneStepFarther
<1>67. OutOfReach(w3, 67)
  <2>1. LeadsTo(w4, w3)
    BY SMT DEF LeadsTo, Flip, Xor
  <2>2. 66 \in Nat /\ 67 = 66 + 1
    OBVIOUS
  <2> HIDE DEF w4, w3
  <2> QED BY Zenon, <1>66, <2>1, <2>2, OneStepFarther
<1>68. OutOfReach(w2, 68)
  <2>1. LeadsTo(w3, w2)
    BY SMT DEF LeadsTo, Flip, Xor
  <2>2. 67 \in Nat /\ 68 = 67 + 1
    OBVIOUS
  <2> HIDE DEF w3, w2
  <2> QED BY Zenon, <1>67, <2>1, <2>2, OneStepFarther
<1>69. OutOfReach(w1, 69)
  <2>1. LeadsTo(w2, w1)
    BY SMT DEF LeadsTo, Flip, Xor
  <2>2. 68 \in Nat /\ 69 = 68 + 1
    OBVIOUS
  <2> HIDE DEF w2, w1
  <2> QED BY Zenon, <1>68, <2>1, <2>2, OneStepFarther
<1>70. OutOfReach(w0, 70)
  <2>1. LeadsTo(w1, w0)
    BY SMT DEF LeadsTo, Flip, Xor
  <2>2. 69 \in Nat /\ 70 = 69 + 1
    OBVIOUS
  <2> HIDE DEF w1, w0
  <2> QED BY Zenon, <1>69, <2>1, <2>2, OneStepFarther
<1>71. w0 = ConstantsDiffer
  BY SMT, ConstantOfBech32, ConstantOfBech32m DEF SymDiff, ConstantsDiffer, bech32_final_constant
<1> HIDE DEF w0
<1> QED BY Zenon, <1>70, <1>71

-----------------------------------------------------------------------------
(* Two neighbouring symbols are checked.                                   *)

(* The bits of a symbol are among the first five, and tell which it is. *)
LEMMA SymbolBits ==
  ASSUME NEW x \in 0..31, NEW y \in 0..31
  PROVE  Bits(x) \in SUBSET (0..4) /\ (Bits(x) = Bits(y) => x = y)
<1>1. Bits(x) \in SUBSET (0..4)
  <2>1. ASSUME NEW i \in 5..29 PROVE i \notin Bits(x)
    <3> DEFINE p == 2 ^ i
               zero == 0
    <3>1. p \in Nat /\ p >= 32
      BY Zenon, PowerIsLarge
    <3> HIDE DEF p
    <3>2. p \in Nat \ {0} /\ zero \in Int /\ x \in Int /\ x \in 0..p - 1 /\ x = p * zero + x
      BY SMT, <3>1
    <3>3. x \div p = zero
      <4> HIDE DEF zero
      <4> QED BY SMT, <3>2, DivModUnique
    <3>4. (x \div p) % 2 # 1
      BY SMT, <3>3
    <3> QED BY Zenon, <3>4 DEF p, Bits
  <2>2. \A i \in 0..29 : i \in 5..29 \/ i \in 0..4
    OBVIOUS
  <2> QED BY Zenon, <2>1, <2>2, BitsType
<1>2. ASSUME NEW z \in 0..31
      PROVE  z = One(0 \in Bits(z)) + 2 * One(1 \in Bits(z)) + 4 * One(2 \in Bits(z))
                  + 8 * One(3 \in Bits(z)) + 16 * One(4 \in Bits(z))
  <2>2. /\ (z \div 1) % 2 \in {0, 1} /\ (z \div 2) % 2 \in {0, 1} /\ (z \div 4) % 2 \in {0, 1}
        /\ (z \div 8) % 2 \in {0, 1} /\ (z \div 16) % 2 \in {0, 1}
        /\ z = ((z \div 1) % 2) + 2 * ((z \div 2) % 2) + 4 * ((z \div 4) % 2)
                 + 8 * ((z \div 8) % 2) + 16 * ((z \div 16) % 2)
    BY SMT
  <2> DEFINE digit(power) == (z \div power) % 2
  <2>3. /\ One(0 \in Bits(z)) = digit(1) /\ One(1 \in Bits(z)) = digit(2)
        /\ One(2 \in Bits(z)) = digit(4) /\ One(3 \in Bits(z)) = digit(8)
        /\ One(4 \in Bits(z)) = digit(16)
    <3>1. /\ digit(1) \in {0, 1} /\ digit(2) \in {0, 1} /\ digit(4) \in {0, 1}
          /\ digit(8) \in {0, 1} /\ digit(16) \in {0, 1}
      BY Zenon, <2>2
    <3>2. /\ 0 \in Bits(z) <=> digit(1) = 1
          /\ 1 \in Bits(z) <=> digit(2) = 1
          /\ 2 \in Bits(z) <=> digit(4) = 1
          /\ 3 \in Bits(z) <=> digit(8) = 1
          /\ 4 \in Bits(z) <=> digit(16) = 1
      <4>1. \A i \in 0..29 : i \in Bits(z) <=> digit(2 ^ i) = 1
        BY DEF Bits
      <4> HIDE DEF digit
      <4> QED BY SMT, <4>1, SmallPowers
    <3> HIDE DEF digit
    <3> QED BY SMT, <3>1, <3>2 DEF One
  <2>4. z = digit(1) + 2 * digit(2) + 4 * digit(4) + 8 * digit(8) + 16 * digit(16)
    BY Zenon, <2>2
  <2> HIDE DEF digit
  <2> QED BY Zenon, <2>3, <2>4
<1>3. ASSUME Bits(x) = Bits(y) PROVE x = y
  <2> DEFINE sum(b) == One(0 \in b) + 2 * One(1 \in b) + 4 * One(2 \in b)
                         + 8 * One(3 \in b) + 16 * One(4 \in b)
  <2>1. x = sum(Bits(x)) /\ y = sum(Bits(y))
    BY <1>2
  <2> HIDE DEF sum
  <2> QED BY Zenon, <1>3, <2>1
<1> QED BY <1>1, <1>3

(* A word of one symbol is moved one symbol up. *)
LEMMA StepShifts ==
  ASSUME NEW b \in SUBSET (0..4)
  PROVE  bech32_polymod_step[b] = {i \in 5..9 : i - 5 \in b}
<1>1. b \in SUBSET (0..29)
  OBVIOUS
<1>2. ASSUME NEW i \in 0..29
      PROVE  i \in bech32_polymod_step[b] <=> i - 5 \in b
  <2>1. i \in bech32_polymod_step[b] <=> StepHas(b, i)
    BY <1>1, StepBit
  <2>2. ~Chosen(b, i, 0) /\ ~Chosen(b, i, 1) /\ ~Chosen(b, i, 2) /\ ~Chosen(b, i, 3) /\ ~Chosen(b, i, 4)
    BY DEF Chosen
  <2> QED BY Zenon, <2>1, <2>2 DEF StepHas, Flip, Xor
<1>3. \A i \in 0..29 : i - 5 \in b => i \in 5..9
  OBVIOUS
<1>4. \A i \in 5..9 : i \in 0..29
  OBVIOUS
<1>5. bech32_polymod_step[b] \in SUBSET (0..29)
  BY Zenon, <1>1, StepType
<1> QED BY Zenon, <1>2, <1>3, <1>4, <1>5

(* How the difference of two words goes on. *)
LEMMA DifferenceGoesOn ==
  ASSUME NEW a \in SUBSET (0..29), NEW b \in SUBSET (0..29), NEW x, NEW y
  PROVE  SymDiff(SymDiff(bech32_polymod_step[a], x), SymDiff(bech32_polymod_step[b], y))
           = SymDiff(bech32_polymod_step[SymDiff(a, b)], SymDiff(x, y))
<1> DEFINE s == bech32_polymod_step[a]
           t == bech32_polymod_step[b]
<1>1. bech32_polymod_step[SymDiff(a, b)] = SymDiff(s, t)
  BY Zenon, StepAdds
<1> HIDE DEF s, t
<1>2. SymDiff(SymDiff(s, x), SymDiff(t, y)) = SymDiff(SymDiff(s, t), SymDiff(x, y))
  BY SMT DEF SymDiff
<1> QED BY Zenon, <1>1, <1>2 DEF s, t

(* Equal values add no difference. *)
LEMMA NoDifference ==
  ASSUME NEW a, NEW x
  PROVE  SymDiff(a, SymDiff(x, x)) = a
BY SMT DEF SymDiff

(* No difference stays none. *)
LEMMA StepOfEmpty == bech32_polymod_step[{}] = {}
<1> DEFINE e == {}
<1>1. e \in SUBSET (0..4) /\ \A i : i \notin e
  OBVIOUS
<1> HIDE DEF e
<1>2. bech32_polymod_step[e] = {i \in 5..9 : i - 5 \in e}
  BY Zenon, <1>1, StepShifts
<1> QED BY Zenon, <1>1, <1>2 DEF e

(* Values that agree but at the places p and p + 1. *)
AgreeBut(v, w, p) == \A n \in 1..Len(v) : n # p /\ n # p + 1 => v[n] = w[n]
(* The words a valid checksum ends in. *)
Finals == {bech32_final_constant("BECH32"), bech32_final_constant("BECH32M")}

(* Two checksums are equal or differ as the two constants do. *)
LEMMA FinalDifferences ==
  ASSUME NEW a \in Finals, NEW b \in Finals
  PROVE  SymDiff(a, b) = {} \/ SymDiff(a, b) = ConstantsDiffer
<1>1. \A x, y : SymDiff(x, y) = SymDiff(y, x)
  BY Zenon DEF SymDiff
<1>2. a = b => SymDiff(a, b) = {}
  BY Zenon, EmptyDifference
<1> QED BY Zenon, <1>1, <1>2 DEF Finals, ConstantsDiffer

(* Two values that differ leave a difference in the last two symbols. *)
LEMMA StartOfDifference ==
  ASSUME NEW x \in 0..31, NEW y \in 0..31, NEW r \in 0..31, NEW s \in 0..31,
         x # y \/ r # s,
         NEW b, b = SymDiff(Bits(x), Bits(y)),
         NEW d, d = SymDiff(bech32_polymod_step[b], SymDiff(Bits(r), Bits(s)))
  PROVE  d \in SUBSET (0..9) /\ d # {}
<1>1. /\ Bits(x) \in SUBSET (0..4) /\ Bits(y) \in SUBSET (0..4)
      /\ Bits(r) \in SUBSET (0..4) /\ Bits(s) \in SUBSET (0..4)
  BY Zenon, SymbolBits
<1>2. b \in SUBSET (0..4) /\ SymDiff(Bits(r), Bits(s)) \in SUBSET (0..4)
  BY Zenon, <1>1 DEF SymDiff
<1> DEFINE c == SymDiff(Bits(r), Bits(s))
           t == bech32_polymod_step[b]
<1>3. t = {i \in 5..9 : i - 5 \in b}
  BY Zenon, <1>2, StepShifts
<1>4. c = {} <=> r = s
  <2>1. c = {} <=> Bits(r) = Bits(s)
    BY Zenon, EmptyDifference
  <2>2. Bits(r) = Bits(s) => r = s
    BY Zenon, SymbolBits
  <2> HIDE DEF c
  <2> QED BY Zenon, <2>1, <2>2
<1>5. b = {} <=> x = y
  <2>1. SymDiff(Bits(x), Bits(y)) = {} <=> Bits(x) = Bits(y)
    BY SMT, EmptyDifference
  <2>2. Bits(x) = Bits(y) => x = y
    BY Zenon, SymbolBits
  <2> QED BY Zenon, <2>1, <2>2
<1>6. c \in SUBSET (0..4) /\ d = SymDiff(t, c)
  BY <1>2
<1> HIDE DEF c, t
<1>7. t \in SUBSET (5..9) /\ \A i \in b : i + 5 \in t
  BY <1>2, <1>3
<1>8. d \in SUBSET (0..9)
  <2>1. \A i \in 0..4 : i \in 0..9
    OBVIOUS
  <2>2. \A i \in 5..9 : i \in 0..9
    OBVIOUS
  <2> QED BY Zenon, <1>6, <1>7, <2>1, <2>2 DEF SymDiff
<1>9. CASE x # y
  <2>1. PICK i \in b : TRUE
    BY <1>5, <1>9
  <2>2. i + 5 \in t /\ i + 5 \notin c
    BY <1>2, <1>6, <1>7
  <2>3. i + 5 \in d
    BY Zenon, <1>6, <2>2 DEF SymDiff
  <2> QED BY <1>8, <2>3
<1>10. CASE x = y
  <2>1. r # s /\ b = {}
    BY Zenon, <1>5, <1>10
  <2>2. t = {}
    BY <1>3, <2>1
  <2>3. PICK i \in c : TRUE
    BY <1>4, <2>1
  <2>4. i \in d
    BY Zenon, <1>6, <2>2 DEF SymDiff
  <2> QED BY <1>8, <2>4
<1> QED BY Zenon, <1>9, <1>10

(* Values that agree but at two neighbouring places and have the checksum  *)
(* of Bech32 or of Bech32m both are the same.                              *)
LEMMA NeighboursAreChecked ==
  ASSUME NEW start \in SUBSET (0..29), NEW v \in Seq(0..31), NEW w \in Seq(0..31),
         Len(w) = Len(v), Len(v) <= 72, NEW p \in 1..Len(v) - 1, AgreeBut(v, w, p),
         Absorb(start, v) \in Finals, Absorb(start, w) \in Finals
  PROVE  v = w
<1> DEFINE N == Len(v)
           S == 0..31
           W == SUBSET (0..29)
<1>1. N \in Nat /\ N <= 72 /\ p \in 1..N - 1 /\ v \in Seq(S) /\ w \in Seq(S) /\ Len(w) = N
  OBVIOUS
<1>2. PICK f \in [0..N -> W] : Absorbs(f, start, v)
  BY Zenon, AbsorbFunction
<1>3. PICK g \in [0..N -> W] : Absorbs(g, start, w)
  <2>1. \E g \in [0..Len(w) -> W] : Absorbs(g, start, w)
    BY Zenon, AbsorbFunction
  <2> QED BY Zenon, <2>1
<1>4. /\ f[0] = start /\ g[0] = start /\ f[N] \in Finals /\ g[N] \in Finals
      /\ \A n \in 1..N : f[n] = SymDiff(bech32_polymod_step[f[n - 1]], Bits(v[n]))
      /\ \A n \in 1..N : g[n] = SymDiff(bech32_polymod_step[g[n - 1]], Bits(w[n]))
  BY Zenon, <1>2, <1>3 DEF Absorbs
<1>5. \A n \in 1..N : v[n] \in 0..31 /\ w[n] \in 0..31
  BY Zenon, <1>1, ElementOfSeq
<1>6. \A n \in 1..N : n # p /\ n # p + 1 => v[n] = w[n]
  BY DEF AgreeBut
<1>7. v = [n \in 1..N |-> v[n]] /\ w = [n \in 1..N |-> w[n]]
  BY Zenon, <1>1, SeqIsFunction
<1>8. \A n \in 0..N : f[n] \in W /\ g[n] \in W
  BY Zenon, <1>2, <1>3
<1> HIDE DEF N, S, W
<1>9. ASSUME NEW n \in 1..N
      PROVE  SymDiff(f[n], g[n])
               = SymDiff(bech32_polymod_step[SymDiff(f[n - 1], g[n - 1])],
                         SymDiff(Bits(v[n]), Bits(w[n])))
  <2>1. n - 1 \in 0..N
    BY <1>1
  <2>2. f[n - 1] \in SUBSET (0..29) /\ g[n - 1] \in SUBSET (0..29)
    BY Zenon, <1>8, <2>1 DEF W
  <2>3. /\ f[n] = SymDiff(bech32_polymod_step[f[n - 1]], Bits(v[n]))
        /\ g[n] = SymDiff(bech32_polymod_step[g[n - 1]], Bits(w[n]))
    BY Zenon, <1>4
  <2>4. SymDiff(SymDiff(bech32_polymod_step[f[n - 1]], Bits(v[n])),
                SymDiff(bech32_polymod_step[g[n - 1]], Bits(w[n])))
          = SymDiff(bech32_polymod_step[SymDiff(f[n - 1], g[n - 1])],
                    SymDiff(Bits(v[n]), Bits(w[n])))
    <3> DEFINE a == f[n - 1]
               b == g[n - 1]
               x == Bits(v[n])
               y == Bits(w[n])
    <3>1. a \in SUBSET (0..29) /\ b \in SUBSET (0..29)
      BY <2>2
    <3> HIDE DEF a, b, x, y
    <3>2. SymDiff(SymDiff(bech32_polymod_step[a], x), SymDiff(bech32_polymod_step[b], y))
            = SymDiff(bech32_polymod_step[SymDiff(a, b)], SymDiff(x, y))
      BY SMT, <3>1, DifferenceGoesOn
    <3> QED BY <3>2 DEF a, b, x, y
  <2> QED BY Zenon, <2>3, <2>4
<1>10. ASSUME NEW n \in 1..N, v[n] = w[n]
       PROVE  SymDiff(f[n], g[n]) = bech32_polymod_step[SymDiff(f[n - 1], g[n - 1])]
  <2> DEFINE d == bech32_polymod_step[SymDiff(f[n - 1], g[n - 1])]
             x == Bits(v[n])
  <2>1. SymDiff(f[n], g[n]) = SymDiff(d, SymDiff(x, x))
    BY Zenon, <1>9, <1>10
  <2> HIDE DEF d, x
  <2> QED BY Zenon, <2>1, NoDifference DEF d
<1>11. f[p - 1] = g[p - 1]
  <2> DEFINE T == {n \in 0..p - 1 : f[n] = g[n]}
             q == p - 1
  <2>1. q \in Nat /\ 0 \in T
    BY <1>1, <1>4
  <2>2. ASSUME NEW n \in 0..q - 1, n \in T PROVE n + 1 \in T
    <3>1. n + 1 \in 1..N /\ n + 1 # p /\ n + 1 # p + 1 /\ (n + 1) - 1 = n /\ n + 1 \in 0..p - 1
      BY <1>1
    <3>2. f[n] = g[n] /\ v[n + 1] = w[n + 1]
      BY Zenon, <1>6, <2>2, <3>1
    <3>3. f[n + 1] = g[n + 1]
      <4>1. /\ f[n + 1] = SymDiff(bech32_polymod_step[f[(n + 1) - 1]], Bits(v[n + 1]))
            /\ g[n + 1] = SymDiff(bech32_polymod_step[g[(n + 1) - 1]], Bits(w[n + 1]))
        BY Zenon, <1>4, <3>1
      <4>2. f[(n + 1) - 1] = f[n] /\ g[(n + 1) - 1] = g[n]
        BY Zenon, <3>1
      <4> QED BY Zenon, <3>2, <4>1, <4>2
    <3> QED BY Zenon, <3>1, <3>3
  <2>3. \A n \in 0..q : n \in T
    <3> HIDE DEF T, q
    <3> QED BY Zenon, <2>1, <2>2, IntervalInduction
  <2>4. q \in 0..q
    BY <2>1
  <2>5. q \in T
    BY Zenon, <2>3, <2>4
  <2> QED BY <2>5
<1> DEFINE e(n) == SymDiff(f[n], g[n])
           k == N - (p + 1)
<1>12. e(p) = SymDiff(Bits(v[p]), Bits(w[p]))
  <2>1. p \in 1..N
    BY <1>1
  <2>2. SymDiff(f[p - 1], g[p - 1]) = {}
    BY Zenon, <1>11, EmptyDifference
  <2>3. e(p) = SymDiff({}, SymDiff(Bits(v[p]), Bits(w[p])))
    BY Zenon, <1>9, <2>1, <2>2, StepOfEmpty
  <2>4. \A x : SymDiff({}, x) = x
    BY Zenon DEF SymDiff
  <2> QED BY Zenon, <2>3, <2>4
<1>13. e(p + 1) = SymDiff(bech32_polymod_step[e(p)], SymDiff(Bits(v[p + 1]), Bits(w[p + 1])))
  <2>1. p + 1 \in 1..N /\ (p + 1) - 1 = p
    BY <1>1
  <2> QED BY Zenon, <1>9, <2>1
<1> SUFFICES ASSUME v # w PROVE FALSE
  OBVIOUS
<1>14. v[p] # w[p] \/ v[p + 1] # w[p + 1]
  BY Zenon, <1>6, <1>7
<1>15. e(p + 1) \in SUBSET (0..9) /\ e(p + 1) # {}
  <2>1. v[p] \in 0..31 /\ w[p] \in 0..31 /\ v[p + 1] \in 0..31 /\ w[p + 1] \in 0..31
    <3>1. p \in 1..N /\ p + 1 \in 1..N
      BY <1>1
    <3> QED BY Zenon, <1>5, <3>1
  <2> HIDE DEF e
  <2> QED BY Zenon, <1>12, <1>13, <1>14, <2>1, StartOfDifference
<1> DEFINE h == [j \in 0..k |-> e(p + 1 + j)]
<1>16. k \in 0..70 /\ k \in Nat /\ 0 \in 0..k /\ k \in 0..k
  BY <1>1
<1>17. RunsFrom(h, k)
  <2>1. ASSUME NEW j \in 0..k PROVE h[j] = e(p + 1 + j) /\ h[j] \in SUBSET (0..29)
    <3> DEFINE n == p + 1 + j
    <3>1. n \in 0..N
      BY <1>1, <1>16
    <3>2. f[n] \in SUBSET (0..29) /\ g[n] \in SUBSET (0..29)
      <4> HIDE DEF n
      <4> QED BY Zenon, <1>8, <3>1 DEF W
    <3>3. h[j] = e(n)
      <4> HIDE DEF e
      <4> QED OBVIOUS
    <3> HIDE DEF h, n
    <3>4. e(n) \in SUBSET (0..29)
      BY Zenon, <3>2 DEF SymDiff
    <3> QED BY Zenon, <3>3, <3>4 DEF n
  <2>2. h[0] \in SUBSET (0..9) /\ h[0] # {}
    <3>1. p + 1 + 0 = p + 1
      BY <1>1
    <3> HIDE DEF h, e
    <3> QED BY Zenon, <1>15, <1>16, <2>1, <3>1
  <2>3. ASSUME NEW j \in 1..k PROVE h[j] = bech32_polymod_step[h[j - 1]]
    <3> DEFINE n == p + 1 + j
    <3>1. /\ n \in 1..N /\ n # p /\ n # p + 1 /\ n - 1 = p + 1 + (j - 1)
          /\ j \in 0..k /\ j - 1 \in 0..k
      BY <1>1, <1>16
    <3>2. h[j] = e(n) /\ h[j - 1] = e(n - 1)
      <4> HIDE DEF h, e
      <4>1. h[j - 1] = e(p + 1 + (j - 1))
        BY Zenon, <2>1, <3>1
      <4> QED BY Zenon, <2>1, <3>1, <4>1
    <3>3. v[n] = w[n]
      <4> HIDE DEF n
      <4> QED BY Zenon, <1>6, <3>1
    <3>4. e(n) = bech32_polymod_step[e(n - 1)]
      <4> HIDE DEF n
      <4> QED BY Zenon, <1>10, <3>1, <3>3
    <3> HIDE DEF h, e, n
    <3> QED BY Zenon, <3>2, <3>4
  <2> HIDE DEF h, k, e
  <2> QED BY Zenon, <2>1, <2>2, <2>3 DEF RunsFrom
<1>18. h[k] = e(N)
  <2>1. p + 1 + k = N
    BY <1>1
  <2>2. h[k] = e(p + 1 + k)
    <3> HIDE DEF e
    <3> QED BY <1>16
  <2> HIDE DEF h, k, e
  <2> QED BY Zenon, <2>1, <2>2
<1>19. e(N) = {} \/ e(N) = ConstantsDiffer
  BY Zenon, <1>4, FinalDifferences
<1> HIDE DEF h, k, e
<1>20. h[k] # {}
  BY Zenon, <1>16, <1>17, EmptyOutOfReach
<1>21. h[k] # ConstantsDiffer
  BY Zenon, <1>16, <1>17, ConstantsOutOfReach DEF OutOfReach
<1> QED BY Zenon, <1>18, <1>19, <1>20, <1>21

-----------------------------------------------------------------------------
(* What a decoder finds out about a text it accepts.                       *)

(* Places in a sequence have a first and a last. *)
LEMMA FirstPlace ==
  ASSUME NEW I \in SUBSET Nat, I # {}
  PROVE  Min(I) \in I
<1>1. PICK m \in I : \A y \in I : m <= y
  BY Zenon, LeastElement
<1> QED BY Zenon, <1>1 DEF Min

(* The last place is one of them. *)
LEMMA LastPlace ==
  ASSUME NEW n \in Nat, NEW I \in SUBSET (1..n), I # {}
  PROVE  Max(I) \in I
<1> DEFINE B == {b \in Nat : \A i \in I : i <= b}
<1>1. n \in B /\ B \in SUBSET Nat
  OBVIOUS
<1> HIDE DEF B
<1>2. PICK m \in B : \A b \in B : m <= b
  BY Zenon, <1>1, LeastElement
<1>3. m \in Nat /\ \A i \in I : i <= m /\ i \in Nat /\ i >= 1
  BY <1>2 DEF B
<1>4. m \in I
  <2> SUFFICES ASSUME m \notin I PROVE FALSE
    OBVIOUS
  <2>1. ASSUME NEW i \in I PROVE i <= m - 1
    <3>1. i # m
      BY <2>1
    <3>2. i <= m /\ i \in Nat
      BY Zenon, <1>3
    <3> QED BY <1>3, <3>1, <3>2
  <2>2. m - 1 \in Nat
    <3>1. PICK i \in I : TRUE
      OBVIOUS
    <3>2. i <= m /\ i \in Nat /\ i >= 1
      BY Zenon, <1>3
    <3> QED BY <1>3, <3>2
  <2>3. m - 1 \in B
    BY <2>1, <2>2 DEF B
  <2> QED BY <1>2, <1>3, <2>3
<1>5. \A i \in I : m >= i
  BY <1>3
<1> QED BY Zenon, <1>4, <1>5 DEF Max

(* charset_rev yields -1 or the value of the character. *)
LEMMA CharsetRevFinds ==
  ASSUME NEW ch, charset_rev(ch) # -1
  PROVE  charset_rev(ch) \in 0..31 /\ ToLower(ch) = charset[charset_rev(ch) + 1]
<1> DEFINE I == {i \in 1..Len(charset) : charset[i] = ToLower(ch)}
<1>1. charset_rev(ch) = (IF I # {} THEN Min(I) ELSE 0) - 1
  BY DEF charset_rev, SelectInSeq
<1>2. I # {}
  <2> HIDE DEF I
  <2> QED BY <1>1
<1>3. I \in SUBSET Nat /\ \A i \in I : i \in 1..32 /\ charset[i] = ToLower(ch)
  <2>1. \A i \in 1..32 : i \in Nat
    OBVIOUS
  <2> QED BY Zenon, <2>1, CharsetIsSeq
<1> HIDE DEF I
<1>4. Min(I) \in I
  BY Zenon, <1>2, <1>3, FirstPlace
<1> DEFINE m == Min(I)
<1>5. m \in 1..32 /\ charset[m] = ToLower(ch)
  BY Zenon, <1>3, <1>4
<1>6. charset_rev(ch) = m - 1
  BY <1>1, <1>2
<1> HIDE DEF m
<1>7. charset_rev(ch) \in 0..31 /\ charset_rev(ch) + 1 = m
  BY <1>5, <1>6
<1> QED BY Zenon, <1>5, <1>7

(* What bech32_decode found out about a text it accepts: the separator is  *)
(* at s, and w are the values after it.                                    *)
Accepted(input, s, w, decoded) ==
  /\ s \in Nat /\ s >= 1 /\ input[s] = ONE
  /\ w \in Seq(0..31) /\ Len(w) >= 6 /\ Len(input) = s + Len(w)
  /\ \A i \in 1..Len(w) : ToLower(input[s + i]) = charset[w[i] + 1]
  /\ InOneCase(input)
  /\ decoded.hrp = [i \in 1..s - 1 |-> ToLower(input[i])]
  /\ Len(decoded.data) = Len(w) - 6
  /\ Absorb(HrpChecksum(decoded.hrp), w) \in Finals

(* What bech32_decode accepts has such a separator and such values. *)
LEMMA DecodeAccepts ==
  ASSUME NEW input \in Seq(Nat), bech32_decode(input) # NotDecoded
  PROVE  \E s, w : Accepted(input, s, w, bech32_decode(input))
<1> DEFINE n == Len(input)
           I == {i \in 1..Len(input) : input[i] = ONE}
           s == IF I # {} THEN Max(I) ELSE 0
           hrp == [i \in 1..s - 1 |-> ToLower(input[i])]
           w == [i \in 1..Len(input) - s |-> charset_rev(input[s + i])]
           data == SubSeq(w, 1, Len(w) - 6)
           check == SubSeq(w, Len(w) - 5, Len(w))
           chk == Absorb(HrpChecksum(hrp), data \o check)
           refused ==
             \/ n < 8 \/ n > 90
             \/ s <= 1 \/ Len(w) < 6
             \/ \E i \in 1..s - 1 : input[i] \notin 33..126
             \/ \E i \in 1..Len(w) : w[i] = -1
             \/ ToSet(input) \intersect Lower # {} /\ ToSet(input) \intersect Upper # {}
           decoded(e) == [enc |-> e, hrp |-> hrp, data |-> data]
           result == bech32_decode(input)
<1>1. result = IF refused THEN NotDecoded
               ELSE IF chk = bech32_final_constant("BECH32") THEN decoded("BECH32")
               ELSE IF chk = bech32_final_constant("BECH32M") THEN decoded("BECH32M")
               ELSE NotDecoded
  BY DEF bech32_decode, SelectLastInSeq
<1>2. ~refused /\ chk \in Finals /\ \E e : result = decoded(e)
  <2> HIDE DEF refused, chk, decoded, result
  <2>1. result # NotDecoded
    BY DEF result
  <2> QED BY Zenon, <1>1, <2>1 DEF Finals
<1>3. result.hrp = hrp /\ result.data = data
  <2> HIDE DEF hrp, data, result
  <2> QED BY <1>2
<1>4. n \in Nat /\ s \in 1..n /\ s >= 1 /\ input[s] = ONE
  <2>1. I \in SUBSET (1..n) /\ n \in Nat /\ \A i \in I : input[i] = ONE
    OBVIOUS
  <2> HIDE DEF I, n
  <2>2. I # {}
    <3>1. ~(s <= 1)
      BY <1>2
    <3> QED BY <3>1
  <2>3. Max(I) \in I
    BY Zenon, <2>1, <2>2, LastPlace
  <2>4. s = Max(I)
    BY Zenon, <2>2
  <2> HIDE DEF s
  <2>5. s \in 1..n /\ input[s] = ONE
    BY Zenon, <2>1, <2>3, <2>4
  <2> QED BY <2>1, <2>5
<1>5. /\ ~(Len(w) < 6) /\ \A i \in 1..Len(w) : ~(w[i] = -1)
      /\ ~(ToSet(input) \intersect Lower # {} /\ ToSet(input) \intersect Upper # {})
  <2> HIDE DEF w, s, n
  <2> QED BY Zenon, <1>2
<1>6. InOneCase(input)
  BY Zenon, <1>5 DEF InOneCase
<1> HIDE DEF refused, decoded, result, I, s
<1> DEFINE m == n - s
<1>7. m \in Nat /\ Len(w) = m /\ n = s + m /\ \A i \in 1..m : w[i] = charset_rev(input[s + i])
  BY <1>4
<1>8. ASSUME NEW i \in 1..m
      PROVE  w[i] \in 0..31 /\ ToLower(input[s + i]) = charset[w[i] + 1]
  <2>1. w[i] = charset_rev(input[s + i]) /\ w[i] # -1
    <3> HIDE DEF w, m
    <3> QED BY Zenon, <1>5, <1>7
  <2> HIDE DEF w
  <2> QED BY Zenon, <2>1, CharsetRevFinds
<1>9. w \in Seq(0..31)
  <2>1. w \in [1..m -> 0..31]
    <3>1. w = [i \in 1..m |-> w[i]]
      OBVIOUS
    <3> HIDE DEF w, m
    <3> QED BY <1>8, <3>1
  <2> HIDE DEF w, m
  <2> QED BY Zenon, <1>7, <2>1, FunctionIsSeq
<1> HIDE DEF w, m, n
<1>10. m >= 6
  BY <1>5, <1>7
<1>11. Len(data) = m - 6 /\ data \o check = w
  <2> DEFINE S == 0..31
  <2>1. w \in Seq(S) /\ Len(w) = m /\ m \in Nat /\ m >= 6
    BY <1>7, <1>9, <1>10
  <2>2. data = SubSeq(w, 1, m - 6) /\ check = SubSeq(w, (m - 6) + 1, m)
    <3>1. Len(w) - 6 = m - 6 /\ Len(w) - 5 = (m - 6) + 1
      BY <2>1
    <3> QED BY Zenon, <2>1, <3>1
  <2> HIDE DEF S, data, check
  <2>3. Len(data) = m - 6
    BY <2>1, <2>2
  <2>4. SubSeq(w, 1, m - 6) \o SubSeq(w, (m - 6) + 1, m) = SubSeq(w, 1, m)
    <3>1. 1 \in 1..Len(w) + 1 /\ m - 6 \in 1 - 1..Len(w) /\ m \in m - 6..Len(w)
      BY <2>1
    <3> QED BY Zenon, <2>1, <3>1, ConcatAdjacentSubSeq
  <2>5. SubSeq(w, 1, m) = w
    BY <2>1, SubSeqFull
  <2> QED BY Zenon, <2>2, <2>3, <2>4, <2>5
<1>12. Absorb(HrpChecksum(hrp), w) \in Finals
  <2> HIDE DEF hrp, data, check
  <2> QED BY Zenon, <1>2, <1>11
<1>13. Accepted(input, s, w, result)
  <2>1. /\ s \in Nat /\ s >= 1 /\ input[s] = ONE /\ Len(w) >= 6 /\ Len(input) = s + Len(w)
        /\ Len(result.data) = Len(w) - 6
    <3> HIDE DEF data
    <3> QED BY <1>3, <1>4, <1>7, <1>10, <1>11 DEF n
  <2>2. \A i \in 1..Len(w) : ToLower(input[s + i]) = charset[w[i] + 1]
    BY Zenon, <1>7, <1>8
  <2>3. result.hrp = [i \in 1..s - 1 |-> ToLower(input[i])]
    BY <1>3
  <2>4. Absorb(HrpChecksum(result.hrp), w) \in Finals
    <3> HIDE DEF hrp
    <3> QED BY Zenon, <1>3, <1>12
  <2> HIDE DEF hrp, data, check, chk
  <2> QED BY Zenon, <1>6, <1>9, <2>1, <2>2, <2>3, <2>4 DEF Accepted
<1> QED BY Zenon, <1>13 DEF result

-----------------------------------------------------------------------------
(* A slip is noticed.                                                      *)

(* The checksum of a text is the constant of its encoding. *)
LEMMA ChecksumHolds ==
  ASSUME NEW hrp \in Seq(HrpCharacters), NEW data \in Seq(0..31), NEW enc \in {"BECH32", "BECH32M"}
  PROVE  /\ HrpChecksum(hrp) \in SUBSET (0..29)
         /\ Absorb(HrpChecksum(hrp), data \o ChecksumOf(hrp, data, enc)) \in Finals
<1> DEFINE start == HrpChecksum(hrp)
           const == bech32_final_constant(enc)
           word == SymDiff(Absorb(start, data \o [i \in 1..6 |-> 0]), const)
<1>1. start \in SUBSET (0..29)
  BY Zenon, HrpChecksumType
<1>2. const \in SUBSET (0..29) /\ const \in Finals
  BY Zenon, FinalConstants DEF Finals
<1>3. ChecksumOf(hrp, data, enc) = Symbols(word)
  BY DEF ChecksumOf
<1> HIDE DEF start, const
<1>4. word = SymDiff(Absorb(start, data \o [i \in 1..6 |-> 0]), const)
  OBVIOUS
<1> HIDE DEF word
<1>5. Absorb(start, data \o Symbols(word)) = const
  BY <1>1, <1>2, <1>4, ChecksumCloses
<1> QED BY Zenon, <1>1, <1>2, <1>3, <1>5 DEF start

(* A text with a slip at two neighbouring places that is accepted for the  *)
(* same prefix is the text.                                                *)
LEMMA SlipIsNoticed ==
  ASSUME NEW hrp \in Seq(HrpCharacters), NEW data \in Seq(0..31), NEW enc \in {"BECH32", "BECH32M"},
         Len(hrp) >= 1, Len(data) <= 66,
         NEW text, text = TextOf(hrp, data, enc),
         NEW input \in Seq(Nat), Len(input) = Len(text), NEW p \in 1..Len(text),
         AgreeBut(text, input, p),
         bech32_decode(input) # NotDecoded, bech32_decode(input).hrp = hrp
  PROVE  SameText(input, text)
<1> DEFINE decoded == bech32_decode(input)
           v == data \o ChecksumOf(hrp, data, enc)
           h == Len(hrp)
           d == Len(data)
           start == HrpChecksum(hrp)
<1>1. PICK s, w : Accepted(input, s, w, decoded)
  BY Zenon, DecodeAccepts
<1>2. /\ text \in Seq(HrpCharacters) /\ Len(text) = h + 7 + d
      /\ v \in Seq(0..31) /\ Len(v) = d + 6
      /\ \A i \in 1..h : text[i] = hrp[i]
      /\ text[h + 1] = ONE
      /\ \A i \in 1..Len(v) : text[(h + 1) + i] = charset[v[i] + 1]
  <2>1. HasShape(text, hrp, data, v, h)
    BY Zenon, TextHasShape
  <2>2. v \in Seq(0..31)
    <3> DEFINE S == 0..31
               c == ChecksumOf(hrp, data, enc)
    <3>1. data \in Seq(S) /\ c \in Seq(S)
      BY ChecksumType
    <3> HIDE DEF S, c
    <3>2. data \o c \in Seq(S)
      BY Zenon, <3>1, Concatenation
    <3> QED BY <3>2 DEF S, c
  <2> HIDE DEF v, h, d
  <2> QED BY Zenon, <2>1, <2>2 DEF HasShape, d
<1>3. h \in Nat /\ d \in Nat /\ h >= 1 /\ d <= 66 /\ p \in Nat /\ p >= 1
  <2>1. Len(text) \in Nat
    BY Zenon, <1>2, LenProperties
  <2> QED BY <2>1
<1>4. start \in SUBSET (0..29) /\ Absorb(start, v) \in Finals
  BY Zenon, ChecksumHolds
<1> HIDE DEF v, start, decoded
<1>5. /\ s \in Nat /\ s >= 1 /\ input[s] = ONE /\ w \in Seq(0..31) /\ Len(w) >= 6 /\ Len(input) = s + Len(w)
      /\ \A i \in 1..Len(w) : ToLower(input[s + i]) = charset[w[i] + 1]
      /\ InOneCase(input)
      /\ hrp = [i \in 1..s - 1 |-> ToLower(input[i])]
      /\ Absorb(start, w) \in Finals
  BY Zenon, <1>1 DEF Accepted, decoded, start
<1>6. s = h + 1 /\ \A i \in 1..h : ToLower(input[i]) = hrp[i]
  <2> DEFINE t == s - 1
             g == [i \in 1..t |-> ToLower(input[i])]
  <2>1. t \in Nat
    BY <1>5
  <2> HIDE DEF t
  <2>2. Len(g) = t /\ \A i \in 1..t : g[i] = ToLower(input[i])
    BY <2>1
  <2>3. hrp = g
    BY <1>5 DEF t
  <2> HIDE DEF g
  <2>4. t = h
    BY Zenon, <2>2, <2>3
  <2>5. s = t + 1
    BY <1>5 DEF t
  <2> QED BY Zenon, <2>2, <2>3, <2>4, <2>5
<1> HIDE DEF h, d
<1>7. Len(w) = Len(v) /\ Len(v) \in Nat /\ Len(v) <= 72 /\ Len(v) >= 6
  BY SMTT(30), <1>2, <1>3, <1>5, <1>6
<1>8. \A i \in 1..Len(v) : v[i] \in 0..31 /\ w[i] \in 0..31
  BY Zenon, <1>2, <1>5, <1>7, ElementOfSeq
<1>9. ASSUME NEW i \in 1..Len(v), (h + 1) + i # p, (h + 1) + i # p + 1
      PROVE  v[i] = w[i]
  <2> DEFINE n == (h + 1) + i
  <2>1. n \in 1..Len(text)
    BY <1>2, <1>3, <1>7
  <2>2. text[n] = input[n]
    BY Zenon, <1>9, <2>1 DEF AgreeBut
  <2>3. text[n] = charset[v[i] + 1] /\ ToLower(input[n]) = charset[w[i] + 1]
    BY Zenon, <1>2, <1>5, <1>6, <1>7
  <2>4. v[i] + 1 \in 1..32 /\ w[i] + 1 \in 1..32
    <3> DEFINE a == v[i]
               b == w[i]
    <3>1. a \in 0..31 /\ b \in 0..31
      BY Zenon, <1>8
    <3> HIDE DEF a, b
    <3>2. a + 1 \in 1..32 /\ b + 1 \in 1..32
      BY <3>1
    <3> QED BY <3>2 DEF a, b
  <2> HIDE DEF n
  <2>5. ToLower(text[n]) = text[n]
    <3>1. text[n] \notin Upper
      BY Zenon, <2>3, <2>4, CharsetType
    <3> QED BY Zenon, <3>1 DEF ToLower
  <2>6. charset[v[i] + 1] = charset[w[i] + 1]
    BY Zenon, <2>2, <2>3, <2>5
  <2>7. v[i] + 1 = w[i] + 1
    BY Zenon, <2>4, <2>6, CharsetDistinct
  <2> DEFINE a == v[i]
             b == w[i]
  <2>8. a \in 0..31 /\ b \in 0..31 /\ a + 1 = b + 1
    BY Zenon, <1>8, <2>7
  <2> HIDE DEF a, b
  <2>9. a = b
    BY <2>8
  <2> QED BY <2>9 DEF a, b
<1>10. v = w
  <2> DEFINE q == p - (h + 1)
             r == IF q < 1 THEN 1 ELSE IF q > Len(v) - 1 THEN Len(v) - 1 ELSE q
  <2>1. r \in 1..Len(v) - 1
    BY <1>3, <1>7
  <2>2. ASSUME NEW i \in 1..Len(v), i # r, i # r + 1
        PROVE  (h + 1) + i # p /\ (h + 1) + i # p + 1
    BY SMTT(30), <1>2, <1>3, <1>7, <2>2
  <2> HIDE DEF r
  <2>3. AgreeBut(v, w, r)
    BY Zenon, <1>9, <2>2 DEF AgreeBut
  <2> QED BY Zenon, <1>2, <1>4, <1>5, <1>7, <2>1, <2>3, NeighboursAreChecked
<1>11. ASSUME NEW n \in 1..Len(text) PROVE ToLower(input[n]) = text[n]
  <2>1. CASE n \in 1..h
    BY Zenon, <1>2, <1>6, <2>1
  <2>2. CASE n = h + 1
    <3>1. ToLower(ONE) = ONE
      BY DEF ToLower, ONE, Upper
    <3> QED BY Zenon, <1>2, <1>5, <1>6, <2>2, <3>1
  <2>3. CASE n > h + 1
    <3> DEFINE i == n - (h + 1)
    <3>1. i \in 1..Len(v) /\ n = (h + 1) + i
      BY <1>2, <1>3, <1>7, <2>3
    <3> HIDE DEF i
    <3> QED BY Zenon, <1>2, <1>5, <1>6, <1>7, <1>10, <3>1
  <2> QED BY <1>3, <2>1, <2>2, <2>3
<1>12. [n \in 1..Len(input) |-> ToLower(input[n])] = text
  <2>1. text = [n \in 1..Len(text) |-> text[n]]
    BY Zenon, <1>2, SeqIsFunction
  <2> QED BY Zenon, <1>11, <2>1
<1> QED BY Zenon, <1>5, <1>12 DEF SameText

(* The decoder of addresses and the one of tokens insist on a length: the  *)
(* number of symbols follows from it.                                      *)
LEMMA LengthIsKnown ==
  ASSUME NEW data, Len(data) \in Nat, NEW k \in {10, 20},
         Len(convert_bits(8, data, 5, FALSE)) = k
  PROVE  5 * Len(data) = 8 * k
<1> DEFINE n == Len(data)
           total == n * 5
           left == total % 8
           whole == total \div 8
           group(g) == Number([j \in 1..8 |-> Bit(data, 5, (g - 1) * 8 + j - 1)])
           refused == group(whole + 1) # 0 \/ left >= 5
           bytes == convert_bits(8, data, 5, FALSE)
<1>1. bytes = IF refused THEN <<>> ELSE [g \in 1..whole |-> group(g)]
  BY DEF convert_bits
<1>2. n \in Nat /\ k \in {10, 20} /\ Len(bytes) = k
  OBVIOUS
<1>3. total \in Nat /\ whole \in Nat /\ left \in 0..7 /\ total = 8 * whole + left /\ total = n * 5
  <2> HIDE DEF n
  <2> QED BY <1>2
<1> HIDE DEF bytes, n, total, whole, left, group
<1>4. ~refused
  <2> HIDE DEF refused
  <2> SUFFICES ASSUME refused PROVE FALSE
    OBVIOUS
  <2>1. Len(bytes) = 0
    BY <1>1
  <2> QED BY <1>2, <2>1
<1>5. Len(bytes) = whole
  <2>1. bytes = [g \in 1..whole |-> group(g)]
    BY <1>1, <1>4
  <2> QED BY <1>3, <2>1
<1>6. ~(left >= 5)
  BY <1>4
<1>7. 5 * n = 8 * k
  BY <1>2, <1>3, <1>5, <1>6
<1> QED BY <1>7 DEF n

(* A part of a string, by its length. *)
IsPart(s, n) == s \in Seq(Nat) /\ Len(s) = n

(* A part of a text has the length its borders give. *)
LEMMA PartOfSeq ==
  ASSUME NEW text \in Seq(Nat), NEW m \in Nat, NEW n \in Nat, m >= 1, n <= Len(text), m <= n + 1,
         NEW k, k = n - m + 1
  PROVE  IsPart(SubSeq(text, m, n), k)
<1>1. SubSeq(text, m, n) \in Seq(Nat)
  BY SubSeqType
<1>2. \A i \in m..n : text[i] \in Nat
  OBVIOUS
<1>3. Len(SubSeq(text, m, n)) = IF m <= n THEN n - m + 1 ELSE 0
  BY <1>2, SubSeqProperties, m \in Int, n \in Int
<1> QED BY <1>1, <1>3 DEF IsPart

(* Two parts joined. *)
LEMMA PartsJoin ==
  ASSUME NEW s, NEW k, IsPart(s, k), NEW t, NEW m, IsPart(t, m)
  PROVE  IsPart(s \o t, k + m) /\ Len(s \o t) = k + m
BY Zenon, Concatenation DEF IsPart

(* A copy of the same length is the text, in one of the cases, or differs  *)
(* at no more than two neighbouring places.                                *)
LEMMA CopyCases ==
  ASSUME NEW text \in Seq(HrpCharacters), NEW characters \in SUBSET Nat,
         NEW c \in ExactCopies(text) \union Slips(text, characters), Len(c) = Len(text)
  PROVE  SameText(c, text) \/ \E p \in 1..Len(text) : AgreeBut(text, c, p)
<1> DEFINE n == Len(text)
<1>1. n \in Nat /\ text = [i \in 1..n |-> text[i]] /\ \A i \in 1..n : text[i] \in HrpCharacters
  BY Zenon, LenProperties, SeqIsFunction, ElementOfSeq
<1>2. text \in Seq(Nat)
  <2>1. \A x \in HrpCharacters : x \in Nat
    BY DEF HrpCharacters
  <2>2. text \in [1..n -> Nat]
    BY <1>1, <2>1
  <2> QED BY <1>1, <2>2, FunctionIsSeq
<1>3. CASE c = text
  <2>1. \A i \in 1..n : ToLower(text[i]) = text[i] /\ text[i] \notin Upper
    BY <1>1 DEF ToLower, HrpCharacters
  <2>2. [i \in 1..Len(c) |-> ToLower(c[i])] = text
    BY Zenon, <1>1, <1>3, <2>1
  <2>3. ToSet(c) \intersect Upper = {}
    BY <1>3, <2>1 DEF ToSet
  <2> QED BY <2>2, <2>3 DEF SameText, InOneCase
<1>4. CASE c = [i \in 1..n |-> ToUpper(text[i])]
  <2>1. \A x \in HrpCharacters : ToLower(ToUpper(x)) = x /\ ToUpper(x) \notin Lower
    <3> TAKE x \in HrpCharacters
    <3>1. x \in 33..126 /\ x \notin 65..90
      BY DEF HrpCharacters, Upper
    <3>2. CASE x \in 97..122
      <4>1. ToUpper(x) = x - 32
        BY <3>2 DEF ToUpper, Lower
      <4>2. x - 32 \in 65..90 /\ x - 32 \notin 97..122 /\ (x - 32) + 32 = x
        BY <3>2
      <4>3. ToLower(x - 32) = x
        BY <4>2 DEF ToLower, Upper
      <4> QED BY ZenonT(30), <4>1, <4>2, <4>3 DEF Lower
    <3>3. CASE x \notin 97..122
      <4>1. ToUpper(x) = x
        BY <3>3 DEF ToUpper, Lower
      <4>2. ToLower(x) = x
        BY <3>1 DEF ToLower, Upper
      <4> QED BY Zenon, <3>3, <4>1, <4>2 DEF Lower
    <3> QED BY Zenon, <3>2, <3>3
  <2>2. \A i \in 1..n : c[i] = ToUpper(text[i])
    BY <1>4
  <2>3. \A i \in 1..n : ToLower(c[i]) = text[i] /\ c[i] \notin Lower
    BY Zenon, <1>1, <2>1, <2>2
  <2>4. [i \in 1..Len(c) |-> ToLower(c[i])] = text
    BY Zenon, <1>1, <2>3
  <2>5. ToSet(c) \intersect Lower = {}
    BY <2>3 DEF ToSet
  <2> QED BY <2>4, <2>5 DEF SameText, InOneCase
<1>5. CASE \E i \in 1..n, ch \in characters : c = [text EXCEPT ![i] = ch]
  <2>1. PICK i \in 1..n, ch \in characters : c = [text EXCEPT ![i] = ch]
    BY Zenon, <1>5
  <2>2. \A j \in 1..n : j # i => text[j] = c[j]
    BY <1>1, <2>1
  <2> QED BY Zenon, <2>2 DEF AgreeBut
<1>6. CASE \E i \in 1..n : c = RemoveAt(text, i)
  <2>1. PICK i \in 1..n : c = SubSeq(text, 1, i - 1) \o SubSeq(text, i + 1, n)
    BY Zenon, <1>6 DEF RemoveAt
  <2>2. IsPart(SubSeq(text, 1, i - 1), i - 1)
    BY SMTT(30), <1>1, <1>2, <2>1, PartOfSeq
  <2>3. IsPart(SubSeq(text, i + 1, n), n - i)
    BY SMTT(30), <1>1, <1>2, <2>1, PartOfSeq
  <2>4. Len(c) = (i - 1) + (n - i)
    <3> DEFINE s == SubSeq(text, 1, i - 1)
               t == SubSeq(text, i + 1, n)
    <3>1. IsPart(s, i - 1) /\ IsPart(t, n - i) /\ c = s \o t
      BY Zenon, <2>1, <2>2, <2>3
    <3> DEFINE k == i - 1
               m == n - i
    <3>2. IsPart(s, k) /\ IsPart(t, m) /\ c = s \o t
      BY <3>1
    <3> HIDE DEF s, t, n, k, m
    <3>3. Len(c) = k + m
      BY Zenon, <3>2, PartsJoin
    <3> QED BY <3>3 DEF k, m
  <2> QED BY <1>1, <2>4
<1>7. CASE \E i \in 1..n + 1, ch \in characters : c = InsertAt(text, i, ch)
  <2>1. PICK i \in 1..n + 1, ch \in characters :
          c = (SubSeq(text, 1, i - 1) \o <<ch>>) \o SubSeq(text, i, n)
    BY Zenon, <1>7 DEF InsertAt
  <2>2. IsPart(SubSeq(text, 1, i - 1), i - 1)
    BY SMTT(30), <1>1, <1>2, <2>1, PartOfSeq
  <2>3. IsPart(SubSeq(text, i, n), n - i + 1)
    BY SMTT(30), <1>1, <1>2, <2>1, PartOfSeq
  <2>4. IsPart(<<ch>>, 1)
    BY DEF IsPart
  <2>5. IsPart(SubSeq(text, 1, i - 1) \o <<ch>>, (i - 1) + 1)
    BY Zenon, <2>2, <2>4, PartsJoin
  <2>6. Len(c) = ((i - 1) + 1) + (n - i + 1)
    <3> DEFINE s == SubSeq(text, 1, i - 1) \o <<ch>>
               t == SubSeq(text, i, n)
    <3>1. IsPart(s, (i - 1) + 1) /\ IsPart(t, n - i + 1) /\ c = s \o t
      BY Zenon, <2>1, <2>3, <2>5
    <3> DEFINE k == (i - 1) + 1
               m == n - i + 1
    <3>2. IsPart(s, k) /\ IsPart(t, m) /\ c = s \o t
      BY <3>1
    <3> HIDE DEF s, t, n, k, m
    <3>3. Len(c) = k + m
      BY Zenon, <3>2, PartsJoin
    <3> QED BY <3>3 DEF k, m
  <2> QED BY <1>1, <2>6
<1>8. CASE \E i \in 1..n - 1 : c = [text EXCEPT ![i] = text[i + 1], ![i + 1] = text[i]]
  <2>1. PICK i \in 1..n - 1 : c = [text EXCEPT ![i] = text[i + 1], ![i + 1] = text[i]]
    BY Zenon, <1>8
  <2>2. i \in 1..n
    BY <1>1
  <2>3. \A j \in 1..n : j # i /\ j # i + 1 => text[j] = c[j]
    BY <1>1, <2>1
  <2> QED BY Zenon, <2>2, <2>3 DEF AgreeBut
<1>9. \/ c = text \/ c = [i \in 1..n |-> ToUpper(text[i])]
      \/ \E i \in 1..n, ch \in characters : c = [text EXCEPT ![i] = ch]
      \/ \E i \in 1..n : c = RemoveAt(text, i)
      \/ \E i \in 1..n + 1, ch \in characters : c = InsertAt(text, i, ch)
      \/ \E i \in 1..n - 1 : c = [text EXCEPT ![i] = text[i + 1], ![i + 1] = text[i]]
  <2>1. c \in ExactCopies(text) \/ c \in Slips(text, characters)
    OBVIOUS
  <2>2. c \in ExactCopies(text) => c = text \/ c = [i \in 1..n |-> ToUpper(text[i])]
    BY Zenon DEF ExactCopies
  <2>3. c \in Slips(text, characters) =>
          \/ \E i \in 1..n, ch \in characters : c = [text EXCEPT ![i] = ch]
          \/ \E i \in 1..n : c = RemoveAt(text, i)
          \/ \E i \in 1..n + 1, ch \in characters : c = InsertAt(text, i, ch)
          \/ \E i \in 1..n - 1 : c = [text EXCEPT ![i] = text[i + 1], ![i + 1] = text[i]]
    BY DEF Slips
  <2> QED BY Zenon, <2>1, <2>2, <2>3
<1> QED BY Zenon, <1>3, <1>4, <1>5, <1>6, <1>7, <1>8, <1>9

(* A text of addresses and tokens is a string of characters. *)
LEMMA TextIsString ==
  ASSUME NEW text \in Seq(HrpCharacters)
  PROVE  text \in Seq(Nat)
<1> DEFINE n == Len(text)
<1>1. \A x \in HrpCharacters : x \in Nat
  BY DEF HrpCharacters
<1>2. \A i \in 1..n : text[i] \in Nat
  BY <1>1, ElementOfSeq
<1>3. text = [i \in 1..n |-> text[i]] /\ n \in Nat
  BY SeqIsFunction
<1>4. text \in [1..n -> Nat]
  BY <1>2, <1>3
<1> QED BY <1>3, <1>4, FunctionIsSeq

(* A copy of the same length that is accepted for the same prefix is the   *)
(* text.                                                                   *)
LEMMA CopyIsNoticed ==
  ASSUME NEW hrp \in Seq(HrpCharacters), NEW data \in Seq(0..31), NEW enc \in {"BECH32", "BECH32M"},
         Len(hrp) >= 1, Len(data) <= 66,
         NEW text, text = TextOf(hrp, data, enc), NEW characters \in SUBSET Nat,
         NEW c \in ExactCopies(text) \union Slips(text, characters), Len(c) = Len(text),
         bech32_decode(c) # NotDecoded, bech32_decode(c).hrp = hrp
  PROVE  SameText(c, text)
<1>1. text \in Seq(HrpCharacters)
  BY TextShape
<1>2. text \in Seq(Nat)
  BY Zenon, <1>1, TextIsString
<1>3. c \in Seq(Nat)
  BY Zenon, <1>2, CopyType
<1>4. SameText(c, text) \/ \E p \in 1..Len(text) : AgreeBut(text, c, p)
  BY Zenon, <1>1, CopyCases
<1>5. ASSUME NEW p \in 1..Len(text), AgreeBut(text, c, p) PROVE SameText(c, text)
  BY Zenon, <1>3, <1>5, SlipIsNoticed
<1> QED BY Zenon, <1>4, <1>5

(* An accepted text has its prefix, the separator, its data and six more.  *)
LEMMA AcceptedLength ==
  ASSUME NEW c \in Seq(Nat), bech32_decode(c) # NotDecoded
  PROVE  /\ Len(bech32_decode(c).data) \in Nat
         /\ Len(c) = Len(bech32_decode(c).hrp) + 7 + Len(bech32_decode(c).data)
<1> DEFINE decoded == bech32_decode(c)
<1>1. PICK s, w : Accepted(c, s, w, decoded)
  BY Zenon, DecodeAccepts
<1> HIDE DEF decoded
<1>2. /\ s \in Nat /\ s >= 1 /\ w \in Seq(0..31) /\ Len(w) >= 6 /\ Len(c) = s + Len(w)
      /\ decoded.hrp = [i \in 1..s - 1 |-> ToLower(c[i])]
      /\ Len(decoded.data) = Len(w) - 6
  BY Zenon, <1>1 DEF Accepted
<1>3. Len(w) \in Nat
  BY <1>2
<1>4. Len(decoded.hrp) = s - 1
  BY <1>2
<1>5. Len(decoded.data) \in Nat /\ Len(c) = Len(decoded.hrp) + 7 + Len(decoded.data)
  BY <1>2, <1>3, <1>4
<1> QED BY <1>5 DEF decoded

(* The invariant makes a copy that reads back the text. *)
LEMMA TextsRefuse == Texts => BadCopyRefused
<1> SUFFICES ASSUME Texts, phase = "copied", ReadBack # <<>>, Versioned => Len(copy) = Len(shown)
             PROVE  SameText(copy, shown)
  BY DEF BadCopyRefused
<1>1. Given /\ shown = TextShown /\ copy \in ExactCopies(shown) \union Slips(shown, Characters)
  BY DEF Texts
<1>2. Characters \in SUBSET Nat
  BY AddressAssumption
<1> DEFINE decoded == bech32_decode(copy)
           bytes == convert_bits(8, decoded.data, 5, FALSE)
<1>3. ASSUME NEW hrp \in Seq(HrpCharacters), NEW data \in Seq(0..31),
             NEW enc \in {"BECH32", "BECH32M"}, Len(hrp) >= 1, Len(data) <= 66,
             shown = TextOf(hrp, data, enc),
             decoded # NotDecoded, decoded.hrp = hrp, Len(copy) = Len(shown)
      PROVE  SameText(copy, shown)
  BY Zenon, <1>1, <1>2, <1>3, CopyIsNoticed
<1>4. CASE ~Versioned
  <2> DEFINE data == Groups(Bytes)
             enc == "BECH32"
             k == IF IsToken THEN 10 ELSE 20
  <2>1. /\ shown = TextOf(Hrp, data, enc) /\ Hrp \in Seq(HrpCharacters) /\ Len(Hrp) >= 1
        /\ data \in Seq(0..31) /\ Len(data) \in 1..64
    BY <1>1, <1>4, PlainTexts
  <2>2. Bytes \in Seq(0..255) /\ Len(Bytes) = k
    <3>1. /\ Bytes \in Seq(0..255)
          /\ IF IsToken THEN Bytes = prog /\ Len(prog) = 10 ELSE Len(Bytes) = 20
      BY <1>1, <1>4, PlainPrograms
    <3> QED BY <3>1
  <2>3. k \in {10, 20}
    OBVIOUS
  <2>4. decoded.enc # "NONE" \/ decoded.hrp = HRP_TOKEN
    <3>1. CASE IsToken
      <4>1. ReadBack = ReadToken
        BY <1>4, <3>1 DEF ReadBack
      <4>2. ReadToken = IF decoded.hrp = HRP_TOKEN /\ Len(bytes) = ZTS_LEN THEN bytes ELSE <<>>
        BY DEF ReadToken
      <4> HIDE DEF decoded, bytes
      <4> QED BY Zenon, <4>1, <4>2
    <3>2. CASE ~IsToken
      <4>1. ReadBack = bech32_addr_decode(HRP_ADDRESS, copy)
        BY <1>4, <3>2 DEF ReadBack
      <4>2. bech32_addr_decode(HRP_ADDRESS, copy) =
              IF \/ decoded.enc = "NONE" \/ decoded.hrp # HRP_ADDRESS
                 \/ Len(decoded.data) \notin 1..64
                 \/ Len(bytes) # ADDRESS_LEN
              THEN <<>> ELSE bytes
        BY DEF bech32_addr_decode
      <4> HIDE DEF decoded, bytes
      <4> QED BY Zenon, <4>1, <4>2
    <3> QED BY Zenon, <3>1, <3>2
  <2>5. decoded.hrp = Hrp /\ Len(bytes) = k
    <3>1. CASE IsToken
      <4>1. ReadBack = ReadToken /\ Hrp = HRP_TOKEN /\ k = ZTS_LEN
        BY <1>4, <3>1 DEF ReadBack, Hrp, ZTS_LEN
      <4>2. ReadToken = IF decoded.hrp = HRP_TOKEN /\ Len(bytes) = ZTS_LEN THEN bytes ELSE <<>>
        BY DEF ReadToken
      <4> HIDE DEF decoded, bytes, k
      <4> QED BY Zenon, <4>1, <4>2
    <3>2. CASE ~IsToken
      <4>1. ReadBack = bech32_addr_decode(HRP_ADDRESS, copy) /\ Hrp = HRP_ADDRESS /\ k = ADDRESS_LEN
        BY <1>4, <3>2 DEF ReadBack, Hrp, ADDRESS_LEN
      <4>2. bech32_addr_decode(HRP_ADDRESS, copy) =
              IF \/ decoded.enc = "NONE" \/ decoded.hrp # HRP_ADDRESS
                 \/ Len(decoded.data) \notin 1..64
                 \/ Len(bytes) # ADDRESS_LEN
              THEN <<>> ELSE bytes
        BY DEF bech32_addr_decode
      <4> HIDE DEF decoded, bytes, k
      <4> QED BY Zenon, <4>1, <4>2
    <3> QED BY Zenon, <3>1, <3>2
  <2>6. decoded # NotDecoded
    <3>1. HRP_TOKEN # <<>>
      BY DEF HRP_TOKEN
    <3>2. NotDecoded.enc = "NONE" /\ NotDecoded.hrp = <<>>
      BY DEF NotDecoded
    <3> HIDE DEF decoded
    <3> QED BY Zenon, <2>4, <3>1, <3>2
  <2>7. shown \in Seq(HrpCharacters) /\ Len(shown) = Len(Hrp) + 7 + Len(data)
    <3> HIDE DEF data, enc
    <3>1. LET text == TextOf(Hrp, data, enc)
          IN  text \in Seq(HrpCharacters) /\ Len(text) = Len(Hrp) + 7 + Len(data)
      BY <2>1, TextShape
    <3> QED BY <2>1, <3>1
  <2>8. copy \in Seq(Nat)
    <3>1. shown \in Seq(Nat)
      BY Zenon, <2>7, TextIsString
    <3> QED BY Zenon, <1>1, <1>2, <3>1, CopyType
  <2>9. Len(decoded.data) \in Nat /\ Len(copy) = Len(decoded.hrp) + 7 + Len(decoded.data)
    BY Zenon, <2>6, <2>8, AcceptedLength
  <2>10. 5 * Len(data) = 8 * k
    <3> DEFINE n == Len(Bytes)
               m == Len(data)
    <3>1. m = (8 * n + 4) \div 5 /\ n = k
      BY <2>2, GroupsType
    <3> HIDE DEF m, n, data
    <3>2. 5 * m = 8 * k
      BY <2>3, <3>1
    <3> QED BY <3>2 DEF m
  <2>11. 5 * Len(decoded.data) = 8 * k
    <3> DEFINE d == decoded.data
    <3>1. Len(d) \in Nat /\ Len(convert_bits(8, d, 5, FALSE)) = k
      BY <2>5, <2>9
    <3> HIDE DEF d, k
    <3>2. 5 * Len(d) = 8 * k
      BY Zenon, <2>3, <3>1, LengthIsKnown
    <3> QED BY <3>2 DEF d
  <2>12. Len(copy) = Len(shown)
    <3> DEFINE m == Len(data)
               q == Len(decoded.data)
               h == Len(Hrp)
    <3>1. m \in Nat /\ q \in Nat /\ 5 * m = 8 * k /\ 5 * q = 8 * k
      BY <2>1, <2>9, <2>10, <2>11
    <3>2. Len(copy) = h + 7 + q /\ Len(shown) = h + 7 + m
      BY <2>5, <2>7, <2>9
    <3> HIDE DEF m, q, h, k, data, decoded
    <3>3. m = q
      BY <3>1
    <3> QED BY <3>2, <3>3
  <2>13. Len(data) <= 66 /\ enc \in {"BECH32", "BECH32M"}
    <3> DEFINE m == Len(data)
    <3>1. m \in 1..64
      BY <2>1
    <3> HIDE DEF m
    <3>2. m <= 66
      BY <3>1
    <3> QED BY <3>2 DEF m
  <2> HIDE DEF data, enc, decoded
  <2> QED BY Zenon, <1>3, <2>1, <2>5, <2>6, <2>12, <2>13
<1>5. CASE Versioned
  <2> DEFINE v == version[1]
             data == <<v>> \o Groups(prog)
             enc == Encoding(v)
             result == segwit_addr_decode(HRP_ADDRESS, copy)
  <2>1. Proper
    <3>1. phase # "given" /\ shown # <<>>
      BY DEF Texts
    <3> QED BY <3>1, TextsEncode DEF EncodesWhatIsProper
  <2>2. /\ shown = TextOf(HRP_ADDRESS, data, enc) /\ data \in Seq(0..31)
        /\ Len(data) \in 2..65
    BY <1>1, <1>5, <2>1, VersionedTexts
  <2>3. enc \in {"BECH32", "BECH32M"}
    BY DEF Encoding
  <2>4. result # NotSegwit
    <3> HIDE DEF result
    <3>1. ReadBack = IF result = NotSegwit THEN <<>> ELSE <<result.witver>> \o result.witprog
      BY <1>5 DEF ReadBack, ReadVersioned, result
    <3> QED BY Zenon, <3>1
  <2>5. decoded.enc # "NONE" /\ decoded.hrp = HRP_ADDRESS
    <3> DEFINE witver == Head(decoded.data)
               witprog == convert_bits(8, Tail(decoded.data), 5, FALSE)
    <3>1. result = IF \/ decoded.enc = "NONE" \/ Len(decoded.data) \notin 1..65
                      \/ decoded.hrp # HRP_ADDRESS
                      \/ witver > 16 \/ decoded.enc # Encoding(witver)
                      \/ ~WitnessLengthOK(witver, Len(witprog))
                   THEN NotSegwit
                   ELSE [witver |-> witver, witprog |-> witprog]
      BY DEF segwit_addr_decode
    <3> HIDE DEF result, decoded, witver, witprog
    <3> QED BY Zenon, <2>4, <3>1
  <2>6. decoded # NotDecoded
    <3>1. NotDecoded.enc = "NONE"
      BY DEF NotDecoded
    <3> HIDE DEF decoded
    <3> QED BY Zenon, <2>5, <3>1
  <2>7. Len(HRP_ADDRESS) >= 1 /\ HRP_ADDRESS \in Seq(HrpCharacters)
    BY HrpsAreProper
  <2>8. Len(data) <= 66
    <3> DEFINE m == Len(data)
    <3>1. m \in 2..65
      BY <2>2
    <3> HIDE DEF m
    <3>2. m <= 66
      BY <3>1
    <3> QED BY <3>2 DEF m
  <2>9. Len(copy) = Len(shown)
    BY <1>5
  <2> HIDE DEF data, enc, decoded
  <2> QED BY Zenon, <1>3, <2>2, <2>3, <2>5, <2>6, <2>7, <2>8, <2>9
<1> QED BY Zenon, <1>4, <1>5

(* bech32_decode refuses every text with a character misread or two        *)
(* neighbours exchanged, whatever was encoded, and the lengths the         *)
(* decoders of addresses and tokens insist on refuse one with a character  *)
(* made up or left out.                                                    *)
THEOREM SpecBadCopyRefused == Spec => []BadCopyRefused
BY SpecTexts, TextsRefuse, PTL
=============================================================================
