-------------------------- MODULE AmountFormatProofs --------------------------
(***************************************************************************)
(* What AmountFormat promises of the amount of a send review, proved for   *)
(* every width of its numbers: the digits shown are those of the amount    *)
(* that is signed, and the text fits its buffers.                          *)
(***************************************************************************)
EXTENDS AmountFormat, DataLemmas, SequenceTheorems

-----------------------------------------------------------------------------
(* The values of n bytes and of n digits are powers.                       *)

(* The numbers of values of n bytes are the powers of BYTE. *)
LEMMA ValuesArePowers == Powers(Values, BYTE)
<1>1. BYTE \in Nat \ {0}
  BY AmountAssumption
<1>2. PICK f : Powers(f, BYTE)
  BY <1>1, PowersExist
<1>3. f = [n \in Nat |-> IF n = 0 THEN 1 ELSE BYTE * f[n - 1]]
  BY <1>1, <1>2, PowersSolve
<1>4. Values = [n \in Nat |-> IF n = 0 THEN 1 ELSE BYTE * Values[n - 1]]
  BY <1>3 DEF Values
<1> QED BY <1>1, <1>4, SolutionsArePowers

(* The numbers of values of n digits are the powers of ten. *)
LEMMA TensArePowers == Powers(Tens, 10)
<1>1. 10 \in Nat \ {0}
  OBVIOUS
<1>2. PICK f : Powers(f, 10)
  BY <1>1, PowersExist
<1>3. f = [n \in Nat |-> IF n = 0 THEN 1 ELSE 10 * f[n - 1]]
  BY <1>1, <1>2, PowersSolve
<1>4. Tens = [n \in Nat |-> IF n = 0 THEN 1 ELSE 10 * Tens[n - 1]]
  BY <1>3 DEF Tens
<1> QED BY <1>1, <1>4, SolutionsArePowers

-----------------------------------------------------------------------------
(* bigint_from_bytes: the significant bytes, and their dwords.             *)

(* s is n digits in base b. *)
Is(s, n, b) == s \in Seq(Nat) /\ Len(s) = n /\ Below(s, n, b)

(* The widths of bytes, by name. *)
LEMMA FactsOfBytes == BYTE \in Nat \ {0} /\ BYTE - 1 \in Nat /\ DWORD_BYTES \in Nat \ {0}
                      /\ AMOUNT_LEN \in Nat
BY AmountAssumption

(* NatOf is the value of the bytes. *)
LEMMA NatOfIs ==
  ASSUME NEW s, NEW n \in Nat, Len(s) = n, Digital(s, n)
  PROVE  NatOf(s) = Val(s, n, BYTE)
<1> DEFINE f == CHOOSE first : first = [i \in 0..n |-> IF i = 0 THEN 0 ELSE first[i - 1] * BYTE + s[i]]
<1>1. NatOf(s) = f[n]
  BY DEF NatOf
<1>2. PICK g : Horner(g, s, BYTE, n)
  BY Zenon, FactsOfBytes, HornerExists DEF Digital
<1>3. g = [i \in 0..n |-> IF i = 0 THEN 0 ELSE g[i - 1] * BYTE + s[i]]
  BY <1>2, FactsOfBytes, HornerSolves
<1>4. f = [i \in 0..n |-> IF i = 0 THEN 0 ELSE f[i - 1] * BYTE + s[i]]
  BY Zenon, <1>3
<1> HIDE DEF f
<1>5. BYTE \in Nat /\ \A i \in 1..n : s[i] \in Nat
  BY FactsOfBytes DEF Digital
<1>6. Horner(f, s, BYTE, n)
  BY Zenon, <1>4, <1>5, SolutionsAreHorner
<1> QED BY <1>1, <1>6, FactsOfBytes, ValIs

(* An element that no other is below is the least. *)
LEMMA LeastOf ==
  ASSUME NEW I \in SUBSET Nat, NEW x \in I, \A y \in I : x <= y
  PROVE  I # {} /\ Min(I) = x
<1>1. \A z \in I : (\A y \in I : z <= y) => z = x
  <2> TAKE z \in I
  <2> HAVE \A y \in I : z <= y
  <2>1. z <= x /\ x <= z /\ x \in Nat /\ z \in Nat
    OBVIOUS
  <2> QED BY <2>1
<1>2. Min(I) = CHOOSE z \in I : \A y \in I : z <= y
  BY DEF Min
<1>3. (CHOOSE z \in I : \A y \in I : z <= y) = x
  BY Zenon, <1>1
<1> QED BY <1>2, <1>3

(* Dropping the leading zeros keeps the value. *)
LEMMA SignificantIs ==
  ASSUME NEW s, NEW n \in Nat, Is(s, n, BYTE)
  PROVE  \E m \in 0..n : /\ Is(Significant(s), m, BYTE)
                         /\ Val(Significant(s), m, BYTE) = Val(s, n, BYTE)
                         /\ m > 0 => Significant(s)[1] # 0
<1> DEFINE I == {i \in 1..Len(s) : s[i] # 0}
           first == IF I # {} THEN Min(I) ELSE 0
<1>1. Significant(s) = IF first = 0 THEN <<>> ELSE SubSeq(s, first, Len(s))
  BY DEF Significant, SelectInSeq
<1>2. Digital(s, n) /\ Len(s) = n /\ s \in Seq(Nat)
  BY FactsOfBytes, BelowIsDigital DEF Is
<1>3. CASE I = {}
  <2>1. \A i \in 1..n : s[i] = 0
    BY <1>2, <1>3
  <2>2. Val(s, n, BYTE) = 0
    BY <2>1, FactsOfBytes, ValOfZeros
  <2>3. Significant(s) = <<>>
    BY <1>1, <1>3
  <2>4. Is(<<>>, 0, BYTE)
    BY DEF Is, Below
  <2>5. Val(<<>>, 0, BYTE) = 0
    BY FactsOfBytes, ValZero
  <2>6. 0 \in 0..n /\ ~(0 > 0)
    OBVIOUS
  <2> QED BY Zenon, <2>2, <2>3, <2>4, <2>5, <2>6
<1>4. CASE I # {}
  <2>1. I \in SUBSET Nat
    OBVIOUS
  <2>2. PICK x \in I : \A y \in I : x <= y
    <3> HIDE DEF I
    <3> QED BY <1>4, <2>1, LeastElement
  <2>3. Min(I) = x
    <3> HIDE DEF I
    <3> QED BY <2>1, <2>2, LeastOf
  <2>4. x \in 1..n /\ s[x] # 0 /\ \A i \in 1..x - 1 : s[i] = 0
    <3>1. x \in 1..n /\ s[x] # 0
      BY <1>2
    <3>2. ASSUME NEW i \in 1..x - 1 PROVE s[i] = 0
      <4>1. i \in 1..n /\ ~(x <= i)
        BY <3>1
      <4> QED BY <4>1, <2>2, <1>2
    <3> QED BY <3>1, <3>2
  <2>5. first = x
    BY <2>3, <1>4
  <2> DEFINE p == x - 1
             m == n - p
             t == SubSeq(s, x, n)
  <2>6. Significant(s) = t
    <3> HIDE DEF first
    <3> QED BY <1>1, <1>2, <2>4, <2>5
  <2>7. p \in Nat /\ m \in 0..n /\ m \in Nat /\ m > 0 /\ p + m = n /\ p + 1 = x
    BY <2>4
  <2>8. t \in Seq(Nat) /\ Len(t) = m /\ \A i \in 1..m : t[i] = s[p + i]
    BY <1>2, <2>4
  <2> HIDE DEF first, t, p, m
  <2>9. Is(t, m, BYTE)
    <3>1. Below(t, m, BYTE)
      <4>1. \A i \in 1..m : p + i \in 1..n
        BY <2>7
      <4>2. Below(s, n, BYTE)
        BY DEF Is
      <4> QED BY <4>1, <4>2, <2>8 DEF Below
    <3> QED BY <3>1, <2>8 DEF Is
  <2>10. Val(s, p + m, BYTE) = Val(t, m, BYTE)
    <3>1. Digital(s, p + m) /\ AreZeros(s, p)
      BY <1>2, <2>4, <2>7 DEF p, AreZeros
    <3>2. IsSlice(t, m, s, p)
      BY <2>8 DEF IsSlice
    <3> QED BY <3>1, <3>2, <2>7, FactsOfBytes, ValuesArePowers, ValBehindZeros
  <2>11. t[1] # 0
    BY <2>4, <2>7, <2>8
  <2> QED BY <2>6, <2>7, <2>9, <2>10, <2>11
<1> QED BY <1>3, <1>4

-----------------------------------------------------------------------------
(* A slice of bytes is bytes. *)
LEMMA SliceIs ==
  ASSUME NEW s, NEW n \in Nat, NEW b \in Nat \ {0}, Is(s, n, b),
         NEW p \in Nat, NEW m \in Nat, p + m <= n
  PROVE  /\ Is(SubSeq(s, p + 1, p + m), m, b)
         /\ \A i \in 1..m : SubSeq(s, p + 1, p + m)[i] = s[p + i]
<1> DEFINE t == SubSeq(s, p + 1, p + m)
<1>1. s \in Seq(Nat) /\ Len(s) = n
  BY DEF Is
<1>2. t \in Seq(Nat) /\ Len(t) = m /\ \A i \in 1..m : t[i] = s[p + i]
  BY <1>1
<1> HIDE DEF t
<1>3. Below(t, m, b)
  <2>1. \A i \in 1..m : p + i \in 1..n
    OBVIOUS
  <2>2. Below(s, n, b)
    BY DEF Is
  <2> QED BY <2>1, <2>2, <1>2 DEF Below
<1>4. Is(t, m, b)
  BY <1>2, <1>3 DEF Is
<1> QED BY <1>2, <1>4 DEF t

(* The value of bytes up to the end of a slice. *)
LEMMA ValOfSlice ==
  ASSUME NEW s, NEW n \in Nat, Is(s, n, BYTE),
         NEW p \in Nat, NEW m \in Nat, p + m <= n
  PROVE  /\ NatOf(SubSeq(s, p + 1, p + m)) \in Nat
         /\ NatOf(SubSeq(s, p + 1, p + m)) < Values[m]
         /\ Val(s, p + m, BYTE) = Val(s, p, BYTE) * Values[m] + NatOf(SubSeq(s, p + 1, p + m))
<1> DEFINE t == SubSeq(s, p + 1, p + m)
<1>1. Is(t, m, BYTE) /\ \A i \in 1..m : t[i] = s[p + i]
  BY FactsOfBytes, SliceIs
<1> HIDE DEF t
<1>2. Digital(t, m) /\ Len(t) = m /\ Below(t, m, BYTE)
  BY <1>1, FactsOfBytes, BelowIsDigital DEF Is
<1>3. NatOf(t) = Val(t, m, BYTE)
  BY <1>2, NatOfIs
<1>4. Val(t, m, BYTE) \in Nat /\ Val(t, m, BYTE) < Values[m]
  BY <1>2, FactsOfBytes, ValType, ValBound, ValuesArePowers
<1>5. Digital(s, p + m) /\ p + m \in Nat
  <2>1. Digital(s, n)
    BY FactsOfBytes, BelowIsDigital DEF Is
  <2> QED BY <2>1 DEF Digital
<1>6. Val(s, p + m, BYTE) = Val(s, p, BYTE) * Values[m] + Val(t, m, BYTE)
  BY <1>1, <1>5, FactsOfBytes, ValuesArePowers, ValSplit
<1> QED BY <1>3, <1>4, <1>6 DEF t

(* The value of the first c digits of d, the least significant first. *)
Reversed(d, c) == [j \in 1..c |-> d[c - j + 1]]
Low(d, c, b) == Val(Reversed(d, c), c, b)

(* d is c dwords, the least significant first, of value v. *)
AreDwords(d, c, v) ==
  /\ d \in Seq(Nat) /\ Len(d) = c /\ Below(d, c, DWORD)
  /\ Low(d, c, DWORD) = v

(* A dword has the values of its bytes. *)
LEMMA FactsOfDword == DWORD \in Nat \ {0} /\ DWORD = Values[DWORD_BYTES]
BY ValuesArePowers, FactsOfBytes DEF Powers, DWORD

(* The dwords have the value of the bytes. *)
LEMMA DwordsAre ==
  ASSUME NEW s, NEW n \in Nat \ {0}, Is(s, n, BYTE)
  PROVE  \E c \in Nat : AreDwords(Dwords(s), c, Val(s, n, BYTE))
<1> DEFINE B == DWORD_BYTES
           c == (n + B - 1) \div B
           from(k) == n - k * B + 1
           piece(k) == SubSeq(s, IF from(k) < 1 THEN 1 ELSE from(k), n - (k - 1) * B)
           d == [k \in 1..c |-> NatOf(piece(k))]
           r == Reversed(d, c)
           at(j) == n - (c - j) * B
<1>1. B \in Nat \ {0} /\ Len(s) = n /\ Digital(s, n)
  BY FactsOfBytes, BelowIsDigital DEF Is
<1>2. Dwords(s) = d
  BY <1>1 DEF Dwords
<1> HIDE DEF B
<1>3. c \in Nat /\ c >= 1 /\ (c - 1) * B < n /\ n <= c * B
  <2> DEFINE a == n + B - 1
             r0 == a % B
  <2>2. a = n + B - 1 /\ a \in Int /\ c = a \div B
    BY <1>1
  <2> HIDE DEF a, c
  <2>1. a \in Int /\ c \in Int /\ r0 \in 0..B - 1 /\ a = B * c + r0
    BY <1>1, <2>2, DivMod
  <2> HIDE DEF c, r0, a
  <2>3. n <= B * c /\ B * c - B < n
    <3> DEFINE q == B * c
    <3>1. q \in Int
      BY <1>1, <2>1
    <3>2. a = q + r0
      BY <2>1
    <3> HIDE DEF q
    <3>3. n <= q /\ q - B < n
      BY <1>1, <2>1, <2>2, <3>1, <3>2
    <3> QED BY <3>3 DEF q
  <2>4. B * c = c * B /\ B * c - B = (c - 1) * B
    BY <1>1, <2>1
  <2>5. c >= 1
    <3> SUFFICES ASSUME c <= 0 PROVE FALSE
      BY <2>1
    <3> DEFINE q == B * c
    <3>1. q <= 0 /\ q \in Int
      BY <1>1, <2>1
    <3>2. n <= q
      BY <2>3
    <3> HIDE DEF q
    <3> QED BY <3>1, <3>2
  <2> QED BY <2>1, <2>3, <2>4, <2>5
<1> HIDE DEF c
<1>4. /\ NatOf(piece(c)) = Val(s, at(1), BYTE) /\ NatOf(piece(c)) \in Nat
      /\ NatOf(piece(c)) < DWORD /\ at(1) \in Nat /\ at(1) <= n
  <2> DEFINE m == n - (c - 1) * B
  <2>0. (c - 1) * B \in Nat /\ c * B = (c - 1) * B + B /\ at(1) = m
    BY <1>1, <1>3
  <2>1. m \in 1..n /\ m <= B /\ from(c) <= 1 /\ 0 + m <= n /\ 0 \in Nat /\ m \in Nat
    BY <1>1, <1>3, <2>0
  <2>2. piece(c) = SubSeq(s, 0 + 1, 0 + m)
    <3> DEFINE e == IF from(c) < 1 THEN 1 ELSE from(c)
    <3>1. piece(c) = SubSeq(s, e, m)
      OBVIOUS
    <3>2. from(c) \in Int
      <4>1. c * B \in Int
        BY <1>1, <1>3
      <4> QED BY <4>1
    <3>3. e = 1
      <4> HIDE DEF from
      <4> QED BY <2>1, <3>2
    <3>4. 0 + 1 = 1 /\ 0 + m = m
      BY <2>1
    <3> HIDE DEF e, m, piece
    <3> QED BY <3>1, <3>3, <3>4
  <2> HIDE DEF m, piece
  <2>3. /\ NatOf(piece(c)) \in Nat /\ NatOf(piece(c)) < Values[m]
        /\ Val(s, 0 + m, BYTE) = Val(s, 0, BYTE) * Values[m] + NatOf(piece(c))
    BY <2>1, <2>2, ValOfSlice
  <2>4. Values[m] <= DWORD /\ Values[m] \in Nat /\ DWORD \in Nat
    BY <1>1, <2>1, FactsOfBytes, FactsOfDword, ValuesArePowers, PowersMonotone DEF B, Powers
  <2>5. Val(s, 0, BYTE) = 0
    BY FactsOfBytes, ValZero
  <2>6. Val(s, m, BYTE) = NatOf(piece(c))
    BY <2>1, <2>3, <2>4, <2>5
  <2> QED BY <2>0, <2>1, <2>3, <2>4, <2>6
<1>5. ASSUME NEW k \in 1..c - 1
      PROVE  /\ NatOf(piece(k)) \in Nat /\ NatOf(piece(k)) < DWORD
             /\ at(c - k) \in Nat /\ at(c - k + 1) <= n
             /\ Val(s, at(c - k + 1), BYTE) = Val(s, at(c - k), BYTE) * DWORD + NatOf(piece(k))
  <2> DEFINE p == n - k * B
             x == k * B
  <2>1. x \in Nat /\ (k - 1) * B = x - B /\ (k - 1) * B \in Nat /\ c - (c - k) = k
        /\ c - (c - k + 1) = k - 1 /\ k - 1 \in Nat
    BY <1>1, <1>3
  <2>2. x <= (c - 1) * B
    <3>1. B * k <= B * (c - 1)
      BY <1>1, <1>3, ProductMonotone, k \in Nat, c - 1 \in Nat, k <= c - 1
    <3>2. B * k = k * B /\ B * (c - 1) = (c - 1) * B
      BY <1>1, <1>3
    <3> QED BY <3>1, <3>2
  <2>3. at(c - k) = n - x /\ at(c - k + 1) = (n - x) + B /\ from(k) = (n - x) + 1
        /\ n - (k - 1) * B = (n - x) + B
    <3>1. (c - (c - k)) * B = x /\ (c - (c - k + 1)) * B = x - B
      BY <2>1
    <3> HIDE DEF x
    <3>2. at(c - k) = n - x /\ at(c - k + 1) = n - (x - B) /\ from(k) = n - x + 1
          /\ n - (k - 1) * B = n - (x - B)
      BY <2>1, <3>1 DEF x
    <3> HIDE DEF at, from
    <3> QED BY <1>1, <2>1, <3>2
  <2>4. (c - 1) * B \in Nat
    BY <1>1, <1>3
  <2> HIDE DEF x
  <2> DEFINE q == n - x
  <2>5. q \in Nat /\ q + B <= n
    <3>1. n - x \in Nat
      BY <1>3, <2>1, <2>2, <2>4
    <3>2. x - B \in Nat
      BY <2>1
    <3> QED BY <3>1, <3>2, <1>1, <2>1
  <2>6. piece(k) = SubSeq(s, q + 1, q + B)
    BY <2>1, <2>3, <2>5
  <2>7. at(c - k) = q /\ at(c - k + 1) = q + B
    BY <2>3
  <2> HIDE DEF q, piece, at
  <2>8. /\ NatOf(piece(k)) \in Nat /\ NatOf(piece(k)) < Values[B]
        /\ Val(s, q + B, BYTE) = Val(s, q, BYTE) * Values[B] + NatOf(piece(k))
    BY <1>1, <2>5, <2>6, ValOfSlice
  <2>9. Values[B] = DWORD
    BY FactsOfDword DEF B
  <2> QED BY <2>5, <2>7, <2>8, <2>9
<1> HIDE DEF piece
<1>6. ASSUME NEW k \in 1..c PROVE d[k] \in Nat /\ d[k] \in 0..DWORD - 1
  <2>1. d[k] = NatOf(piece(k))
    OBVIOUS
  <2>2. NatOf(piece(k)) \in Nat /\ NatOf(piece(k)) < DWORD
    <3>1. CASE k = c
      BY <3>1, <1>4
    <3>2. CASE k # c
      <4>1. k \in 1..c - 1
        BY <3>2, <1>3
      <4> QED BY <4>1, <1>5
    <3> QED BY <3>1, <3>2
  <2> QED BY <2>1, <2>2, FactsOfDword
<1>7. d \in Seq(Nat) /\ Len(d) = c
  <2>1. d \in [1..c -> Nat]
    BY <1>6
  <2> HIDE DEF d
  <2> QED BY <1>3, <2>1, FunctionIsSeq
<1>8. Below(d, c, DWORD)
  BY <1>6 DEF Below
<1>9. Digital(r, c)
  <2>1. \A j \in 1..c : c - j + 1 \in 1..c
    BY <1>3
  <2> QED BY <2>1, <1>6 DEF Digital, Reversed
<1>10. \A j \in 1..c : r[j] = d[c - j + 1]
  BY DEF Reversed
<1> DEFINE T == {j \in 0..c - 1 : Val(r, j + 1, DWORD) = Val(s, at(j + 1), BYTE)}
<1>11. 0 \in T
  <2>1. Val(r, 0 + 1, DWORD) = Val(r, 0, DWORD) * DWORD + r[0 + 1]
    <3>1. Digital(r, 0 + 1)
      BY <1>3, <1>9 DEF Digital
    <3> HIDE DEF r
    <3> QED BY <3>1, FactsOfDword, ValStep, 0 \in Nat
  <2>2. Val(r, 0, DWORD) = 0
    BY FactsOfDword, ValZero
  <2>3. r[1] = NatOf(piece(c))
    <3>1. 1 \in 1..c /\ c \in 1..c /\ c - 1 + 1 = c
      BY <1>3
    <3>2. d[c] = NatOf(piece(c))
      BY <3>1
    <3> HIDE DEF r, d
    <3> QED BY <3>1, <3>2, <1>10
  <2>4. Val(r, 1, DWORD) = NatOf(piece(c))
    <3> DEFINE w == NatOf(piece(c))
    <3>1. w \in Nat /\ r[1] = w
      BY <1>4, <2>3
    <3> HIDE DEF w, r
    <3>2. Val(r, 1, DWORD) = w
      BY <2>1, <2>2, <3>1, FactsOfDword
    <3> QED BY <3>2 DEF w
  <2>5. 0 \in 0..c - 1 /\ 0 + 1 = 1
    BY <1>3
  <2> HIDE DEF r, at
  <2> QED BY <2>4, <2>5, <1>4
<1>12. ASSUME NEW j \in 0..(c - 1) - 1, j \in T PROVE j + 1 \in T
  <2> DEFINE k == c - (j + 1)
  <2>1. k \in 1..c - 1 /\ c - k = j + 1 /\ c - k + 1 = (j + 1) + 1 /\ j + 1 \in 0..c - 1
        /\ (j + 1) + 1 \in 1..c /\ c - ((j + 1) + 1) + 1 = k /\ k \in 1..c /\ j + 1 \in Nat
    BY <1>3
  <2> HIDE DEF k
  <2>2. Val(s, at((j + 1) + 1), BYTE) = Val(s, at(j + 1), BYTE) * DWORD + NatOf(piece(k))
    <3> HIDE DEF at
    <3> QED BY <2>1, <1>5
  <2>3. r[(j + 1) + 1] = NatOf(piece(k))
    <3>1. d[k] = NatOf(piece(k))
      BY <2>1
    <3> HIDE DEF r, d
    <3> QED BY <2>1, <3>1, <1>10
  <2>4. Val(r, (j + 1) + 1, DWORD) = Val(r, j + 1, DWORD) * DWORD + r[(j + 1) + 1]
    <3>1. Digital(r, (j + 1) + 1)
      <4>1. (j + 1) + 1 \in Nat /\ (j + 1) + 1 <= c
        BY <2>1
      <4> HIDE DEF r
      <4> QED BY <4>1, <1>3, <1>9, DigitalPrefix
    <3> HIDE DEF r
    <3> QED BY <2>1, <3>1, FactsOfDword, ValStep
  <2>5. Val(r, j + 1, DWORD) = Val(s, at(j + 1), BYTE)
    BY <1>12
  <2> HIDE DEF r, at
  <2> QED BY <2>1, <2>2, <2>3, <2>4, <2>5
<1>13. c - 1 \in T
  <2>1. c - 1 \in Nat /\ c - 1 \in 0..c - 1
    BY <1>3
  <2>2. \A j \in 0..c - 1 : j \in T
    <3> HIDE DEF T
    <3> QED BY <2>1, <1>11, <1>12, IntervalInduction
  <2> QED BY <2>1, <2>2
<1>14. Val(r, c, DWORD) = Val(s, n, BYTE)
  <2>1. (c - 1) + 1 = c
    BY <1>3
  <2>2. at(c) = n
    BY <1>1, <1>3
  <2> HIDE DEF r, at
  <2> QED BY <2>1, <2>2, <1>13
<1>15. AreDwords(d, c, Val(s, n, BYTE))
  <2> HIDE DEF d
  <2> QED BY <1>7, <1>8, <1>14 DEF AreDwords, Low
<1> QED BY <1>2, <1>3, <1>15

-----------------------------------------------------------------------------
(* big stands for v: in sign when it is below half a dword, else in dwords. *)
StandsFor(big, v) ==
  \/ big.bits = <<>> /\ big.sign = v /\ v < DWORD
  \/ v > 0 /\ \E c \in Nat \ {0} : AreDwords(big.bits, c, v)

(* bigint_from_bytes stands for the value of the bytes. *)
LEMMA BigintIs ==
  ASSUME NEW s, NEW n \in Nat, Is(s, n, BYTE)
  PROVE  StandsFor(bigint_from_bytes(s), Val(s, n, BYTE))
<1> DEFINE sig == Significant(s)
           v == Val(s, n, BYTE)
           big == bigint_from_bytes(s)
<1>1. PICK m \in 0..n : Is(sig, m, BYTE) /\ Val(sig, m, BYTE) = v /\ (m > 0 => sig[1] # 0)
  BY SignificantIs
<1>2. big = IF Len(sig) <= DWORD_BYTES
            THEN IF NatOf(sig) < DWORD \div 2
                 THEN [sign |-> NatOf(sig), bits |-> <<>>]
                 ELSE [sign |-> 1, bits |-> <<NatOf(sig)>>]
            ELSE [sign |-> 1, bits |-> Dwords(sig)]
  BY DEF bigint_from_bytes
<1> HIDE DEF sig, big, v
<1>3. m \in Nat /\ Len(sig) = m /\ Digital(sig, m) /\ Below(sig, m, BYTE)
  BY <1>1, FactsOfBytes, BelowIsDigital DEF Is
<1>4. NatOf(sig) = v /\ v \in Nat
  BY <1>1, <1>3, NatOfIs, ValType, FactsOfBytes
<1>5. CASE m <= DWORD_BYTES
  <2>1. v < DWORD
    <3>1. v < Values[m] /\ Values[m] <= Values[DWORD_BYTES] /\ Values[m] \in Nat /\ Values[DWORD_BYTES] \in Nat
      BY <1>1, <1>3, <1>5, FactsOfBytes, ValBound, ValuesArePowers, PowersMonotone DEF Powers
    <3> QED BY <3>1, <1>4, FactsOfDword
  <2>2. CASE v < DWORD \div 2
    <3>1. big = [sign |-> v, bits |-> <<>>]
      BY <1>2, <1>3, <1>4, <1>5, <2>2
    <3> QED BY <3>1, <2>1 DEF StandsFor, v, big
  <2>3. CASE ~(v < DWORD \div 2)
    <3> DEFINE d == <<v>>
    <3>1. big = [sign |-> 1, bits |-> d]
      BY <1>2, <1>3, <1>4, <1>5, <2>3
    <3>2. v > 0
      <4>1. DWORD >= 2
        <5>1. Tens[KCCH_BASE] \in Nat \ {0} /\ 2 * KU_BASE <= DWORD
          BY AmountAssumption, TensArePowers DEF Powers
        <5> QED BY <5>1, FactsOfDword DEF KU_BASE
      <4>2. DWORD \div 2 >= 1
        BY <4>1, FactsOfDword
      <4> QED BY <4>2, <2>3, <1>4, FactsOfDword
    <3>3. d \in Seq(Nat) /\ Len(d) = 1 /\ d[1] = v
      BY <1>4
    <3> HIDE DEF d
    <3>4. Below(d, 1, DWORD)
      BY <3>3, <2>1, <1>4, FactsOfDword DEF Below
    <3> DEFINE r == Reversed(d, 1)
    <3>5. r[1] = v
      BY <3>3 DEF Reversed
    <3> HIDE DEF r
    <3>6. Digital(r, 0 + 1) /\ 0 + 1 = 1
      BY <3>5, <1>4 DEF Digital
    <3>7. Val(r, 0 + 1, DWORD) = Val(r, 0, DWORD) * DWORD + r[0 + 1] /\ Val(r, 0, DWORD) = 0
      BY <3>6, FactsOfDword, ValStep, ValZero, 0 \in Nat
    <3>8. Val(r, 1, DWORD) = v
      BY <3>5, <3>6, <3>7, <1>4, FactsOfDword
    <3>9. AreDwords(d, 1, v)
      BY <3>3, <3>4, <3>8 DEF AreDwords, r, Low
    <3>10. big.bits = d /\ 1 \in Nat \ {0}
      BY <3>1
    <3>11. StandsFor(big, v)
      BY Zenon, <3>2, <3>9, <3>10 DEF StandsFor
    <3> QED BY <3>11 DEF v, big
  <2> QED BY <2>2, <2>3
<1>6. CASE ~(m <= DWORD_BYTES)
  <2>1. m \in Nat \ {0} /\ m > 0 /\ m - 1 \in Nat /\ (m - 1) + 1 = m
    BY <1>3, <1>6, FactsOfBytes
  <2>2. big = [sign |-> 1, bits |-> Dwords(sig)]
    BY <1>2, <1>3, <1>6
  <2>3. PICK c \in Nat : AreDwords(Dwords(sig), c, v)
    <3>1. \E c \in Nat : AreDwords(Dwords(sig), c, Val(sig, m, BYTE))
      BY <1>1, <2>1, DwordsAre
    <3> QED BY <3>1, <1>1
  <2>4. v > 0
    <3>1. sig[1] * Values[m - 1] <= v
      BY <1>1, <1>3, <2>1, FactsOfBytes, ValuesArePowers, ValFirst
    <3>2. sig[1] \in Nat \ {0} /\ Values[m - 1] \in Nat \ {0}
      <4>1. 1 \in 1..m
        BY <2>1
      <4>2. sig[1] \in Nat /\ sig[1] # 0
        BY <4>1, <1>1, <1>3, <2>1 DEF Digital
      <4>3. Values[m - 1] \in Nat \ {0}
        BY <2>1, ValuesArePowers DEF Powers
      <4> QED BY <4>2, <4>3
    <3>3. sig[1] * Values[m - 1] > 0
      BY <3>2
    <3> QED BY <3>1, <3>2, <3>3, <1>4
  <2>5. c # 0
    <3> SUFFICES ASSUME c = 0 PROVE FALSE
      OBVIOUS
    <3>1. Val(Reversed(Dwords(sig), 0), 0, DWORD) = 0
      BY FactsOfDword, ValZero
    <3> QED BY <3>1, <2>3, <2>4 DEF AreDwords, Low
  <2>6. StandsFor(big, v)
    BY <2>2, <2>3, <2>4, <2>5 DEF StandsFor
  <2> QED BY <2>6 DEF v, big
<1> QED BY <1>5, <1>6

-----------------------------------------------------------------------------
(* Numbers from the least significant digit up, and one dword shifted in.  *)

(* No digits have value 0. *)
LEMMA LowZero ==
  ASSUME NEW b \in Nat \ {0}, NEW d
  PROVE  Low(d, 0, b) = 0
BY ValZero DEF Low

(* One digit more on top. *)
LEMMA LowStep ==
  ASSUME NEW b \in Nat \ {0}, NEW P, Powers(P, b), NEW n \in Nat, NEW d, Digital(d, n + 1)
  PROVE  Low(d, n + 1, b) = Low(d, n, b) + d[n + 1] * P[n]
<1> DEFINE r == Reversed(d, n + 1)
           t == Reversed(d, n)
<1>1. \A i \in 1..n : t[i] = r[1 + i] /\ r[1 + i] \in Nat
  <2> TAKE i \in 1..n
  <2>1. 1 + i \in 1..n + 1 /\ (n + 1) - (1 + i) + 1 = n - i + 1 /\ n - i + 1 \in 1..n + 1
    OBVIOUS
  <2> QED BY <2>1 DEF Reversed, Digital
<1>2. r[1] = d[n + 1] /\ d[n + 1] \in Nat
  <2>1. 1 \in 1..n + 1 /\ (n + 1) - 1 + 1 = n + 1 /\ n + 1 \in 1..n + 1
    OBVIOUS
  <2> QED BY <2>1 DEF Reversed, Digital
<1> HIDE DEF r, t
<1>3. Digital(r, 1 + n) /\ Digital(r, 0 + 1) /\ Digital(t, n)
  <2>1. \A i \in 1..1 + n : i = 1 \/ \E j \in 1..n : i = 1 + j
    <3> TAKE i \in 1..1 + n
    <3>1. i = 1 \/ (i - 1 \in 1..n /\ i = 1 + (i - 1))
      OBVIOUS
    <3> QED BY <3>1
  <2>2. Digital(r, 1 + n)
    BY <2>1, <1>1, <1>2 DEF Digital
  <2>3. Digital(r, 0 + 1)
    BY <1>2 DEF Digital
  <2> QED BY <2>2, <2>3, <1>1 DEF Digital
<1>4. Val(r, 1 + n, b) = Val(r, 1, b) * P[n] + Val(t, n, b)
  <2>1. \A i \in 1..n : t[i] = r[1 + i]
    BY <1>1
  <2> QED BY <1>3, <2>1, ValSplit, 1 \in Nat
<1>5. Val(r, 0 + 1, b) = Val(r, 0, b) * b + r[0 + 1] /\ Val(r, 0, b) = 0
  BY <1>3, ValStep, ValZero, 0 \in Nat
<1>6. Val(r, 1, b) = d[n + 1]
  BY <1>2, <1>5
<1>7. Val(t, n, b) \in Nat /\ P[n] \in Nat
  BY <1>3, ValType DEF Powers
<1>8. d[n + 1] * P[n] \in Nat
  BY <1>2, <1>7
<1>9. Val(r, n + 1, b) = Val(t, n, b) + d[n + 1] * P[n]
  BY <1>4, <1>6, <1>7, <1>8, 1 + n = n + 1
<1> QED BY <1>9 DEF Low, r, t

(* A value is a natural number. *)
LEMMA LowType ==
  ASSUME NEW b \in Nat \ {0}, NEW n \in Nat, NEW d, Digital(d, n)
  PROVE  Low(d, n, b) \in Nat
<1>1. \A j \in 1..n : n - j + 1 \in 1..n
  OBVIOUS
<1>2. Digital(Reversed(d, n), n)
  BY <1>1 DEF Digital, Reversed
<1> QED BY <1>2, ValType DEF Low

SameDigits(d, e, n) == \A i \in 1..n : d[i] = e[i]

(* Equal digits have equal values. *)
LEMMA LowSame ==
  ASSUME NEW b \in Nat \ {0}, NEW n \in Nat, NEW d, NEW e, SameDigits(d, e, n)
  PROVE  Low(d, n, b) = Low(e, n, b)
<1>1. \A j \in 1..n : n - j + 1 \in 1..n
  OBVIOUS
<1>2. Reversed(d, n) = Reversed(e, n)
  BY <1>1 DEF Reversed, SameDigits
<1> QED BY <1>2 DEF Low

-----------------------------------------------------------------------------
(* l is n limbs, the least significant first, of value v, none in excess. *)
AreLimbs(l, n, v) ==
  /\ l \in Seq(Nat) /\ Len(l) = n /\ Below(l, n, KU_BASE)
  /\ Low(l, n, KU_BASE) = v /\ (n > 0 => l[n] # 0)

Kus == [n \in Nat |-> Tens[KCCH_BASE * n]]

(* The widths of limbs, by name. *)
LEMMA FactsOfLimb ==
  /\ KU_BASE \in Nat \ {0} /\ KCCH_BASE \in Nat \ {0} /\ Powers(Kus, KU_BASE)
  /\ 2 * KU_BASE <= DWORD /\ DWORD <= KU_BASE * KU_BASE
<1>1. KU_BASE \in Nat \ {0} /\ KCCH_BASE \in Nat \ {0}
  BY TensArePowers, AmountAssumption DEF Powers, KU_BASE
<1>2. Powers(Kus, KU_BASE)
  BY <1>1, TensArePowers, PowersOfPower, 10 \in Nat \ {0} DEF Kus, KU_BASE
<1> QED BY <1>1, <1>2, AmountAssumption

(* One more limb on top. *)
LEMMA AppendLimb ==
  ASSUME NEW l \in Seq(Nat), NEW n \in Nat, Len(l) = n, Below(l, n, KU_BASE), NEW x \in 0..KU_BASE - 1
  PROVE  /\ l \o <<x>> \in Seq(Nat) /\ Len(l \o <<x>>) = n + 1 /\ Below(l \o <<x>>, n + 1, KU_BASE)
         /\ (l \o <<x>>)[n + 1] = x
         /\ Low(l \o <<x>>, n + 1, KU_BASE) = Low(l, n, KU_BASE) + x * Kus[n]
<1> DEFINE r == l \o <<x>>
<1>0. x \in Nat
  BY FactsOfLimb
<1>1. r \in Seq(Nat) /\ Len(r) = n + 1 /\ r[n + 1] = x /\ \A i \in 1..n : r[i] = l[i]
  BY <1>0
<1> HIDE DEF r
<1>2. Below(r, n + 1, KU_BASE)
  <2>1. \A i \in 1..n + 1 : i = n + 1 \/ i \in 1..n
    OBVIOUS
  <2> QED BY <2>1, <1>1 DEF Below
<1>3. Digital(r, n + 1)
  BY <1>2, FactsOfLimb, BelowIsDigital, n + 1 \in Nat
<1>4. Low(r, n + 1, KU_BASE) = Low(r, n, KU_BASE) + r[n + 1] * Kus[n]
  BY <1>3, FactsOfLimb, LowStep
<1>5. Low(r, n, KU_BASE) = Low(l, n, KU_BASE)
  <2>1. KU_BASE \in Nat \ {0} /\ \A i \in 1..n : r[i] = l[i]
    BY <1>1, FactsOfLimb
  <2> QED BY <2>1, LowSame DEF SameDigits
<1> QED BY <1>1, <1>2, <1>4, <1>5 DEF r

(* The carry and the limbs kept of one shift. *)
IsCarry(c, l, n, dword) ==
  /\ c \in [0..n -> Nat] /\ c[0] = dword
  /\ \A i \in 1..n : c[i] = (l[i] * DWORD + c[i - 1]) \div KU_BASE
Kept(c, l, n) == [i \in 1..n |-> (l[i] * DWORD + c[i - 1]) % KU_BASE]
Shifted(c, l, n) ==
  Kept(c, l, n) \o (IF c[n] # 0 THEN <<c[n] % KU_BASE>> ELSE <<>>)
    \o (IF c[n] \div KU_BASE # 0 THEN <<c[n] \div KU_BASE>> ELSE <<>>)

(* A carry is a natural number. *)
LEMMA CarryStep ==
  ASSUME NEW x \in Nat, NEW k \in Nat
  PROVE  (x * DWORD + k) \div KU_BASE \in Nat
<1>1. x * DWORD + k \in Nat
  BY FactsOfDword
<1> QED BY <1>1, FactsOfLimb, DivMod, x * DWORD + k \in Int

(* ShiftIn computes the carries its definition writes down. *)
LEMMA ShiftInCarries ==
  ASSUME NEW l, NEW n \in Nat, Len(l) = n, Digital(l, n), NEW dword \in Nat
  PROVE  \E c : IsCarry(c, l, n, dword) /\ ShiftIn(l, dword) = Shifted(c, l, n)
<1> DEFINE f == CHOOSE carry : carry = [i \in 0..n |->
                  IF i = 0 THEN dword ELSE (l[i] * DWORD + carry[i - 1]) \div KU_BASE]
           G == [p \in (1..n) \X Nat |-> (l[p[1]] * DWORD + p[2]) \div KU_BASE]
           zero == dword
<1>1. ShiftIn(l, dword) = Shifted(f, l, n)
  BY DEF ShiftIn, Shifted, Kept
<1>2. \A i \in 1..n, k \in Nat : (l[i] * DWORD + k) \div KU_BASE \in Nat
  BY CarryStep DEF Digital
<1>3. G \in [(1..n) \X Nat -> Nat] /\ zero \in Nat
  BY <1>2
<1>4. PICK g \in [0..n -> Nat] : Follows(g, n, zero, G)
  <2> HIDE DEF G, zero
  <2> QED BY <1>3, Recursion
<1>5. ASSUME NEW i \in 1..n PROVE g[i] = (l[i] * DWORD + g[i - 1]) \div KU_BASE
  <2>1. g[i - 1] \in Nat
    OBVIOUS
  <2>2. G[<<i, g[i - 1]>>] = (l[i] * DWORD + g[i - 1]) \div KU_BASE
    BY <2>1
  <2> HIDE DEF G
  <2> QED BY Zenon, <2>2, <1>4 DEF Follows
<1>6. g = [i \in 0..n |-> IF i = 0 THEN dword ELSE (l[i] * DWORD + g[i - 1]) \div KU_BASE]
  <2>1. ASSUME NEW i \in 0..n
        PROVE  g[i] = IF i = 0 THEN dword ELSE (l[i] * DWORD + g[i - 1]) \div KU_BASE
    <3>1. CASE i = 0
      BY <3>1, <1>4 DEF Follows
    <3>2. CASE i # 0
      <4>1. i \in 1..n
        BY <3>2
      <4> QED BY Zenon, <4>1, <3>2, <1>5
    <3> QED BY <3>1, <3>2
  <2> HIDE DEF G, f
  <2>2. g = [i \in 0..n |-> g[i]]
    OBVIOUS
  <2> QED BY Zenon, <2>1, <2>2
<1>7. f = [i \in 0..n |-> IF i = 0 THEN dword ELSE (l[i] * DWORD + f[i - 1]) \div KU_BASE]
  <2> HIDE DEF G
  <2> QED BY Zenon, <1>6
<1> HIDE DEF f
<1>8. OnInterval(f, n) /\ f[0] = zero
  BY <1>7 DEF OnInterval
<1>9. ASSUME NEW i \in 1..n PROVE f[i] = (l[i] * DWORD + f[i - 1]) \div KU_BASE
  <2>1. i \in 0..n /\ i # 0
    OBVIOUS
  <2> QED BY Zenon, <1>7, <2>1
<1>10. GoesOn(f, n, Nat, G)
  <2> SUFFICES ASSUME NEW i \in 1..n, f[i - 1] \in Nat PROVE f[i] = G[<<i, f[i - 1]>>]
    BY DEF GoesOn
  <2>1. G[<<i, f[i - 1]>>] = (l[i] * DWORD + f[i - 1]) \div KU_BASE
    OBVIOUS
  <2> HIDE DEF G
  <2> QED BY Zenon, <2>1, <1>9
<1>11. f \in [0..n -> Nat]
  <2> HIDE DEF G, zero
  <2> QED BY <1>3, <1>8, <1>10, Unfolds
<1>12. IsCarry(f, l, n, dword)
  BY <1>8, <1>9, <1>11 DEF IsCarry
<1> QED BY <1>1, <1>12

(* One limb's share of the shift. *)
LEMMA CarryFits ==
  ASSUME NEW x \in 0..KU_BASE - 1, NEW k \in 0..DWORD - 1
  PROVE  LET y == x * DWORD + k
         IN  /\ y \in Nat /\ y \div KU_BASE \in 0..DWORD - 1 /\ y % KU_BASE \in 0..KU_BASE - 1
             /\ y = KU_BASE * (y \div KU_BASE) + (y % KU_BASE)
<1> DEFINE y == x * DWORD + k
           D == DWORD
           K == KU_BASE
<1>1. D \in Nat \ {0} /\ K \in Nat \ {0} /\ x \in Nat /\ k \in Nat /\ x <= K - 1 /\ k < D
  BY FactsOfDword, FactsOfLimb
<1>2. y \in Nat /\ y < D * K
  <2> HIDE DEF D, K
  <2>1. D * x <= D * (K - 1)
    BY <1>1, ProductMonotone, K - 1 \in Nat
  <2>2. D * (K - 1) = (D * K) - D /\ D * x = x * D /\ D * x \in Nat /\ D * K \in Nat
    BY <1>1
  <2>3. y = x * D + k
    BY DEF D
  <2> HIDE DEF y
  <2> QED BY <1>1, <2>1, <2>2, <2>3
<1> HIDE DEF y, D, K
<1>3. y \div K \in Nat /\ y \div K < D
  BY <1>1, <1>2, DivLess
<1>4. y % K \in 0..K - 1 /\ y = K * (y \div K) + (y % K)
  BY <1>1, <1>2, DivMod, y \in Int
<1>5. y \div K \in 0..D - 1
  BY <1>1, <1>3
<1> QED BY <1>2, <1>4, <1>5 DEF y, D, K

Balance(x, D, c, K, c1, k1) == x * D + c = K * c1 + k1
Level(lowK, c, p, low, D, d) == lowK + c * p = low * D + d

(* What is kept and what is carried add up, one limb more. *)
LEMMA ShiftSum ==
  ASSUME NEW lowK \in Nat, NEW c1 \in Nat, NEW k1 \in Nat, NEW p \in Nat, NEW K \in Nat,
         NEW c \in Nat, NEW x \in Nat, NEW D \in Nat, NEW low \in Nat, NEW d \in Nat,
         Balance(x, D, c, K, c1, k1), Level(lowK, c, p, low, D, d)
  PROVE  Level(lowK + k1 * p, c1, K * p, low + x * p, D, d)
<1>1. (K * c1 + k1) * p = c1 * (K * p) + k1 * p
  OBVIOUS
<1>2. (x * D + c) * p = (x * p) * D + c * p
  OBVIOUS
<1>3. (low + x * p) * D = low * D + (x * p) * D
  OBVIOUS
<1>4. c1 * (K * p) \in Nat /\ k1 * p \in Nat /\ (x * p) * D \in Nat /\ c * p \in Nat /\ low * D \in Nat
  OBVIOUS
<1>5. c1 * (K * p) + k1 * p = (x * p) * D + c * p
  BY <1>1, <1>2 DEF Balance
<1>6. lowK + c * p = low * D + d
  BY DEF Level
<1>7. (lowK + k1 * p) + c1 * (K * p) = (low + x * p) * D + d
  BY <1>3, <1>4, <1>5, <1>6
<1> QED BY <1>7 DEF Level

(* The limbs kept and the carry left are the old value and the dword. *)
LEMMA KeptIs ==
  ASSUME NEW l, NEW n \in Nat, NEW v, AreLimbs(l, n, v), NEW dword \in 0..DWORD - 1,
         NEW c, IsCarry(c, l, n, dword)
  PROVE  /\ Kept(c, l, n) \in Seq(Nat) /\ Len(Kept(c, l, n)) = n /\ Below(Kept(c, l, n), n, KU_BASE)
         /\ c[n] \in 0..DWORD - 1
         /\ Low(Kept(c, l, n), n, KU_BASE) + c[n] * Kus[n] = v * DWORD + dword
         /\ n > 0 /\ c[n] = 0 => Kept(c, l, n)[n] # 0
<1> DEFINE k == Kept(c, l, n)
           K == KU_BASE
           D == DWORD
<1>0. K \in Nat \ {0} /\ D \in Nat \ {0} /\ Powers(Kus, K) /\ dword \in Nat
  BY FactsOfLimb, FactsOfDword
<1>1. Below(l, n, K) /\ Digital(l, n) /\ Low(l, n, K) = v /\ (n > 0 => l[n] # 0)
  BY FactsOfLimb, BelowIsDigital DEF AreLimbs
<1>2. \A i \in 0..n : c[i] \in 0..D - 1
  <2> DEFINE T == {i \in 0..n : c[i] \in 0..D - 1}
  <2>1. 0 \in T
    BY DEF IsCarry
  <2>2. ASSUME NEW i \in 0..n - 1, i \in T PROVE i + 1 \in T
    <3>1. i + 1 \in 1..n /\ (i + 1) - 1 = i /\ i + 1 \in 0..n
      OBVIOUS
    <3>2. c[i + 1] = (l[i + 1] * DWORD + c[i]) \div KU_BASE
      BY <3>1 DEF IsCarry
    <3>3. l[i + 1] \in 0..KU_BASE - 1 /\ c[i] \in 0..DWORD - 1
      BY <1>1, <2>2, <3>1 DEF Below
    <3>4. c[i + 1] \in 0..DWORD - 1
      BY <3>2, <3>3, CarryFits
    <3> QED BY <3>1, <3>4
  <2>3. \A i \in 0..n : i \in T
    <3> HIDE DEF T
    <3> QED BY <2>1, <2>2, IntervalInduction
  <2> QED BY <2>3
<1>3. ASSUME NEW i \in 1..n
      PROVE  /\ k[i] \in 0..K - 1 /\ k[i] \in Nat /\ c[i] \in Nat /\ c[i - 1] \in Nat /\ l[i] \in Nat
             /\ l[i] * D + c[i - 1] = K * c[i] + k[i]
  <2>1. l[i] \in 0..KU_BASE - 1 /\ c[i - 1] \in 0..DWORD - 1
    BY <1>1, <1>2 DEF Below
  <2>2. c[i] = (l[i] * DWORD + c[i - 1]) \div KU_BASE
    BY DEF IsCarry
  <2>3. k[i] = (l[i] * DWORD + c[i - 1]) % KU_BASE
    BY DEF Kept
  <2> DEFINE y == l[i] * DWORD + c[i - 1]
  <2>4. /\ y \in Nat /\ y \div KU_BASE \in 0..DWORD - 1 /\ y % KU_BASE \in 0..KU_BASE - 1
        /\ y = KU_BASE * (y \div KU_BASE) + (y % KU_BASE)
    BY <2>1, CarryFits
  <2>5. c[i] = y \div KU_BASE /\ k[i] = y % KU_BASE /\ y = l[i] * D + c[i - 1]
    BY <2>2, <2>3
  <2> HIDE DEF y, k
  <2> QED BY <2>1, <2>4, <2>5, <1>0
<1>4. k \in Seq(Nat) /\ Len(k) = n
  <2>1. k = [i \in 1..n |-> k[i]]
    BY DEF Kept
  <2>2. k \in [1..n -> Nat]
    <3> HIDE DEF k
    <3> QED BY <2>1, <1>3
  <2> HIDE DEF k
  <2> QED BY <2>2, FunctionIsSeq
<1> HIDE DEF k
<1>5. Below(k, n, K) /\ Digital(k, n)
  BY <1>3 DEF Below, Digital
<1> HIDE DEF K, D
<1> DEFINE T == {i \in 0..n : Low(k, i, K) + c[i] * Kus[i] = Low(l, i, K) * D + dword}
<1>6. 0 \in T
  <2>1. Low(k, 0, K) = 0 /\ Low(l, 0, K) = 0
    BY <1>0, LowZero
  <2>2. c[0] = dword /\ Kus[0] = 1
    BY <1>0 DEF IsCarry, Powers
  <2> QED BY <1>0, <2>1, <2>2
<1>7. ASSUME NEW i \in 0..n - 1, i \in T PROVE i + 1 \in T
  <2>1. i + 1 \in 1..n /\ (i + 1) - 1 = i /\ i + 1 \in 0..n /\ i \in Nat /\ i <= n /\ i + 1 <= n /\ i + 1 \in Nat
    OBVIOUS
  <2>2. Digital(k, i + 1) /\ Digital(l, i + 1) /\ Digital(k, i) /\ Digital(l, i)
    BY <2>1, <1>1, <1>5, DigitalPrefix
  <2>3. Low(k, i + 1, K) = Low(k, i, K) + k[i + 1] * Kus[i] /\ Low(l, i + 1, K) = Low(l, i, K) + l[i + 1] * Kus[i]
    BY <2>1, <2>2, <1>0, LowStep
  <2>4. Low(k, i, K) \in Nat /\ Low(l, i, K) \in Nat
    BY <2>1, <2>2, <1>0, LowType
  <2>5. Kus[i] \in Nat /\ Kus[i + 1] = K * Kus[i]
    BY <2>1, <1>0 DEF Powers
  <2>6. /\ k[i + 1] \in Nat /\ c[i + 1] \in Nat /\ c[i] \in Nat /\ l[i + 1] \in Nat
        /\ l[i + 1] * D + c[i] = K * c[i + 1] + k[i + 1]
    BY <2>1, <1>3
  <2>7. Low(k, i, K) + c[i] * Kus[i] = Low(l, i, K) * D + dword
    BY <1>7
  <2>8. (Low(k, i, K) + k[i + 1] * Kus[i]) + c[i + 1] * (K * Kus[i])
          = (Low(l, i, K) + l[i + 1] * Kus[i]) * D + dword
    <3>1. K \in Nat /\ D \in Nat
      BY <1>0
    <3>2. Balance(l[i + 1], D, c[i], K, c[i + 1], k[i + 1])
      BY <2>6 DEF Balance
    <3>3. Level(Low(k, i, K), c[i], Kus[i], Low(l, i, K), D, dword)
      BY <2>7 DEF Level
    <3>4. Level(Low(k, i, K) + k[i + 1] * Kus[i], c[i + 1], K * Kus[i],
                Low(l, i, K) + l[i + 1] * Kus[i], D, dword)
      BY <1>0, <2>4, <2>5, <2>6, <3>1, <3>2, <3>3, ShiftSum
    <3> QED BY <3>4 DEF Level
  <2> QED BY <2>1, <2>3, <2>5, <2>8
<1>8. Low(k, n, K) + c[n] * Kus[n] = v * D + dword
  <2>1. \A i \in 0..n : i \in T
    <3> HIDE DEF T
    <3> QED BY <1>6, <1>7, IntervalInduction
  <2> QED BY <2>1, <1>1
<1>9. n > 0 /\ c[n] = 0 => k[n] # 0
  <2> SUFFICES ASSUME n > 0, c[n] = 0, k[n] = 0 PROVE FALSE
    OBVIOUS
  <2>1. n \in 1..n
    OBVIOUS
  <2>2. l[n] * D + c[n - 1] = K * 0 + 0 /\ c[n - 1] \in Nat /\ l[n] \in Nat /\ l[n] # 0
    BY <2>1, <1>1, <1>3
  <2>3. l[n] * D \in Nat /\ l[n] * D # 0
    BY <2>2, <1>0
  <2> QED BY <2>2, <2>3, <1>0
<1>10. c[n] \in 0..D - 1
  BY <1>2
<1> QED BY <1>4, <1>5, <1>8, <1>9, <1>10 DEF k, K, D

(* One dword shifted in. *)
LEMMA ShiftInIs ==
  ASSUME NEW l, NEW n \in Nat, NEW v \in Nat, AreLimbs(l, n, v), NEW dword \in 0..DWORD - 1
  PROVE  \E m \in Nat : AreLimbs(ShiftIn(l, dword), m, v * DWORD + dword)
<1> DEFINE K == KU_BASE
           D == DWORD
<1>0. K \in Nat \ {0} /\ D \in Nat \ {0} /\ Powers(Kus, K) /\ dword \in Nat /\ D <= K * K
  BY FactsOfLimb, FactsOfDword
<1>1. Digital(l, n) /\ Len(l) = n
  BY FactsOfLimb, BelowIsDigital DEF AreLimbs
<1>2. PICK c : IsCarry(c, l, n, dword) /\ ShiftIn(l, dword) = Shifted(c, l, n)
  BY <1>0, <1>1, ShiftInCarries
<1> DEFINE k == Kept(c, l, n)
           left == c[n]
           high == left \div K
           rest == left % K
<1>3. /\ k \in Seq(Nat) /\ Len(k) = n /\ Below(k, n, K)
      /\ left \in 0..D - 1
      /\ Low(k, n, K) + left * Kus[n] = v * D + dword
      /\ n > 0 /\ left = 0 => k[n] # 0
  BY <1>2, KeptIs
<1>4. ShiftIn(l, dword) = k \o (IF left # 0 THEN <<rest>> ELSE <<>>) \o (IF high # 0 THEN <<high>> ELSE <<>>)
  BY <1>2 DEF Shifted
<1> HIDE DEF k, left, K, D
<1>5. left \in Nat /\ high \in Nat /\ high < K /\ rest \in 0..K - 1 /\ left = K * high + rest
  <2>1. left \in Nat /\ left \in Int
    BY <1>3, <1>0
  <2>2. left < K * K
    BY <1>0, <1>3, <2>1
  <2>3. high \in Nat /\ high < K
    BY <1>0, <2>1, <2>2, DivLess
  <2> QED BY <1>0, <2>1, <2>3, DivMod
<1>6. Low(k, n, K) \in Nat /\ Kus[n] \in Nat /\ Kus[n + 1] = K * Kus[n] /\ n + 1 \in Nat
  <2>1. Digital(k, n)
    BY <1>0, <1>3, BelowIsDigital
  <2> QED BY <2>1, <1>0, LowType DEF Powers
<1>7. CASE left = 0
  <2>1. high = 0
    <3>1. 0 = K * 0 + 0 /\ 0 \in 0..K - 1 /\ 0 \in Int
      BY <1>0
    <3>2. 0 \div K = 0
      BY <1>0, <3>1, DivModUnique
    <3> QED BY <3>2, <1>7
  <2> HIDE DEF high, rest
  <2>2. ShiftIn(l, dword) = k
    BY <2>1, <1>3, <1>4, <1>7
  <2>3. Low(k, n, K) = v * D + dword
    BY <1>3, <1>6, <1>7
  <2>4. AreLimbs(k, n, v * D + dword)
    BY <1>3, <1>7, <2>3 DEF AreLimbs, K
  <2> QED BY <2>2, <2>4 DEF D
<1> DEFINE one == k \o <<rest>>
<1> HIDE DEF high, rest
<1>8. /\ one \in Seq(Nat) /\ Len(one) = n + 1 /\ Below(one, n + 1, K) /\ one[n + 1] = rest
      /\ Low(one, n + 1, K) = Low(k, n, K) + rest * Kus[n]
  BY <1>3, <1>5, AppendLimb DEF K
<1>9. CASE left # 0 /\ high = 0
  <2>1. ShiftIn(l, dword) = one
    BY <1>4, <1>8, <1>9
  <2>2. left = rest
    BY <1>0, <1>5, <1>9
  <2> HIDE DEF one
  <2>3. Low(one, n + 1, K) = v * D + dword
    BY <2>2, <1>3, <1>8
  <2>4. AreLimbs(one, n + 1, v * D + dword)
    BY <1>8, <1>9, <2>2, <2>3 DEF AreLimbs, K
  <2> QED BY <1>6, <2>1, <2>4 DEF D
<1>10. CASE left # 0 /\ high # 0
  <2> DEFINE two == one \o <<high>>
  <2>1. ShiftIn(l, dword) = two
    BY <1>4, <1>10
  <2>2. high \in 0..K - 1
    BY <1>0, <1>5
  <2> HIDE DEF one
  <2>3. /\ two \in Seq(Nat) /\ Len(two) = (n + 1) + 1 /\ Below(two, (n + 1) + 1, K) /\ two[(n + 1) + 1] = high
        /\ Low(two, (n + 1) + 1, K) = Low(one, n + 1, K) + high * Kus[n + 1]
    BY <1>6, <1>8, <2>2, AppendLimb DEF K
  <2> HIDE DEF two
  <2>4. Low(two, (n + 1) + 1, K) = v * D + dword
    <3> DEFINE p == Kus[n]
               a == Low(k, n, K)
    <3>1. p \in Nat /\ a \in Nat /\ rest \in Nat /\ high \in Nat /\ K \in Nat /\ left = K * high + rest
      BY <1>0, <1>5, <1>6
    <3>2. Low(two, (n + 1) + 1, K) = (a + rest * p) + high * (K * p)
      BY <2>3, <1>6, <1>8
    <3>3. a + left * p = v * D + dword
      BY <1>3
    <3> HIDE DEF p, a
    <3>4. (K * high + rest) * p = high * (K * p) + rest * p
      BY <3>1
    <3>5. high * (K * p) \in Nat /\ rest * p \in Nat
      BY <3>1
    <3>6. a + left * p = a + (high * (K * p) + rest * p)
      BY <3>1, <3>4
    <3> QED BY <3>1, <3>2, <3>3, <3>5, <3>6
  <2>5. AreLimbs(two, (n + 1) + 1, v * D + dword)
    BY <2>3, <2>4, <1>10 DEF AreLimbs, K
  <2> QED BY <1>6, <2>1, <2>5 DEF D
<1> QED BY <1>7, <1>9, <1>10

-----------------------------------------------------------------------------
(* The limbs of all dwords, and the digits of one limb.                    *)

LimbSeqs == {l \in Seq(Nat) : \E n \in Nat, v \in Nat : AreLimbs(l, n, v)}
IsTop(f, bits, c) ==
  f = [i \in 0..c |-> IF i = 0 THEN <<>> ELSE ShiftIn(f[i - 1], bits[c - i + 1])]

(* No limbs have value 0. *)
LEMMA NoLimbs == AreLimbs(<<>>, 0, 0)
<1>1. Low(<<>>, 0, KU_BASE) = 0
  BY FactsOfLimb, LowZero
<1> QED BY <1>1 DEF AreLimbs, Below

(* ShiftIn makes limbs of limbs. *)
LEMMA ShiftInType ==
  ASSUME NEW l \in LimbSeqs, NEW dword \in 0..DWORD - 1
  PROVE  ShiftIn(l, dword) \in LimbSeqs
<1>1. PICK n \in Nat, v \in Nat : AreLimbs(l, n, v)
  BY DEF LimbSeqs
<1>2. PICK m \in Nat : AreLimbs(ShiftIn(l, dword), m, v * DWORD + dword)
  BY <1>1, ShiftInIs
<1>3. v * DWORD + dword \in Nat
  BY FactsOfDword
<1> QED BY <1>2, <1>3 DEF LimbSeqs, AreLimbs

(* Limbs computes the recursion its definition writes down. *)
LEMMA LimbsUnfold ==
  ASSUME NEW bits, NEW c \in Nat, Len(bits) = c, Below(bits, c, DWORD)
  PROVE  \E f : IsTop(f, bits, c) /\ Limbs(bits) = f[c]
<1> DEFINE f == CHOOSE top : top = [i \in 0..c |->
                  IF i = 0 THEN <<>> ELSE ShiftIn(top[i - 1], bits[c - i + 1])]
           S == LimbSeqs
           G == [p \in (1..c) \X S |-> ShiftIn(p[2], bits[c - p[1] + 1])]
           none == <<>>
<1>1. Limbs(bits) = f[c]
  BY DEF Limbs
<1>2. \A i \in 1..c, l \in S : ShiftIn(l, bits[c - i + 1]) \in S
  <2> TAKE i \in 1..c, l \in S
  <2>1. c - i + 1 \in 1..c
    OBVIOUS
  <2>2. bits[c - i + 1] \in 0..DWORD - 1
    BY <2>1 DEF Below
  <2> QED BY <2>2, ShiftInType
<1>3. none \in S
  <2>1. none \in Seq(Nat) /\ 0 \in Nat
    OBVIOUS
  <2> QED BY Zenon, <2>1, NoLimbs DEF LimbSeqs
<1> HIDE DEF S
<1>4. G \in [(1..c) \X S -> S]
  BY <1>2
<1>5. PICK g \in [0..c -> S] : Follows(g, c, none, G)
  <2> HIDE DEF G, none
  <2> QED BY <1>3, <1>4, Recursion
<1>6. ASSUME NEW i \in 1..c PROVE g[i] = ShiftIn(g[i - 1], bits[c - i + 1])
  <2>1. g[i - 1] \in S
    OBVIOUS
  <2>2. G[<<i, g[i - 1]>>] = ShiftIn(g[i - 1], bits[c - i + 1])
    BY <2>1
  <2> HIDE DEF G
  <2> QED BY Zenon, <2>2, <1>5 DEF Follows
<1>7. g = [i \in 0..c |-> IF i = 0 THEN <<>> ELSE ShiftIn(g[i - 1], bits[c - i + 1])]
  <2>1. ASSUME NEW i \in 0..c
        PROVE  g[i] = IF i = 0 THEN <<>> ELSE ShiftIn(g[i - 1], bits[c - i + 1])
    <3>1. CASE i = 0
      BY <3>1, <1>5 DEF Follows
    <3>2. CASE i # 0
      <4>1. i \in 1..c
        BY <3>2
      <4> QED BY Zenon, <4>1, <3>2, <1>6
    <3> QED BY <3>1, <3>2
  <2> HIDE DEF G, f
  <2>2. g = [i \in 0..c |-> g[i]]
    OBVIOUS
  <2> QED BY Zenon, <2>1, <2>2
<1>8. IsTop(f, bits, c)
  <2> HIDE DEF G
  <2>1. f = [i \in 0..c |-> IF i = 0 THEN <<>> ELSE ShiftIn(f[i - 1], bits[c - i + 1])]
    BY Zenon, <1>7
  <2> HIDE DEF f
  <2> QED BY Zenon, <2>1 DEF IsTop
<1> QED BY <1>1, <1>8

(* The limbs have the value of the dwords. *)
LEMMA LimbsAre ==
  ASSUME NEW bits, NEW c \in Nat, NEW v, AreDwords(bits, c, v)
  PROVE  \E m \in Nat : AreLimbs(Limbs(bits), m, v)
<1> DEFINE r == Reversed(bits, c)
<1>1. Len(bits) = c /\ Below(bits, c, DWORD) /\ Val(r, c, DWORD) = v
  BY DEF AreDwords, Low
<1>2. PICK f : IsTop(f, bits, c) /\ Limbs(bits) = f[c]
  BY <1>1, LimbsUnfold
<1>3. ASSUME NEW i \in 1..c
      PROVE  f[i] = ShiftIn(f[i - 1], r[i]) /\ r[i] \in 0..DWORD - 1
  <2>1. i \in 0..c /\ i # 0 /\ c - i + 1 \in 1..c
    OBVIOUS
  <2>2. r[i] = bits[c - i + 1]
    BY DEF Reversed
  <2>3. f[i] = ShiftIn(f[i - 1], bits[c - i + 1])
    BY Zenon, <1>2, <2>1 DEF IsTop
  <2> HIDE DEF r
  <2> QED BY <2>1, <2>2, <2>3, <1>1 DEF Below
<1>4. f[0] = <<>>
  BY <1>2 DEF IsTop
<1> HIDE DEF r
<1>5. Below(r, c, DWORD) /\ Digital(r, c)
  <2>1. Below(r, c, DWORD)
    BY <1>3 DEF Below
  <2> QED BY <2>1, FactsOfDword, BelowIsDigital
<1> DEFINE Done(i) == \E m \in Nat : AreLimbs(f[i], m, Val(r, i, DWORD))
           T == {i \in 0..c : Done(i)}
<1>6. Done(0)
  <2>1. Val(r, 0, DWORD) = 0 /\ 0 \in Nat
    BY FactsOfDword, ValZero
  <2> QED BY Zenon, <1>4, <2>1, NoLimbs
<1>7. ASSUME NEW i \in 0..c - 1, Done(i) PROVE Done(i + 1)
  <2>1. i + 1 \in 1..c /\ (i + 1) - 1 = i /\ i \in Nat /\ i <= c /\ i + 1 \in Nat /\ i + 1 <= c
    OBVIOUS
  <2>2. Digital(r, i) /\ Digital(r, i + 1)
    BY <2>1, <1>5, DigitalPrefix
  <2>3. Val(r, i, DWORD) \in Nat /\ Val(r, i + 1, DWORD) = Val(r, i, DWORD) * DWORD + r[i + 1]
    BY <2>1, <2>2, FactsOfDword, ValType, ValStep
  <2>4. PICK m \in Nat : AreLimbs(f[i], m, Val(r, i, DWORD))
    BY <1>7
  <2>5. f[i + 1] = ShiftIn(f[i], r[i + 1]) /\ r[i + 1] \in 0..DWORD - 1
    BY <2>1, <1>3
  <2>6. \E k \in Nat : AreLimbs(ShiftIn(f[i], r[i + 1]), k, Val(r, i, DWORD) * DWORD + r[i + 1])
    BY <2>3, <2>4, <2>5, ShiftInIs
  <2> QED BY <2>3, <2>5, <2>6
<1>8. Done(c)
  <2>1. 0 \in T
    BY <1>6
  <2>2. ASSUME NEW i \in 0..c - 1, i \in T PROVE i + 1 \in T
    <3>1. Done(i) /\ i + 1 \in 0..c
      BY <2>2
    <3>2. Done(i + 1)
      <4> HIDE DEF Done
      <4> QED BY <3>1, <1>7
    <3> QED BY <3>1, <3>2
  <2>3. \A i \in 0..c : i \in T
    <3> HIDE DEF T
    <3> QED BY <2>1, <2>2, IntervalInduction
  <2> QED BY <2>3
<1> QED BY <1>1, <1>2, <1>8

(* A number that is not 0 has a limb, and its top limb counts. *)
LEMMA LimbsAreNeeded ==
  ASSUME NEW l, NEW n \in Nat, NEW v \in Nat \ {0}, AreLimbs(l, n, v)
  PROVE  n > 0 /\ Kus[n - 1] <= v
<1>1. Digital(l, n) /\ Low(l, n, KU_BASE) = v /\ (n > 0 => l[n] # 0)
  BY FactsOfLimb, BelowIsDigital DEF AreLimbs
<1>2. n > 0
  <2>1. Low(l, 0, KU_BASE) = 0
    BY FactsOfLimb, LowZero
  <2> QED BY <2>1, <1>1
<1> DEFINE m == n - 1
<1>3. m \in Nat /\ m + 1 = n /\ n \in 1..n /\ m <= n
  BY <1>2
<1> HIDE DEF m
<1>4. Low(l, m + 1, KU_BASE) = Low(l, m, KU_BASE) + l[m + 1] * Kus[m]
  BY <1>1, <1>3, FactsOfLimb, LowStep
<1>5. Digital(l, m)
  BY <1>1, <1>3, DigitalPrefix
<1>6. Low(l, m, KU_BASE) \in Nat /\ Kus[m] \in Nat /\ l[n] \in Nat \ {0}
  <2>1. Low(l, m, KU_BASE) \in Nat
    BY <1>3, <1>5, FactsOfLimb, LowType
  <2>2. Kus[m] \in Nat
    BY <1>3, FactsOfLimb DEF Powers
  <2>3. l[n] \in Nat
    BY <1>1, <1>3 DEF Digital
  <2> QED BY <2>1, <2>2, <2>3, <1>1, <1>2
<1>7. l[n] * Kus[m] >= Kus[m]
  BY <1>6
<1>8. Kus[m] <= v
  BY <1>1, <1>3, <1>4, <1>6, <1>7
<1> QED BY <1>2, <1>8 DEF m

-----------------------------------------------------------------------------
(* s is the text of the n decimal digits d. *)
Shows(s, d, n) == d \in [1..n -> 0..9] /\ s = [i \in 1..n |-> Digit(d[i])]

(* s is the numeral of v, without needless zeros. *)
IsNumeral(s, n, v) ==
  n \in Nat \ {0} /\ \E d : Shows(s, d, n) /\ Val(d, n, 10) = v /\ (n > 1 => d[1] # 0)

(* Ten is a base. *)
LEMMA TenIs == 10 \in Nat \ {0} /\ 10 \in Nat \ {0, 1}
OBVIOUS

(* The digits of a text are below ten. *)
LEMMA ShownDigits ==
  ASSUME NEW n \in Nat, NEW s, NEW d, Shows(s, d, n)
  PROVE  Below(d, n, 10) /\ Digital(d, n) /\ \A i \in 1..n : s[i] = Digit(d[i]) /\ d[i] \in 0..9
<1>1. \A i \in 1..n : d[i] \in 0..9 /\ s[i] = Digit(d[i])
  BY DEF Shows
<1>2. 10 - 1 = 9 /\ \A i \in 0..9 : i \in Nat
  OBVIOUS
<1> QED BY <1>1, <1>2 DEF Below, Digital

DigitOf(v, n, i) == (v \div Tens[n - i]) % 10

(* Digits shows n digits that make the value. *)
LEMMA DigitsAre ==
  ASSUME NEW n \in Nat, NEW v \in Nat, v < Tens[n]
  PROVE  /\ Shows(Digits(v, n), [i \in 1..n |-> DigitOf(v, n, i)], n)
         /\ Val([i \in 1..n |-> DigitOf(v, n, i)], n, 10) = v
<1> DEFINE d == [i \in 1..n |-> DigitOf(v, n, i)]
<1>1. \A m \in Nat : Tens[m] \in Nat \ {0} /\ Tens[m + 1] = 10 * Tens[m]
  BY TensArePowers DEF Powers
<1>2. ASSUME NEW i \in 1..n
      PROVE  DigitOf(v, n, i) \in 0..9 /\ v \div Tens[n - i] \in Nat
  <2> DEFINE q == v \div Tens[n - i]
  <2>1. n - i \in Nat
    OBVIOUS
  <2>2. q \in Nat
    BY <2>1, <1>1, DivMod, v \in Int
  <2> HIDE DEF q
  <2>3. q % 10 \in 0..9
    BY <2>2
  <2> QED BY <2>2, <2>3 DEF q, DigitOf
<1>3. d \in [1..n -> 0..9]
  BY <1>2
<1>4. Digits(v, n) = [i \in 1..n |-> Digit(d[i])]
  BY DEF Digits, DigitOf
<1>5. \A i \in 1..n : d[i] = DigitOf(v, n, i)
  OBVIOUS
<1> HIDE DEF d
<1>6. Shows(Digits(v, n), d, n)
  BY <1>3, <1>4 DEF Shows
<1>7. Digital(d, n)
  BY <1>6, ShownDigits
<1> DEFINE T == {i \in 0..n : Val(d, i, 10) = v \div Tens[n - i]}
<1>8. 0 \in T
  <2>1. v \div Tens[n] = 0
    <3> DEFINE t == Tens[n]
    <3>1. t \in Nat \ {0} /\ v < t
      BY <1>1
    <3> HIDE DEF t
    <3>2. v = t * 0 + v /\ v \in 0..t - 1
      BY <3>1
    <3>3. v \div t = 0
      BY <3>1, <3>2, DivModUnique
    <3> QED BY <3>3 DEF t
  <2>2. n - 0 = n /\ Val(d, 0, 10) = 0
    BY TenIs, ValZero
  <2> QED BY <2>1, <2>2
<1>9. ASSUME NEW i \in 0..n - 1, i \in T PROVE i + 1 \in T
  <2> DEFINE m == n - (i + 1)
  <2>1. m \in Nat /\ m + 1 = n - i /\ i + 1 \in 1..n /\ i \in Nat /\ i + 1 \in Nat /\ i + 1 \in 0..n /\ i + 1 <= n
    OBVIOUS
  <2>7. n - (i + 1) = m
    OBVIOUS
  <2>2. Digital(d, i + 1)
    BY <2>1, <1>7, DigitalPrefix
  <2>3. Val(d, i + 1, 10) = Val(d, i, 10) * 10 + d[i + 1]
    BY <2>1, <2>2, TenIs, ValStep
  <2> HIDE DEF m
  <2> DEFINE q == v \div Tens[m]
  <2>4. q \in Nat /\ d[i + 1] = q % 10
    <3>1. d[i + 1] = q % 10
      BY <2>1, <2>7, <1>5 DEF DigitOf
    <3>2. q \in Nat
      BY <2>1, <1>1, DivMod, v \in Int
    <3> QED BY <3>1, <3>2
  <2>5. Val(d, i, 10) = q \div 10
    <3>1. v \div (10 * Tens[m]) = (v \div Tens[m]) \div 10
      BY <2>1, <1>1, TenIs, DivDiv
    <3>2. Tens[m + 1] = 10 * Tens[m]
      BY <2>1, <1>1
    <3>3. Val(d, i, 10) = v \div Tens[m + 1]
      BY <1>9, <2>1
    <3> QED BY <3>1, <3>2, <3>3
  <2> HIDE DEF q
  <2>6. Val(d, i + 1, 10) = q
    BY <2>3, <2>4, <2>5
  <2> QED BY <2>1, <2>6, <2>7 DEF q
<1>10. Val(d, n, 10) = v
  <2>1. \A i \in 0..n : i \in T
    <3> HIDE DEF T
    <3> QED BY <1>8, <1>9, IntervalInduction
  <2>2. Val(d, n, 10) = v \div Tens[0]
    <3>1. n \in 0..n /\ n - n = 0
      OBVIOUS
    <3> QED BY <2>1, <3>1
  <2>3. Tens[0] = 1
    BY TensArePowers DEF Powers
  <2> QED BY <2>2, <2>3
<1> QED BY <1>6, <1>10 DEF d

(* Numeral is the numeral of a value of at most two limbs. *)
LEMMA NumeralIs ==
  ASSUME NEW v \in Nat, v < KU_BASE * KU_BASE
  PROVE  \E n \in Nat : IsNumeral(Numeral(v), n, v)
<1> DEFINE m == 2 * KCCH_BASE
           Good(n) == v < Tens[n] /\ (n = 1 \/ v >= Tens[n - 1])
           n0 == CHOOSE n \in 1..m : Good(n)
<1>1. m \in Nat /\ 1 <= m /\ v < Tens[m]
  <2>1. m = KCCH_BASE + KCCH_BASE
    BY FactsOfLimb
  <2>2. Tens[KCCH_BASE + KCCH_BASE] = Tens[KCCH_BASE] * Tens[KCCH_BASE]
    BY FactsOfLimb, TenIs, TensArePowers, PowersAdd
  <2> QED BY <2>1, <2>2, FactsOfLimb DEF KU_BASE
<1>2. Numeral(v) = Digits(v, n0)
  BY DEF Numeral
<1> HIDE DEF m
<1>3. \E n \in 1..m : Good(n)
  <2> DEFINE T == {n \in 1..m : v < Tens[n]}
  <2>1. T \in SUBSET Nat /\ T # {}
    BY <1>1
  <2>2. PICK x \in T : \A y \in T : x <= y
    <3> HIDE DEF T
    <3> QED BY <2>1, LeastElement
  <2>3. x = 1 \/ v >= Tens[x - 1]
    <3> SUFFICES ASSUME x # 1, ~(v >= Tens[x - 1]) PROVE FALSE
      OBVIOUS
    <3>1. x \in 1..m /\ x - 1 \in 1..m /\ x - 1 \in Nat
      BY <1>1
    <3>2. Tens[x - 1] \in Nat
      BY <3>1, TensArePowers DEF Powers
    <3>3. x - 1 \in T
      BY <3>1, <3>2
    <3> HIDE DEF T
    <3> QED BY <2>2, <3>1, <3>3
  <2> QED BY <2>3
<1>4. n0 \in 1..m /\ Good(n0)
  <2> HIDE DEF Good
  <2> QED BY Zenon, <1>3
<1> HIDE DEF n0
<1>5. n0 \in Nat \ {0} /\ n0 \in Nat /\ n0 - 1 \in Nat /\ (n0 - 1) + 1 = n0
  BY <1>1, <1>4
<1> DEFINE d == [i \in 1..n0 |-> DigitOf(v, n0, i)]
<1>6. Shows(Digits(v, n0), d, n0) /\ Val(d, n0, 10) = v
  BY <1>4, <1>5, DigitsAre
<1>7. n0 > 1 => d[1] # 0
  <2> SUFFICES ASSUME n0 > 1 PROVE d[1] # 0
    OBVIOUS
  <2> DEFINE t == Tens[n0 - 1]
             q == v \div t
  <2>1. t \in Nat \ {0} /\ v >= t /\ v < 10 * t
    <3>1. t \in Nat \ {0} /\ Tens[(n0 - 1) + 1] = 10 * t
      BY <1>5, TensArePowers DEF Powers
    <3> QED BY <3>1, <1>4, <1>5
  <2>2. d[1] = q % 10
    <3>1. 1 \in 1..n0
      BY <1>5
    <3> QED BY <3>1 DEF DigitOf
  <2> HIDE DEF t, d
  <2>3. q \in Nat /\ q < 10
    BY <2>1, DivLess, 10 \in Nat
  <2>4. q # 0
    <3>1. v % t \in 0..t - 1 /\ v = t * q + (v % t)
      BY <2>1, DivMod, v \in Int
    <3> HIDE DEF q
    <3> QED BY <2>1, <3>1
  <2> HIDE DEF q
  <2> QED BY <2>2, <2>3, <2>4
<1> HIDE DEF d
<1>8. IsNumeral(Numeral(v), n0, v)
  BY <1>2, <1>5, <1>6, <1>7 DEF IsNumeral
<1> QED BY <1>5, <1>8

(* A numeral is as long as its value. *)
LEMMA NumeralLength ==
  ASSUME NEW s, NEW n, NEW v, IsNumeral(s, n, v), NEW m \in Nat \ {0}, v < Tens[m]
  PROVE  n <= m
<1>1. PICK d : Shows(s, d, n) /\ Val(d, n, 10) = v /\ (n > 1 => d[1] # 0)
  BY DEF IsNumeral
<1>2. n \in Nat \ {0} /\ n \in Nat /\ n - 1 \in Nat /\ (n - 1) + 1 = n /\ 1 \in 1..n
  BY DEF IsNumeral
<1>3. CASE n = 1
  BY <1>3
<1>4. CASE n > 1
  <2>1. Digital(d, n) /\ d[1] \in 0..9 /\ d[1] # 0
    BY <1>1, <1>2, <1>4, ShownDigits
  <2>2. d[1] * Tens[n - 1] <= v
    <3>1. d[1] * Tens[n - 1] <= Val(d, (n - 1) + 1, 10)
      BY <1>2, <2>1, TenIs, TensArePowers, ValFirst
    <3> QED BY <3>1, <1>1, <1>2
  <2>3. Tens[n - 1] \in Nat /\ Tens[m] \in Nat /\ v \in Nat
    BY <1>1, <1>2, <2>1, TenIs, ValType, TensArePowers DEF Powers
  <2>4. Tens[n - 1] <= d[1] * Tens[n - 1] /\ d[1] * Tens[n - 1] \in Nat
    BY <2>1, <2>3
  <2>5. Tens[n - 1] < Tens[m]
    BY <2>2, <2>3, <2>4
  <2>6. n - 1 < m
    BY <1>2, <2>5, TenIs, TensArePowers, PowersStrict
  <2> QED BY <1>2, <2>6
<1> QED BY <1>2, <1>3, <1>4

-----------------------------------------------------------------------------
(* The digits of all limbs, one behind the other.                          *)

DigitChars == {Digit(k) : k \in 0..9}
Joint(d, n, e, m) == [i \in 1..n + m |-> IF i <= n THEN d[i] ELSE e[i - n]]

(* A text of n digits has n characters, all of them digits. *)
LEMMA ShownIsText ==
  ASSUME NEW n \in Nat, NEW s, NEW d, Shows(s, d, n)
  PROVE  s \in Seq(DigitChars) /\ Len(s) = n /\ s \in [1..n -> DigitChars]
<1>1. s \in [1..n -> DigitChars]
  BY DEF Shows, DigitChars
<1> QED BY <1>1, FunctionIsSeq

(* Texts one behind the other show digits one behind the other. *)
LEMMA JointShown ==
  ASSUME NEW n \in Nat, NEW s, NEW d, Shows(s, d, n), NEW m \in Nat, NEW t, NEW e, Shows(t, e, m)
  PROVE  /\ Shows(s \o t, Joint(d, n, e, m), n + m)
         /\ Val(Joint(d, n, e, m), n + m, 10) = Val(d, n, 10) * Tens[m] + Val(e, m, 10)
<1> DEFINE j == Joint(d, n, e, m)
           r == s \o t
<1>1. s \in Seq(DigitChars) /\ Len(s) = n /\ t \in Seq(DigitChars) /\ Len(t) = m
  BY ShownIsText
<1>2. r \in Seq(DigitChars) /\ Len(r) = n + m /\ (\A i \in 1..n : r[i] = s[i]) /\ \A i \in 1..m : r[n + i] = t[i]
  BY <1>1
<1> HIDE DEF r
<1>3. (\A i \in 1..n : s[i] = Digit(d[i]) /\ d[i] \in 0..9) /\ \A i \in 1..m : t[i] = Digit(e[i]) /\ e[i] \in 0..9
  BY ShownDigits
<1>4. (\A i \in 1..n : j[i] = d[i]) /\ \A i \in 1..m : j[n + i] = e[i]
  <2>1. \A i \in 1..n : j[i] = d[i]
    BY DEF Joint
  <2>2. ASSUME NEW i \in 1..m PROVE j[n + i] = e[i]
    <3>1. n + i \in 1..n + m /\ ~(n + i <= n) /\ (n + i) - n = i
      OBVIOUS
    <3> QED BY <3>1 DEF Joint
  <2> QED BY <2>1, <2>2
<1>5. \A i \in 1..n + m : i \in 1..n \/ \E k \in 1..m : i = n + k
  <2> TAKE i \in 1..n + m
  <2>1. i \in 1..n \/ (i - n \in 1..m /\ i = n + (i - n))
    OBVIOUS
  <2> QED BY <2>1
<1>6. j = [i \in 1..n + m |-> j[i]]
  BY DEF Joint
<1> HIDE DEF j
<1>7. \A i \in 1..n + m : j[i] \in 0..9 /\ r[i] = Digit(j[i])
  <2> TAKE i \in 1..n + m
  <2>1. CASE i \in 1..n
    BY Zenon, <2>1, <1>2, <1>3, <1>4
  <2>2. ASSUME NEW k \in 1..m, i = n + k PROVE j[i] \in 0..9 /\ r[i] = Digit(j[i])
    BY Zenon, <2>2, <1>2, <1>3, <1>4
  <2> QED BY Zenon, <1>5, <2>1, <2>2
<1>8. Shows(r, j, n + m)
  <2>1. j \in [1..n + m -> 0..9]
    BY <1>6, <1>7
  <2>2. r = [i \in 1..n + m |-> r[i]]
    BY <1>2
  <2>3. r = [i \in 1..n + m |-> Digit(j[i])]
    BY <1>7, <2>2
  <2> QED BY <2>1, <2>3 DEF Shows
<1>9. Val(j, n + m, 10) = Val(d, n, 10) * Tens[m] + Val(e, m, 10)
  <2>1. n + m \in Nat
    OBVIOUS
  <2>2. Digital(j, n + m) /\ Digital(d, n) /\ Digital(e, m)
    BY <1>8, <2>1, ShownDigits
  <2>3. \A i \in 1..m : e[i] = j[n + i]
    BY <1>4
  <2>4. Val(j, n + m, 10) = Val(j, n, 10) * Tens[m] + Val(e, m, 10)
    BY <2>2, <2>3, TenIs, TensArePowers, ValSplit
  <2>5. Val(d, n, 10) = Val(j, n, 10)
    <3>1. \A i \in 1..n : d[i] = j[i]
      BY <1>4
    <3> QED BY <3>1, <2>2, TenIs, ValSame
  <2> QED BY <2>4, <2>5
<1> QED BY <1>8, <1>9 DEF j, r

(* A limb below a numeral. *)
LEMMA NumeralGrows ==
  ASSUME NEW s, NEW n, NEW u \in Nat \ {0}, IsNumeral(s, n, u), NEW x \in 0..KU_BASE - 1
  PROVE  IsNumeral(s \o LimbDigits(x), n + KCCH_BASE, u * KU_BASE + x)
<1>1. PICK d : Shows(s, d, n) /\ Val(d, n, 10) = u /\ (n > 1 => d[1] # 0)
  BY DEF IsNumeral
<1> DEFINE K == KCCH_BASE
           e == [i \in 1..K |-> DigitOf(x, K, i)]
           j == Joint(d, n, e, K)
           t == LimbDigits(x)
<1>2. n \in Nat \ {0} /\ n \in Nat /\ K \in Nat \ {0} /\ K \in Nat /\ x \in Nat /\ x < Tens[K]
  BY FactsOfLimb DEF IsNumeral, KU_BASE
<1>3. Shows(t, e, K) /\ Val(e, K, 10) = x
  BY <1>2, DigitsAre DEF LimbDigits
<1>4. Tens[K] = KU_BASE
  BY DEF KU_BASE
<1> HIDE DEF e, K, t
<1>5. Shows(s \o t, j, n + K) /\ Val(j, n + K, 10) = u * KU_BASE + x
  BY <1>1, <1>2, <1>3, <1>4, JointShown
<1>6. d[1] # 0
  <2>1. CASE n > 1
    BY <2>1, <1>1
  <2>2. CASE n = 1
    <3>1. Digital(d, 0 + 1) /\ 0 + 1 = 1 /\ d[1] \in 0..9
      BY <1>1, <1>2, <2>2, ShownDigits
    <3>2. Val(d, 0 + 1, 10) = Val(d, 0, 10) * 10 + d[0 + 1] /\ Val(d, 0, 10) = 0
      BY <3>1, TenIs, ValStep, ValZero, 0 \in Nat
    <3> QED BY <1>1, <2>2, <3>1, <3>2
  <2> QED BY <1>2, <2>1, <2>2
<1>7. j[1] = d[1]
  <2>1. 1 \in 1..n + K /\ 1 <= n
    BY <1>2
  <2> QED BY <2>1 DEF Joint
<1> HIDE DEF j
<1>8. n + K \in Nat \ {0}
  BY <1>2
<1>9. IsNumeral(s \o t, n + K, u * KU_BASE + x)
  BY <1>5, <1>6, <1>7, <1>8 DEF IsNumeral
<1> QED BY <1>9 DEF t, K

IsTopText(f, l, n) ==
  f = [i \in 1..n |-> IF i = 1 THEN Numeral(l[n]) ELSE f[i - 1] \o LimbDigits(l[n - i + 1])]

(* The same of a numeral. *)
LEMMA NumeralIsText ==
  ASSUME NEW s, NEW n, NEW v, IsNumeral(s, n, v)
  PROVE  s \in Seq(DigitChars) /\ Len(s) = n
BY ShownIsText DEF IsNumeral

(* LimbText computes the recursion its definition writes down. *)
LEMMA LimbTextUnfolds ==
  ASSUME NEW l, NEW n \in Nat \ {0}, Len(l) = n, Below(l, n, KU_BASE)
  PROVE  \E f : IsTopText(f, l, n) /\ LimbText(l) = f[n]
<1> DEFINE f == CHOOSE top : top = [i \in 1..n |->
                  IF i = 1 THEN Numeral(l[n]) ELSE top[i - 1] \o LimbDigits(l[n - i + 1])]
           S == Seq(DigitChars)
           G == [p \in (1..n) \X S |-> IF p[1] = 1 THEN Numeral(l[n])
                                       ELSE p[2] \o LimbDigits(l[n - p[1] + 1])]
           none == <<>>
<1>1. LimbText(l) = f[n]
  BY DEF LimbText
<1>2. Numeral(l[n]) \in S
  <2>1. l[n] \in 0..KU_BASE - 1
    BY DEF Below
  <2>2. l[n] \in Nat /\ l[n] < KU_BASE * KU_BASE
    <3> DEFINE x == l[n]
               K == KU_BASE
    <3>1. x \in Nat /\ K \in Nat \ {0} /\ x < K
      BY <2>1, FactsOfLimb
    <3> HIDE DEF x, K
    <3>2. x < K * K
      BY <3>1
    <3> QED BY <3>1, <3>2 DEF x, K
  <2> QED BY <2>2, NumeralIs, NumeralIsText
<1>3. \A i \in 1..n, s \in S : s \o LimbDigits(l[n - i + 1]) \in S
  <2> TAKE i \in 1..n, s \in S
  <2> DEFINE x == l[n - i + 1]
  <2>1. n - i + 1 \in 1..n
    OBVIOUS
  <2>2. x \in 0..KU_BASE - 1
    BY <2>1 DEF Below
  <2> HIDE DEF x
  <2>3. x \in Nat /\ x < Tens[KCCH_BASE] /\ KCCH_BASE \in Nat
    BY <2>2, FactsOfLimb DEF KU_BASE
  <2>4. Shows(LimbDigits(x), [k \in 1..KCCH_BASE |-> DigitOf(x, KCCH_BASE, k)], KCCH_BASE)
    BY <2>3, DigitsAre DEF LimbDigits
  <2>5. LimbDigits(x) \in S
    BY <2>3, <2>4, ShownIsText
  <2>6. s \o LimbDigits(x) \in S
    BY <2>5
  <2> QED BY <2>6 DEF x
<1>4. none \in S
  OBVIOUS
<1>5. G \in [(1..n) \X S -> S]
  <2> HIDE DEF S
  <2> QED BY <1>2, <1>3
<1> HIDE DEF S
<1>6. PICK h \in [0..n -> S] : Follows(h, n, none, G)
  <2> HIDE DEF G, none
  <2> QED BY <1>4, <1>5, Recursion
<1>7. ASSUME NEW i \in 1..n
      PROVE  h[i] = IF i = 1 THEN Numeral(l[n]) ELSE h[i - 1] \o LimbDigits(l[n - i + 1])
  <2>1. h[i - 1] \in S
    OBVIOUS
  <2>2. G[<<i, h[i - 1]>>] = IF i = 1 THEN Numeral(l[n]) ELSE h[i - 1] \o LimbDigits(l[n - i + 1])
    BY <2>1
  <2> HIDE DEF G
  <2> QED BY Zenon, <2>2, <1>6 DEF Follows
<1> DEFINE g == [i \in 1..n |-> h[i]]
<1>8. ASSUME NEW i \in 1..n
      PROVE  g[i] = IF i = 1 THEN Numeral(l[n]) ELSE g[i - 1] \o LimbDigits(l[n - i + 1])
  <2>1. CASE i = 1
    <3>1. g[i] = h[i]
      OBVIOUS
    <3> HIDE DEF g
    <3> QED BY Zenon, <2>1, <3>1, <1>7
  <2>2. CASE i # 1
    <3>1. i - 1 \in 1..n
      BY <2>2
    <3>2. g[i] = h[i] /\ g[i - 1] = h[i - 1]
      BY <3>1
    <3> HIDE DEF g
    <3> QED BY Zenon, <2>2, <3>2, <1>7
  <2> QED BY <2>1, <2>2
<1>9. g = [i \in 1..n |-> g[i]]
  OBVIOUS
<1> HIDE DEF g, G
<1>10. g = [i \in 1..n |-> IF i = 1 THEN Numeral(l[n]) ELSE g[i - 1] \o LimbDigits(l[n - i + 1])]
  <2> HIDE DEF f
  <2> QED BY Zenon, <1>8, <1>9
<1>11. IsTopText(f, l, n)
  <2>1. f = [i \in 1..n |-> IF i = 1 THEN Numeral(l[n]) ELSE f[i - 1] \o LimbDigits(l[n - i + 1])]
    BY Zenon, <1>10
  <2> HIDE DEF f
  <2> QED BY Zenon, <2>1 DEF IsTopText
<1> QED BY <1>1, <1>11

(* The text of the limbs is the numeral of their value. *)
LEMMA LimbTextIs ==
  ASSUME NEW l, NEW n \in Nat, NEW v \in Nat \ {0}, AreLimbs(l, n, v)
  PROVE  \E k \in Nat : IsNumeral(LimbText(l), k, v)
<1> DEFINE r == Reversed(l, n)
           K == KU_BASE
<1>1. n \in Nat \ {0} /\ n > 0 /\ n - 1 \in Nat /\ (n - 1) + 1 = n
  BY LimbsAreNeeded
<1>2. Len(l) = n /\ Below(l, n, K) /\ Val(r, n, K) = v /\ l[n] # 0
  BY <1>1 DEF AreLimbs, Low
<1>3. PICK f : IsTopText(f, l, n) /\ LimbText(l) = f[n]
  BY <1>1, <1>2, LimbTextUnfolds
<1>4. ASSUME NEW i \in 1..n
      PROVE  /\ f[i] = IF i = 1 THEN Numeral(l[n]) ELSE f[i - 1] \o LimbDigits(r[i])
             /\ r[i] \in 0..K - 1
  <2>1. r[i] = l[n - i + 1] /\ n - i + 1 \in 1..n
    BY DEF Reversed
  <2>2. f[i] = IF i = 1 THEN Numeral(l[n]) ELSE f[i - 1] \o LimbDigits(l[n - i + 1])
    BY Zenon, <1>3 DEF IsTopText
  <2> HIDE DEF r
  <2> QED BY <2>1, <2>2, <1>2 DEF Below
<1>5. r[1] = l[n]
  <2>1. 1 \in 1..n /\ n - 1 + 1 = n
    BY <1>1
  <2> QED BY <2>1 DEF Reversed
<1> HIDE DEF r
<1>6. Below(r, n, K)
  BY <1>4 DEF Below
<1>7. Digital(r, n) /\ K \in Nat \ {0}
  BY <1>6, FactsOfLimb, BelowIsDigital
<1> HIDE DEF K
<1> DEFINE Done(i) == /\ Val(r, i, K) \in Nat \ {0}
                      /\ \E k \in Nat : IsNumeral(f[i], k, Val(r, i, K))
           T == {i \in 0..n - 1 : Done(i + 1)}
<1>8. Done(1)
  <2>1. 1 \in 1..n /\ 0 + 1 = 1 /\ 0 + 1 <= n /\ 0 + 1 \in Nat
    BY <1>1
  <2>2. f[1] = Numeral(l[n]) /\ r[1] \in 0..K - 1
    BY <2>1, <1>4
  <2>3. Digital(r, 0 + 1)
    BY <2>1, <1>7, DigitalPrefix
  <2>4. Val(r, 0 + 1, K) = Val(r, 0, K) * K + r[0 + 1] /\ Val(r, 0, K) = 0
    BY <1>7, <2>3, ValStep, ValZero, 0 \in Nat
  <2> DEFINE x == l[n]
  <2>5. x \in Nat \ {0} /\ x < K /\ Val(r, 1, K) = x
    BY <1>2, <1>5, <1>7, <2>2, <2>4
  <2>6. x < K * K
    <3> HIDE DEF x
    <3> QED BY <1>7, <2>5
  <2>7. \E k \in Nat : IsNumeral(Numeral(x), k, x)
    <3> HIDE DEF x
    <3> QED BY <2>5, <2>6, NumeralIs DEF K
  <2> QED BY <2>2, <2>5, <2>7
<1>9. ASSUME NEW i \in 0..(n - 1) - 1, Done(i + 1) PROVE Done((i + 1) + 1)
  <2> DEFINE p == i + 1
             u == Val(r, p, K)
  <2>1. p \in Nat /\ p + 1 \in 1..n /\ p + 1 # 1 /\ (p + 1) - 1 = p /\ p + 1 <= n /\ p + 1 \in Nat
    BY <1>1
  <2>2. f[p + 1] = f[p] \o LimbDigits(r[p + 1]) /\ r[p + 1] \in 0..K - 1
    <3> HIDE DEF p
    <3> QED BY <2>1, <1>4
  <2>3. u \in Nat \ {0} /\ \E k \in Nat : IsNumeral(f[p], k, u)
    BY <1>9
  <2> HIDE DEF p, Done
  <2>4. Val(r, p + 1, K) = u * K + r[p + 1]
    BY <2>1, <1>7, DigitalPrefix, ValStep
  <2> HIDE DEF u
  <2> DEFINE w == u * K + r[p + 1]
  <2>5. w \in Nat \ {0}
    <3>1. u * K \in Nat \ {0} /\ r[p + 1] \in Nat
      BY <1>7, <2>2, <2>3
    <3> QED BY <3>1
  <2>6. PICK k \in Nat : IsNumeral(f[p], k, u)
    BY <2>3
  <2>7. IsNumeral(f[p + 1], k + KCCH_BASE, w)
    BY <2>2, <2>3, <2>6, NumeralGrows DEF K
  <2>8. k + KCCH_BASE \in Nat
    BY FactsOfLimb
  <2> HIDE DEF w
  <2>9. Done(p + 1)
    BY <2>4, <2>5, <2>7, <2>8 DEF Done, w
  <2> QED BY <2>9 DEF p
<1>10. Done(n)
  <2>1. 0 \in T
    BY <1>1, <1>8
  <2>2. ASSUME NEW i \in 0..(n - 1) - 1, i \in T PROVE i + 1 \in T
    <3>1. Done(i + 1) /\ i + 1 \in 0..n - 1
      BY <2>2
    <3>2. Done((i + 1) + 1)
      <4> HIDE DEF Done
      <4> QED BY <3>1, <1>9
    <3> QED BY <3>1, <3>2
  <2>3. \A i \in 0..n - 1 : i \in T
    <3> HIDE DEF T
    <3> QED BY <1>1, <2>1, <2>2, IntervalInduction
  <2>4. Done((n - 1) + 1)
    BY <1>1, <2>3
  <2> HIDE DEF Done
  <2> QED BY <2>4, <1>1
<1> QED BY <1>2, <1>3, <1>10

-----------------------------------------------------------------------------
(* What bigint_format starts from: the digits, and the space of the limbs. *)
LEMMA DigitsOfBits ==
  ASSUME NEW bits, NEW c \in Nat, NEW v \in Nat \ {0}, AreDwords(bits, c, v), v < Tens[MAX_DIGITS]
  PROVE  /\ \E n \in Nat : IsNumeral(LimbText(Limbs(bits)), n, v) /\ n <= MAX_DIGITS
         /\ Len(Limbs(bits)) * KCCH_BASE \in Nat
         /\ Len(Limbs(bits)) * KCCH_BASE <= AMOUNT_SIZE
<1> DEFINE l == Limbs(bits)
           K == KCCH_BASE
<1>1. PICK m \in Nat : AreLimbs(l, m, v)
  BY LimbsAre
<1> HIDE DEF l
<1>2. PICK n \in Nat : IsNumeral(LimbText(l), n, v)
  BY <1>1, LimbTextIs
<1>3. n <= MAX_DIGITS
  BY <1>2, NumeralLength DEF MAX_DIGITS
<1>4. m > 0 /\ Kus[m - 1] <= v /\ Len(l) = m
  BY <1>1, LimbsAreNeeded DEF AreLimbs
<1>5. K \in Nat \ {0} /\ K \in Nat
  BY FactsOfLimb
<1> HIDE DEF K
<1> DEFINE q == K * (m - 1)
<1>6. q \in Nat /\ m * K = q + K /\ m * K \in Nat /\ m - 1 \in Nat
  BY <1>4, <1>5
<1>7. Kus[m - 1] = Tens[q]
  BY <1>6 DEF Kus, K
<1> HIDE DEF q
<1>8. q < MAX_DIGITS
  <2>1. MAX_DIGITS \in Nat /\ Tens[q] \in Nat /\ Tens[MAX_DIGITS] \in Nat
    BY <1>6, TensArePowers DEF MAX_DIGITS, Powers
  <2>2. Tens[q] < Tens[MAX_DIGITS]
    BY <1>4, <1>7, <2>1
  <2> QED BY <1>6, <2>1, <2>2, TenIs, TensArePowers, PowersStrict
<1>9. PICK limbs \in 1..MAX_DIGITS : limbs * K \in MAX_DIGITS..AMOUNT_SIZE
  BY AmountAssumption DEF K
<1>10. m <= limbs
  <2> SUFFICES ASSUME limbs <= m - 1 PROVE FALSE
    BY <1>4, <1>9
  <2>1. K * limbs <= K * (m - 1)
    BY <1>5, <1>6, <1>9, ProductMonotone, limbs \in Nat
  <2>2. K * limbs = limbs * K
    BY <1>5, <1>9
  <2>3. limbs * K >= MAX_DIGITS /\ limbs * K \in Int
    BY <1>9
  <2>4. limbs * K <= q
    BY <2>1, <2>2 DEF q
  <2> QED BY <1>6, <1>8, <2>3, <2>4 DEF MAX_DIGITS
<1>11. m * K <= AMOUNT_SIZE
  <2>1. K * m <= K * limbs
    BY <1>5, <1>9, <1>10, ProductMonotone, limbs \in Nat
  <2>2. K * limbs = limbs * K /\ K * m = m * K
    BY <1>5, <1>9
  <2>3. limbs * K <= AMOUNT_SIZE /\ limbs * K \in Int
    BY <1>9
  <2> QED BY <1>6, <2>1, <2>2, <2>3 DEF AMOUNT_SIZE
<1> QED BY <1>2, <1>3, <1>4, <1>6, <1>11 DEF l, K

-----------------------------------------------------------------------------
(* The reference: ten times a number of bytes, and a digit more.           *)

Wholes == {x \in Seq(Nat) : Len(x) > 0}
Tenfold(x, byte) ==
  LET v == byte * 10 + Head(x) IN <<v \div BYTE, v % BYTE>> \o Tail(x)
TimesTen(bytes, d) == TimesTenPlus(d)[bytes]
IsDone(f, bytes, n, d) ==
  /\ f \in [0..n -> Wholes] /\ f[0] = <<d>>
  /\ \A i \in 1..n : f[i] = Tenfold(f[i - 1], bytes[n - i + 1])
Settled(all) == IF Head(all) = 0 THEN Tail(all) ELSE all

(* One byte more of the product leaves a byte string with a carry in       *)
(* front.                                                                  *)
LEMMA TenTimesType ==
  ASSUME NEW x \in Wholes, NEW byte \in Nat
  PROVE  Tenfold(x, byte) \in Wholes
<1> DEFINE v == byte * 10 + Head(x)
<1>1. v \in Nat /\ v \in Int /\ Tail(x) \in Seq(Nat)
  BY DEF Wholes
<1>2. Tenfold(x, byte) = <<v \div BYTE, v % BYTE>> \o Tail(x)
  BY DEF Tenfold
<1> HIDE DEF v
<1>3. v \div BYTE \in Nat /\ v % BYTE \in Nat
  <2>1. v \div BYTE \in Nat /\ v % BYTE \in 0..BYTE - 1
    BY <1>1, FactsOfBytes, DivMod
  <2> QED BY <2>1, FactsOfBytes
<1> DEFINE p == v \div BYTE
           q == v % BYTE
<1> HIDE DEF p, q
<1>4. p \in Nat /\ q \in Nat
  BY <1>3 DEF p, q
<1>5. <<p, q>> \o Tail(x) \in Seq(Nat) /\ Len(<<p, q>> \o Tail(x)) > 0
  BY <1>1, <1>4
<1> QED BY <1>2, <1>5 DEF Wholes, p, q

(* TenTimes does this to what it is applied to. *)
LEMMA TenTimesApplied ==
  ASSUME NEW x \in Wholes, NEW byte
  PROVE  TenTimes(byte)[x] = Tenfold(x, byte)
<1>1. x \in Seq(Nat)
  BY DEF Wholes
<1> QED BY <1>1 DEF TenTimes, Tenfold

(* TimesTenPlus computes the recursion its definition writes down. *)
LEMMA TimesTenUnfolds ==
  ASSUME NEW bytes \in Seq(Nat), NEW n \in Nat, Len(bytes) = n, NEW d \in Nat
  PROVE  \E f : IsDone(f, bytes, n, d) /\ TimesTen(bytes, d) = Settled(f[n])
<1> DEFINE f == CHOOSE done : done = [i \in 0..n |->
                  IF i = 0 THEN <<d>> ELSE TenTimes(bytes[n - i + 1])[done[i - 1]]]
           S == Wholes
           G == [p \in (1..n) \X S |-> TenTimes(bytes[n - p[1] + 1])[p[2]]]
           last == <<d>>
<1>1. TimesTen(bytes, d) = Settled(f[n])
  <2> DEFINE all(b) == (CHOOSE done : done = [i \in 0..Len(b) |->
                         IF i = 0 THEN <<d>>
                         ELSE TenTimes(b[Len(b) - i + 1])[done[i - 1]]])[Len(b)]
             settled(b) == Settled(all(b))
  <2>1. TimesTenPlus(d) = [b \in Seq(Nat) |-> settled(b)]
    BY Zenon DEF TimesTenPlus, Settled
  <2>2. all(bytes) = f[n]
    OBVIOUS
  <2> HIDE DEF all, f
  <2>3. [b \in Seq(Nat) |-> settled(b)][bytes] = settled(bytes)
    <3> HIDE DEF settled
    <3> QED OBVIOUS
  <2>4. TimesTen(bytes, d) = settled(bytes)
    <3> HIDE DEF settled
    <3> QED BY <2>1, <2>3 DEF TimesTen
  <2> QED BY <2>2, <2>4
<1>2. \A i \in 1..n, x \in S : /\ TenTimes(bytes[n - i + 1])[x] = Tenfold(x, bytes[n - i + 1])
                               /\ TenTimes(bytes[n - i + 1])[x] \in S
  <2> TAKE i \in 1..n, x \in S
  <2>1. n - i + 1 \in 1..n
    OBVIOUS
  <2>2. bytes[n - i + 1] \in Nat
    BY <2>1
  <2> QED BY <2>2, TenTimesType, TenTimesApplied
<1>3. last \in S
  BY DEF Wholes
<1> HIDE DEF S
<1>4. G \in [(1..n) \X S -> S]
  BY <1>2
<1>5. PICK g \in [0..n -> S] : Follows(g, n, last, G)
  <2> HIDE DEF G, last
  <2> QED BY <1>3, <1>4, Recursion
<1>6. ASSUME NEW i \in 1..n PROVE g[i] = TenTimes(bytes[n - i + 1])[g[i - 1]]
  <2>1. g[i - 1] \in S
    OBVIOUS
  <2>2. G[<<i, g[i - 1]>>] = TenTimes(bytes[n - i + 1])[g[i - 1]]
    BY <2>1
  <2> HIDE DEF G
  <2> QED BY Zenon, <2>2, <1>5 DEF Follows
<1>7. g = [i \in 0..n |-> IF i = 0 THEN <<d>> ELSE TenTimes(bytes[n - i + 1])[g[i - 1]]]
  <2>1. ASSUME NEW i \in 0..n
        PROVE  g[i] = IF i = 0 THEN <<d>> ELSE TenTimes(bytes[n - i + 1])[g[i - 1]]
    <3>1. CASE i = 0
      BY <3>1, <1>5 DEF Follows
    <3>2. CASE i # 0
      <4>1. i \in 1..n
        BY <3>2
      <4> QED BY Zenon, <4>1, <3>2, <1>6
    <3> QED BY <3>1, <3>2
  <2> HIDE DEF G, f
  <2>2. g = [i \in 0..n |-> g[i]]
    OBVIOUS
  <2> QED BY Zenon, <2>1, <2>2
<1>8. f = [i \in 0..n |-> IF i = 0 THEN <<d>> ELSE TenTimes(bytes[n - i + 1])[f[i - 1]]]
  <2> HIDE DEF G
  <2> QED BY Zenon, <1>7
<1> HIDE DEF f
<1>9. OnInterval(f, n) /\ f[0] = last
  BY <1>8 DEF OnInterval
<1>10. ASSUME NEW i \in 1..n PROVE f[i] = TenTimes(bytes[n - i + 1])[f[i - 1]]
  <2>1. i \in 0..n /\ i # 0
    OBVIOUS
  <2> QED BY Zenon, <1>8, <2>1
<1>11. GoesOn(f, n, S, G)
  <2> SUFFICES ASSUME NEW i \in 1..n, f[i - 1] \in S PROVE f[i] = G[<<i, f[i - 1]>>]
    BY DEF GoesOn
  <2>1. G[<<i, f[i - 1]>>] = TenTimes(bytes[n - i + 1])[f[i - 1]]
    OBVIOUS
  <2> HIDE DEF G
  <2> QED BY Zenon, <2>1, <1>10
<1>12. f \in [0..n -> S]
  <2> HIDE DEF G, last
  <2> QED BY <1>3, <1>4, <1>9, <1>11, Unfolds
<1>13. ASSUME NEW i \in 1..n PROVE f[i] = Tenfold(f[i - 1], bytes[n - i + 1])
  <2>1. f[i - 1] \in S
    BY <1>12
  <2> HIDE DEF G
  <2> QED BY Zenon, <2>1, <1>2, <1>10
<1>14. IsDone(f, bytes, n, d)
  BY <1>9, <1>12, <1>13 DEF IsDone, S
<1> QED BY <1>1, <1>14

(* TimesTenPlus makes bytes of bytes. *)
LEMMA TimesTenType ==
  ASSUME NEW bytes \in Seq(Nat), NEW d \in Nat
  PROVE  TimesTen(bytes, d) \in Seq(Nat)
<1> DEFINE n == Len(bytes)
<1>1. n \in Nat
  OBVIOUS
<1>2. PICK f : IsDone(f, bytes, n, d) /\ TimesTen(bytes, d) = Settled(f[n])
  BY <1>1, TimesTenUnfolds
<1> HIDE DEF n
<1>3. f[n] \in Wholes
  BY <1>1, <1>2 DEF IsDone
<1> DEFINE all == f[n]
<1> HIDE DEF all
<1>4. all \in Wholes
  BY <1>3 DEF all
<1>5. Settled(all) \in Seq(Nat)
  BY <1>4 DEF Settled, Wholes
<1> QED BY <1>2, <1>5 DEF all

(* What is first, and what is behind it. *)
PutInFront(r, x, t) ==
  Head(r) = x /\ Tail(r) = t /\ r[1] = x /\ \A i \in 1..Len(t) : r[1 + i] = t[i]

(* An element in front of a sequence is its head. *)
LEMMA FrontAndRest ==
  ASSUME NEW x \in Nat, NEW t \in Seq(Nat)
  PROVE  PutInFront(<<x>> \o t, x, t)
<1> DEFINE r == <<x>> \o t
<1>1. Head(r) = x /\ Tail(r) = t
  OBVIOUS
<1>2. r[1] = x /\ \A i \in 1..Len(t) : r[1 + i] = t[i]
  OBVIOUS
<1> QED BY <1>1, <1>2 DEF PutInFront

(* A byte in front. *)
LEMMA PrependByte ==
  ASSUME NEW t, NEW k \in Nat, Is(t, k, BYTE), NEW x \in 0..BYTE - 1
  PROVE  /\ Is(<<x>> \o t, k + 1, BYTE)
         /\ Val(<<x>> \o t, k + 1, BYTE) = x * Values[k] + Val(t, k, BYTE)
<1> DEFINE r == <<x>> \o t
<1>1. t \in Seq(Nat) /\ Len(t) = k /\ Below(t, k, BYTE) /\ x \in Nat
  BY FactsOfBytes DEF Is
<1>2. r \in Seq(Nat) /\ Len(r) = k + 1 /\ r[1] = x /\ \A i \in 1..k : r[1 + i] = t[i]
  BY <1>1
<1> HIDE DEF r
<1>3. Below(r, k + 1, BYTE)
  <2>1. \A i \in 1..k + 1 : i = 1 \/ \E j \in 1..k : i = 1 + j
    <3> TAKE i \in 1..k + 1
    <3>1. i = 1 \/ (i - 1 \in 1..k /\ i = 1 + (i - 1))
      OBVIOUS
    <3> QED BY <3>1
  <2> QED BY Zenon, <2>1, <1>1, <1>2 DEF Below
<1>4. Is(r, k + 1, BYTE)
  BY <1>2, <1>3 DEF Is
<1>5. Digital(r, k + 1) /\ k + 1 = 1 + k /\ 1 \in Nat /\ k + 1 \in Nat /\ 0 + 1 = 1 /\ 1 <= k + 1
  BY <1>3, FactsOfBytes, BelowIsDigital
<1>6. Val(r, 1 + k, BYTE) = Val(r, 1, BYTE) * Values[k] + Val(t, k, BYTE)
  <2>1. \A i \in 1..k : t[i] = r[1 + i]
    BY <1>2
  <2> QED BY <1>5, <2>1, FactsOfBytes, ValuesArePowers, ValSplit
<1>7. Val(r, 1, BYTE) = x
  <2>1. Digital(r, 0 + 1)
    BY <1>5, DigitalPrefix
  <2>2. Val(r, 0 + 1, BYTE) = Val(r, 0, BYTE) * BYTE + r[0 + 1] /\ Val(r, 0, BYTE) = 0
    BY <2>1, FactsOfBytes, ValStep, ValZero, 0 \in Nat
  <2> QED BY <2>2, <1>1, <1>2, FactsOfBytes
<1> QED BY <1>4, <1>5, <1>6, <1>7 DEF r

(* The value of the last k of n bytes. *)
LastOf(bytes, n, k) == [i \in 1..k |-> bytes[n - k + i]]

(* The value of one more of the last bytes. *)
LEMMA LastStep ==
  ASSUME NEW bytes, NEW n \in Nat, Is(bytes, n, BYTE), NEW k \in 0..n - 1
  PROVE  Val(LastOf(bytes, n, k + 1), k + 1, BYTE)
           = bytes[n - k] * Values[k] + Val(LastOf(bytes, n, k), k, BYTE)
<1> DEFINE t == LastOf(bytes, n, k)
           u == LastOf(bytes, n, k + 1)
           x == bytes[n - k]
<1>1. Below(bytes, n, BYTE) /\ k \in Nat /\ n - k \in 1..n
  BY DEF Is
<1>2. x \in 0..BYTE - 1
  BY <1>1 DEF Below
<1>3. t \in [1..k -> Nat] /\ Below(t, k, BYTE)
  <2>1. \A i \in 1..k : n - k + i \in 1..n
    OBVIOUS
  <2>2. \A i \in 1..k : t[i] \in 0..BYTE - 1
    BY <2>1, <1>1 DEF LastOf, Below
  <2>3. \A i \in 1..k : t[i] \in Nat
    <3> HIDE DEF t
    <3> QED BY <2>2, FactsOfBytes
  <2>4. t = [i \in 1..k |-> t[i]]
    BY DEF LastOf
  <2> HIDE DEF t
  <2> QED BY <2>2, <2>3, <2>4 DEF Below
<1>4. u[1] = x /\ \A i \in 1..k : u[1 + i] = t[i]
  <2>1. u[1] = x
    <3>1. 1 \in 1..k + 1 /\ n - (k + 1) + 1 = n - k
      OBVIOUS
    <3> QED BY <3>1 DEF LastOf
  <2>2. ASSUME NEW i \in 1..k PROVE u[1 + i] = t[i]
    <3>1. 1 + i \in 1..k + 1 /\ n - (k + 1) + (1 + i) = n - k + i
      OBVIOUS
    <3> QED BY <3>1 DEF LastOf
  <2> QED BY <2>1, <2>2
<1> HIDE DEF u, t, x
<1>5. Is(t, k, BYTE)
  <2>1. t \in Seq(Nat) /\ Len(t) = k
    BY <1>1, <1>3, FunctionIsSeq
  <2> QED BY <2>1, <1>3 DEF Is
<1>6. Is(<<x>> \o t, k + 1, BYTE) /\ Val(<<x>> \o t, k + 1, BYTE) = x * Values[k] + Val(t, k, BYTE)
  BY <1>1, <1>2, <1>5, PrependByte
<1>7. Val(<<x>> \o t, k + 1, BYTE) = Val(u, k + 1, BYTE)
  <2> DEFINE r == <<x>> \o t
  <2>1. r[1] = x /\ \A i \in 1..k : r[1 + i] = t[i]
    <3>1. t \in Seq(Nat) /\ Len(t) = k /\ x \in Nat
      BY <1>2, <1>5, FactsOfBytes DEF Is
    <3>2. PutInFront(r, x, t)
      BY <3>1, FrontAndRest
    <3> HIDE DEF r
    <3> QED BY <3>1, <3>2 DEF PutInFront
  <2>2. Digital(r, k + 1) /\ k + 1 \in Nat
    <3>1. Below(r, k + 1, BYTE)
      BY <1>6 DEF Is
    <3> HIDE DEF r
    <3> QED BY <3>1, FactsOfBytes, BelowIsDigital
  <2> HIDE DEF r
  <2>3. \A i \in 1..k + 1 : r[i] = u[i]
    <3> TAKE i \in 1..k + 1
    <3>1. i = 1 \/ (i - 1 \in 1..k /\ i = 1 + (i - 1))
      OBVIOUS
    <3>2. i - 1 \in 1..k => r[1 + (i - 1)] = u[1 + (i - 1)]
      BY Zenon, <2>1, <1>4
    <3> QED BY <3>1, <3>2, <2>1, <1>4
  <2>4. Val(r, k + 1, BYTE) = Val(u, k + 1, BYTE)
    BY <2>2, <2>3, FactsOfBytes, ValSame
  <2> QED BY <2>4 DEF r
<1> QED BY <1>6, <1>7 DEF t, u, x

(* x is ten times the last k bytes, and d: k bytes and what they carry. *)
TenDone(x, h, t, k, w) ==
  /\ h \in 0..9 /\ Is(t, k, BYTE) /\ x = <<h>> \o t
  /\ h * Values[k] + Val(t, k, BYTE) = w

TenDigit(b, h, q, y, B) == b * 10 + h = B * q + y
TenLevel(h, p, a, low, d) == h * p + a = 10 * low + d
TenMore(q, B, p, y, a, b, low, d) == q * (B * p) + (y * p + a) = 10 * (b * p + low) + d

(* Two elements in front, one after the other. *)
LEMMA PairInFront ==
  ASSUME NEW g \in Nat, NEW y \in Nat, NEW t \in Seq(Nat)
  PROVE  <<g, y>> \o t = <<g>> \o (<<y>> \o t)
<1> DEFINE a == <<g, y>> \o t
           r == <<y>> \o t
           b == <<g>> \o r
           k == Len(t)
<1>1. a \in Seq(Nat) /\ Len(a) = k + 2 /\ a[1] = g /\ a[2] = y /\ \A i \in 1..k : a[2 + i] = t[i]
  OBVIOUS
<1>2. r \in Seq(Nat) /\ Len(r) = k + 1 /\ r[1] = y /\ \A i \in 1..k : r[1 + i] = t[i]
  OBVIOUS
<1> HIDE DEF r
<1>3. b \in Seq(Nat) /\ Len(b) = k + 2 /\ b[1] = g /\ \A i \in 1..k + 1 : b[1 + i] = r[i]
  BY <1>2
<1> HIDE DEF a, b
<1>4. \A i \in 1..k + 2 : a[i] = b[i]
  <2> TAKE i \in 1..k + 2
  <2>1. k \in Nat
    BY DEF k
  <2>2. CASE i = 1
    BY <2>2, <1>1, <1>3
  <2>3. CASE i = 2
    <3>1. 1 \in 1..k + 1 /\ 1 + 1 = 2
      BY <2>1
    <3> QED BY <2>3, <3>1, <1>1, <1>2, <1>3
  <2>4. CASE i > 2
    <3> DEFINE j == i - 2
    <3>1. j \in 1..k /\ 1 + j \in 1..k + 1 /\ 1 + (1 + j) = i /\ 2 + j = i
      BY <2>1, <2>4
    <3> HIDE DEF j
    <3>2. a[2 + j] = t[j] /\ b[1 + (1 + j)] = r[1 + j] /\ r[1 + j] = t[j]
      BY <3>1, <1>1, <1>2, <1>3
    <3> QED BY <3>1, <3>2
  <2> QED BY <2>1, <2>2, <2>3, <2>4
<1>5. a = b
  BY <1>1, <1>3, <1>4, SeqEqual
<1> QED BY <1>5 DEF a, b, r

(* What is written and what is carried add up, one byte more. *)
LEMMA TenSum ==
  ASSUME NEW b \in Nat, NEW h \in Nat, NEW q \in Nat, NEW y \in Nat, NEW B \in Nat, NEW p \in Nat,
         NEW a \in Nat, NEW low \in Nat, NEW d \in Nat,
         TenDigit(b, h, q, y, B), TenLevel(h, p, a, low, d)
  PROVE  TenMore(q, B, p, y, a, b, low, d)
<1>1. (b * 10 + h) * p = 10 * (b * p) + h * p
  OBVIOUS
<1>2. (B * q + y) * p = q * (B * p) + y * p
  OBVIOUS
<1>3. h * p \in Nat /\ b * p \in Nat /\ q * (B * p) \in Nat /\ y * p \in Nat
  OBVIOUS
<1>4. 10 * (b * p) + h * p = q * (B * p) + y * p
  BY <1>1, <1>2 DEF TenDigit
<1>5. h * p + a = 10 * low + d
  BY DEF TenLevel
<1> QED BY <1>3, <1>4, <1>5 DEF TenMore

(* One byte more of the product. *)
LEMMA TenTimesIs ==
  ASSUME NEW x, NEW h, NEW t, NEW k \in Nat, NEW low \in Nat, NEW d \in Nat,
         TenDone(x, h, t, k, 10 * low + d), NEW b \in 0..BYTE - 1
  PROVE  \E g, r : TenDone(Tenfold(x, b), g, r, k + 1, 10 * (b * Values[k] + low) + d)
<1> DEFINE v == b * 10 + h
           g == v \div BYTE
           y == v % BYTE
           r == <<y>> \o t
<1>1. h \in Nat /\ h \in 0..9 /\ Is(t, k, BYTE) /\ x = <<h>> \o t /\ t \in Seq(Nat)
  BY DEF TenDone, Is
<1>2. Head(x) = h /\ Tail(x) = t
  <2>1. PutInFront(<<h>> \o t, h, t)
    BY <1>1, FrontAndRest
  <2> QED BY <2>1, <1>1 DEF PutInFront
<1>3. Tenfold(x, b) = <<g, y>> \o t
  BY <1>2 DEF Tenfold
<1>4. b \in Nat /\ b <= BYTE - 1 /\ BYTE \in Nat \ {0}
  BY FactsOfBytes
<1>5. v \in Nat /\ v \in Int /\ v < 10 * BYTE
  BY <1>1, <1>4
<1> HIDE DEF v
<1>6. g \in Nat /\ g < 10 /\ y \in 0..BYTE - 1 /\ v = BYTE * g + y
  BY <1>4, <1>5, DivLess, DivMod, 10 \in Nat
<1> HIDE DEF g, y
<1>7. Is(r, k + 1, BYTE) /\ Val(r, k + 1, BYTE) = y * Values[k] + Val(t, k, BYTE)
  BY <1>1, <1>6, PrependByte
<1>8. <<g, y>> \o t = <<g>> \o r
  <2>1. y \in Nat
    BY <1>4, <1>6
  <2> QED BY <2>1, <1>1, <1>6, PairInFront
<1>9. Values[k + 1] = BYTE * Values[k] /\ Values[k] \in Nat
  BY ValuesArePowers DEF Powers
<1>10. Val(t, k, BYTE) \in Nat
  <2>1. Digital(t, k)
    BY <1>1, FactsOfBytes, BelowIsDigital DEF Is
  <2> QED BY <2>1, FactsOfBytes, ValType
<1> HIDE DEF r
<1>11. g * Values[k + 1] + Val(r, k + 1, BYTE) = 10 * (b * Values[k] + low) + d
  <2> DEFINE p == Values[k]
             a == Val(t, k, BYTE)
             B == BYTE
  <2>1. p \in Nat /\ a \in Nat /\ B \in Nat /\ y \in Nat
    BY <1>4, <1>6, <1>9, <1>10
  <2>2. TenDigit(b, h, g, y, B) /\ TenLevel(h, p, a, low, d)
    BY <1>6 DEF v, TenDone, TenDigit, TenLevel
  <2> HIDE DEF p, a, B
  <2>3. g * (B * p) + (y * p + a) = 10 * (b * p + low) + d
    <3>1. TenMore(g, B, p, y, a, b, low, d)
      BY <1>1, <1>4, <1>6, <2>1, <2>2, TenSum
    <3> QED BY <3>1 DEF TenMore
  <2> QED BY <2>3, <1>7, <1>9 DEF p, a, B
<1>12. TenDone(Tenfold(x, b), g, r, k + 1, 10 * (b * Values[k] + low) + d)
  <2>1. g \in 0..9
    BY <1>6
  <2> QED BY <2>1, <1>3, <1>7, <1>8, <1>11 DEF TenDone
<1> QED BY <1>12

(* Ten times a number and a digit more, when there is room for it. *)
LEMMA TimesTenIs ==
  ASSUME NEW bytes, NEW n \in Nat, Is(bytes, n, BYTE), NEW d \in 0..9,
         10 * Val(bytes, n, BYTE) + d < Values[n]
  PROVE  /\ Is(TimesTen(bytes, d), n, BYTE)
         /\ Val(TimesTen(bytes, d), n, BYTE) = 10 * Val(bytes, n, BYTE) + d
<1> DEFINE low(k) == Val(LastOf(bytes, n, k), k, BYTE)
<1>1. bytes \in Seq(Nat) /\ Len(bytes) = n /\ Digital(bytes, n) /\ Below(bytes, n, BYTE) /\ d \in Nat
  BY FactsOfBytes, BelowIsDigital DEF Is
<1>2. PICK f : IsDone(f, bytes, n, d) /\ TimesTen(bytes, d) = Settled(f[n])
  BY <1>1, TimesTenUnfolds
<1>3. \A k \in 0..n : low(k) \in Nat
  <2> TAKE k \in 0..n
  <2>1. \A i \in 1..k : n - k + i \in 1..n
    OBVIOUS
  <2>2. Digital(LastOf(bytes, n, k), k)
    BY <2>1, <1>1 DEF LastOf, Digital
  <2> QED BY <2>2, FactsOfBytes, ValType
<1>4. low(0) = 0
  BY FactsOfBytes, ValZero
<1>5. low(n) = Val(bytes, n, BYTE)
  <2>1. \A i \in 1..n : bytes[i] = LastOf(bytes, n, n)[i]
    BY DEF LastOf
  <2> QED BY <2>1, <1>1, FactsOfBytes, ValSame
<1>6. ASSUME NEW k \in 0..n - 1 PROVE low(k + 1) = bytes[n - k] * Values[k] + low(k)
  BY LastStep
<1> HIDE DEF low
<1> DEFINE Done(k) == \E h, t : TenDone(f[k], h, t, k, 10 * low(k) + d)
           T == {k \in 0..n : Done(k)}
<1>7. Done(0)
  <2> DEFINE none == <<>>
  <2>1. f[0] = <<d>> \o none
    BY <1>2 DEF IsDone
  <2>2. Is(none, 0, BYTE)
    BY DEF Is, Below
  <2>3. Val(none, 0, BYTE) = 0 /\ Values[0] = 1
    BY FactsOfBytes, ValZero, ValuesArePowers DEF Powers
  <2> HIDE DEF none
  <2>4. d * Values[0] + Val(none, 0, BYTE) = 10 * low(0) + d
    BY <2>3, <1>1, <1>4
  <2>5. TenDone(f[0], d, none, 0, 10 * low(0) + d)
    BY <2>1, <2>2, <2>4 DEF TenDone
  <2> QED BY <2>5
<1>8. ASSUME NEW k \in 0..n - 1, Done(k) PROVE Done(k + 1)
  <2>1. k \in Nat /\ k + 1 \in 1..n /\ (k + 1) - 1 = k /\ n - (k + 1) + 1 = n - k /\ n - k \in 1..n /\ k \in 0..n
    OBVIOUS
  <2>2. f[k + 1] = Tenfold(f[k], bytes[n - k])
    BY <2>1, <1>2 DEF IsDone
  <2>3. bytes[n - k] \in 0..BYTE - 1
    BY <2>1, <1>1 DEF Below
  <2>4. PICK h, t : TenDone(f[k], h, t, k, 10 * low(k) + d)
    BY <1>8
  <2>5. low(k) \in Nat
    BY <1>3, <2>1
  <2>6. \E g, r : TenDone(Tenfold(f[k], bytes[n - k]), g, r, k + 1,
                          10 * (bytes[n - k] * Values[k] + low(k)) + d)
    BY <1>1, <2>1, <2>3, <2>4, <2>5, TenTimesIs
  <2> QED BY <2>2, <2>6, <1>6
<1>9. Done(n)
  <2>1. 0 \in T
    BY <1>7
  <2>2. ASSUME NEW k \in 0..n - 1, k \in T PROVE k + 1 \in T
    <3>1. Done(k) /\ k + 1 \in 0..n
      BY <2>2
    <3>2. Done(k + 1)
      <4> HIDE DEF Done
      <4> QED BY <3>1, <1>8
    <3> QED BY <3>1, <3>2
  <2>3. \A k \in 0..n : k \in T
    <3> HIDE DEF T
    <3> QED BY <2>1, <2>2, IntervalInduction
  <2> QED BY <2>3
<1>10. PICK h, t : TenDone(f[n], h, t, n, 10 * low(n) + d)
  BY <1>9
<1>11. h = 0
  <2> SUFFICES ASSUME h # 0 PROVE FALSE
    OBVIOUS
  <2>1. h \in Nat \ {0} /\ Values[n] \in Nat /\ Is(t, n, BYTE) /\ h * Values[n] + Val(t, n, BYTE) < Values[n]
    BY <1>5, <1>10, ValuesArePowers DEF TenDone, Powers
  <2>2. Val(t, n, BYTE) \in Nat
    <3>1. Digital(t, n)
      BY <2>1, FactsOfBytes, BelowIsDigital DEF Is
    <3> QED BY <3>1, FactsOfBytes, ValType
  <2>3. h * Values[n] >= Values[n] /\ h * Values[n] \in Nat
    BY <2>1
  <2> QED BY <2>1, <2>2, <2>3
<1>12. Settled(f[n]) = t
  <2> DEFINE all == f[n]
  <2>1. all = <<0>> \o t /\ t \in Seq(Nat)
    BY <1>10, <1>11 DEF TenDone, Is
  <2>2. Head(all) = 0 /\ Tail(all) = t
    <3> HIDE DEF all
    <3>1. PutInFront(<<0>> \o t, 0, t)
      BY <2>1, FrontAndRest, 0 \in Nat
    <3> QED BY <3>1, <2>1 DEF PutInFront
  <2> QED BY <2>2 DEF Settled
<1>13. Val(t, n, BYTE) = 10 * low(n) + d /\ Is(t, n, BYTE)
  <2>1. h * Values[n] + Val(t, n, BYTE) = 10 * low(n) + d /\ Is(t, n, BYTE)
    BY <1>10 DEF TenDone
  <2>2. Digital(t, n)
    BY <2>1, FactsOfBytes, BelowIsDigital DEF Is
  <2>3. Val(t, n, BYTE) \in Nat /\ Values[n] \in Nat
    BY <2>2, FactsOfBytes, ValType, ValuesArePowers DEF Powers
  <2> QED BY <2>1, <2>3, <1>11
<1> QED BY <1>2, <1>5, <1>12, <1>13

-----------------------------------------------------------------------------
(* The characters of digits, and the reading of a numeral.                 *)

(* The characters of the digits, one by one. *)
LEMMA CharsAre ==
  /\ Chars[1] = "0" /\ Chars[2] = "1" /\ Chars[3] = "2" /\ Chars[4] = "3" /\ Chars[5] = "4"
  /\ Chars[6] = "5" /\ Chars[7] = "6" /\ Chars[8] = "7" /\ Chars[9] = "8" /\ Chars[10] = "9"
BY DEF Chars

(* Different digits have different characters. *)
LEMMA DigitsDiffer ==
  ASSUME NEW i \in 0..9, NEW j \in 0..9, Digit(i) = Digit(j)
  PROVE  i = j
<1>1. i \in {0, 1, 2, 3, 4, 5, 6, 7, 8, 9} /\ j \in {0, 1, 2, 3, 4, 5, 6, 7, 8, 9}
  OBVIOUS
<1> QED BY <1>1, CharsAre DEF Digit

(* A digit is none of the other characters of a text. *)
LEMMA DigitIsNoSign ==
  ASSUME NEW c \in DigitChars
  PROVE  c # "." /\ c # SPACE /\ c # NL /\ c # NUL /\ c \in ToSet(Chars)
<1>1. PICK i \in 0..9 : c = Digit(i)
  BY DEF DigitChars
<1>2. i \in {0, 1, 2, 3, 4, 5, 6, 7, 8, 9}
  OBVIOUS
<1>3. c # "." /\ c # SPACE /\ c # NL /\ c # NUL
  <2>1. c \in {"0", "1", "2", "3", "4", "5", "6", "7", "8", "9"}
    BY <1>1, <1>2, CharsAre DEF Digit
  <2> QED BY <2>1 DEF SPACE, NL, NUL
<1>4. Len(Chars) = 10
  BY DEF Chars
<1>5. DOMAIN Chars = 1..10
  BY DEF Chars
<1>6. i + 1 \in DOMAIN Chars
  BY <1>5
<1>7. c \in ToSet(Chars)
  BY <1>1, <1>6 DEF ToSet, Digit
<1> QED BY <1>3, <1>7

(* DigitValue reads a digit back. *)
LEMMA DigitValueIs ==
  ASSUME NEW i \in 0..9
  PROVE  DigitValue(Digit(i)) = i
<1>1. \A j \in 0..9 : Digit(j) = Digit(i) => j = i
  BY DigitsDiffer
<1> QED BY Zenon, <1>1 DEF DigitValue

(* The character of 0 is that of no other digit. *)
LEMMA ZeroIs == Digit(0) = "0" /\ \A i \in 0..9 : Digit(i) = "0" => i = 0
<1>1. Digit(0) = "0"
  BY CharsAre DEF Digit
<1>2. 0 \in 0..9
  OBVIOUS
<1> QED BY <1>1, <1>2, DigitsDiffer

-----------------------------------------------------------------------------
NoBytes == [i \in 1..AMOUNT_LEN |-> 0]
IsRead(f, s, n) ==
  /\ f[0] = NoBytes
  /\ \A i \in 1..n : f[i] = TimesTen(f[i - 1], DigitValue(s[i]))

(* The reading starts at bytes of value 0. *)
LEMMA NoBytesIs == Is(NoBytes, AMOUNT_LEN, BYTE) /\ Val(NoBytes, AMOUNT_LEN, BYTE) = 0
<1>1. NoBytes \in [1..AMOUNT_LEN -> Nat] /\ \A i \in 1..AMOUNT_LEN : NoBytes[i] = 0
  BY DEF NoBytes
<1>2. NoBytes \in Seq(Nat) /\ Len(NoBytes) = AMOUNT_LEN
  BY <1>1, FactsOfBytes, FunctionIsSeq
<1>3. Below(NoBytes, AMOUNT_LEN, BYTE)
  BY <1>1, FactsOfBytes DEF Below
<1>4. Val(NoBytes, AMOUNT_LEN, BYTE) = 0
  BY <1>1, FactsOfBytes, ValOfZeros
<1> QED BY <1>2, <1>3, <1>4 DEF Is

(* ReadDigits computes the recursion its definition writes down. *)
LEMMA ReadUnfolds ==
  ASSUME NEW s, NEW n \in Nat, Len(s) = n, \A i \in 1..n : DigitValue(s[i]) \in Nat
  PROVE  \E f : IsRead(f, s, n) /\ ReadDigits(s) = f[n]
<1> DEFINE f == CHOOSE first : first = [i \in 0..n |->
                  IF i = 0 THEN NoBytes ELSE TimesTen(first[i - 1], DigitValue(s[i]))]
           S == Seq(Nat)
           G == [p \in (1..n) \X S |-> TimesTen(p[2], DigitValue(s[p[1]]))]
<1>1. ReadDigits(s) = f[n]
  BY DEF ReadDigits, NoBytes, TimesTen
<1>2. \A i \in 1..n, x \in S : TimesTen(x, DigitValue(s[i])) \in S
  BY TimesTenType
<1>3. NoBytes \in S
  BY NoBytesIs DEF Is
<1> HIDE DEF S
<1>4. G \in [(1..n) \X S -> S]
  BY <1>2
<1>5. PICK g \in [0..n -> S] : Follows(g, n, NoBytes, G)
  <2> HIDE DEF G
  <2> QED BY <1>3, <1>4, Recursion
<1>6. ASSUME NEW i \in 1..n PROVE g[i] = TimesTen(g[i - 1], DigitValue(s[i]))
  <2>1. g[i - 1] \in S
    OBVIOUS
  <2>2. G[<<i, g[i - 1]>>] = TimesTen(g[i - 1], DigitValue(s[i]))
    BY <2>1
  <2> HIDE DEF G
  <2> QED BY Zenon, <2>2, <1>5 DEF Follows
<1>7. g = [i \in 0..n |-> IF i = 0 THEN NoBytes ELSE TimesTen(g[i - 1], DigitValue(s[i]))]
  <2>1. ASSUME NEW i \in 0..n
        PROVE  g[i] = IF i = 0 THEN NoBytes ELSE TimesTen(g[i - 1], DigitValue(s[i]))
    <3>1. CASE i = 0
      BY <3>1, <1>5 DEF Follows
    <3>2. CASE i # 0
      <4>1. i \in 1..n
        BY <3>2
      <4> QED BY Zenon, <4>1, <3>2, <1>6
    <3> QED BY <3>1, <3>2
  <2> HIDE DEF G, f
  <2>2. g = [i \in 0..n |-> g[i]]
    OBVIOUS
  <2> QED BY Zenon, <2>1, <2>2
<1>8. f = [i \in 0..n |-> IF i = 0 THEN NoBytes ELSE TimesTen(f[i - 1], DigitValue(s[i]))]
  <2> HIDE DEF G
  <2> QED BY Zenon, <1>7
<1> HIDE DEF f
<1>9. f[0] = NoBytes
  <2>1. 0 \in 0..n
    OBVIOUS
  <2> QED BY Zenon, <2>1, <1>8
<1>10. ASSUME NEW i \in 1..n PROVE f[i] = TimesTen(f[i - 1], DigitValue(s[i]))
  <2>1. i \in 0..n /\ i # 0
    OBVIOUS
  <2> QED BY Zenon, <1>8, <2>1
<1>11. IsRead(f, s, n)
  BY <1>9, <1>10 DEF IsRead
<1> QED BY <1>1, <1>11

(* A value grows with its digits. *)
LEMMA ValGrows ==
  ASSUME NEW b \in Nat \ {0}, NEW P, Powers(P, b), NEW n \in Nat, NEW d, Digital(d, n), NEW i \in 0..n
  PROVE  Val(d, i, b) <= Val(d, n, b)
<1> DEFINE m == n - i
           t == [j \in 1..m |-> d[i + j]]
<1>1. m \in Nat /\ i \in Nat /\ i + m = n /\ i <= n
  OBVIOUS
<1>2. \A j \in 1..m : t[j] = d[i + j] /\ i + j \in 1..n
  OBVIOUS
<1> HIDE DEF m, t
<1>3. Digital(d, i + m) /\ Digital(d, i) /\ Digital(t, m)
  <2>1. Digital(d, i)
    BY <1>1, DigitalPrefix
  <2>2. Digital(t, m)
    BY <1>2 DEF Digital
  <2> QED BY <1>1, <2>1, <2>2
<1>4. Val(d, i + m, b) = Val(d, i, b) * P[m] + Val(t, m, b)
  <2>1. \A j \in 1..m : t[j] = d[i + j]
    BY <1>2
  <2> QED BY <1>1, <1>3, <2>1, ValSplit
<1>5. Val(d, i, b) \in Nat /\ Val(t, m, b) \in Nat /\ P[m] \in Nat \ {0}
  BY <1>1, <1>3, ValType DEF Powers
<1>6. Val(d, i, b) <= Val(d, i, b) * P[m] /\ Val(d, i, b) * P[m] \in Nat
  BY <1>5
<1> QED BY <1>1, <1>4, <1>5, <1>6

(* s is the text of digits that make v. *)
ShowsValue(s, n, v) == \E d : Shows(s, d, n) /\ Val(d, n, 10) = v
IsText(s, v) == \E n \in Nat : ShowsValue(s, n, v)

(* A text that makes the value of the bytes reads back as the bytes. *)
LEMMA ReadsBack ==
  ASSUME NEW bytes, Is(bytes, AMOUNT_LEN, BYTE), NEW s, IsText(s, Val(bytes, AMOUNT_LEN, BYTE))
  PROVE  ReadDigits(s) = bytes
<1> DEFINE L == AMOUNT_LEN
           v == Val(bytes, L, BYTE)
<1>0. L \in Nat
  BY FactsOfBytes
<1>1. PICK n \in Nat : ShowsValue(s, n, v)
  BY DEF IsText
<1>2. PICK d : Shows(s, d, n) /\ Val(d, n, 10) = v
  BY <1>1 DEF ShowsValue
<1>3. Below(d, n, 10) /\ Digital(d, n) /\ \A i \in 1..n : s[i] = Digit(d[i]) /\ d[i] \in 0..9
  BY <1>2, ShownDigits
<1>4. ASSUME NEW i \in 1..n PROVE DigitValue(s[i]) = d[i] /\ DigitValue(s[i]) \in Nat
  BY <1>3, DigitValueIs
<1>5. Len(s) = n
  BY <1>2, ShownIsText
<1>6. PICK f : IsRead(f, s, n) /\ ReadDigits(s) = f[n]
  BY <1>4, <1>5, ReadUnfolds
<1>7. v < Values[L]
  <2>1. Below(bytes, L, BYTE)
    BY DEF Is
  <2> QED BY <2>1, <1>0, FactsOfBytes, ValuesArePowers, ValBound
<1> HIDE DEF L
<1>8. v \in Nat /\ Values[L] \in Nat
  <2>1. v \in Nat
    BY <1>2, <1>3, TenIs, ValType
  <2> QED BY <2>1, <1>0, ValuesArePowers DEF Powers
<1> HIDE DEF v
<1> DEFINE Done(i) == Is(f[i], L, BYTE) /\ Val(f[i], L, BYTE) = Val(d, i, 10)
           T == {i \in 0..n : Done(i)}
<1>9. Done(0)
  <2>1. Val(d, 0, 10) = 0
    BY TenIs, ValZero
  <2> QED BY <2>1, <1>6, NoBytesIs DEF IsRead, L
<1>10. ASSUME NEW i \in 0..n - 1, Done(i) PROVE Done(i + 1)
  <2>1. i + 1 \in 1..n /\ (i + 1) - 1 = i /\ i \in Nat /\ i + 1 \in 0..n /\ i + 1 <= n /\ i <= n /\ i + 1 \in Nat
    OBVIOUS
  <2>2. f[i + 1] = TimesTen(f[i], d[i + 1])
    BY <2>1, <1>4, <1>6 DEF IsRead
  <2>3. Digital(d, i + 1) /\ Digital(d, i)
    BY <2>1, <1>3, DigitalPrefix
  <2>4. Val(d, i + 1, 10) = Val(d, i, 10) * 10 + d[i + 1] /\ Val(d, i, 10) \in Nat
    BY <2>1, <2>3, TenIs, ValStep, ValType
  <2>5. Val(d, i + 1, 10) <= v
    BY <1>2, <1>3, <2>1, TenIs, TensArePowers, ValGrows
  <2>6. d[i + 1] \in 0..9
    BY <1>3, <2>1
  <2>7. 10 * Val(f[i], L, BYTE) + d[i + 1] = Val(d, i + 1, 10)
    BY <1>10, <2>4, <2>6
  <2>8. 10 * Val(f[i], L, BYTE) + d[i + 1] < Values[L]
    <3>1. Val(d, i + 1, 10) \in Nat
      BY <2>1, <2>3, TenIs, ValType
    <3> QED BY <3>1, <2>5, <2>7, <1>7, <1>8
  <2> QED BY <1>0, <1>10, <2>2, <2>6, <2>7, <2>8, TimesTenIs
<1>11. Done(n)
  <2>1. 0 \in T
    BY <1>9
  <2>2. ASSUME NEW k \in 0..n - 1, k \in T PROVE k + 1 \in T
    <3>1. Done(k) /\ k + 1 \in 0..n
      BY <2>2
    <3>2. Done(k + 1)
      <4> HIDE DEF Done
      <4> QED BY <3>1, <1>10
    <3> QED BY <3>1, <3>2
  <2>3. \A k \in 0..n : k \in T
    <3> HIDE DEF T
    <3> QED BY <2>1, <2>2, IntervalInduction
  <2> QED BY <2>3
<1> DEFINE r == f[n]
<1>12. Is(r, L, BYTE) /\ Is(bytes, L, BYTE) /\ Val(r, L, BYTE) = Val(bytes, L, BYTE)
  BY <1>2, <1>11 DEF v, L
<1> HIDE DEF r
<1>13. r = bytes
  <2>1. Below(r, L, BYTE) /\ Below(bytes, L, BYTE) /\ r \in Seq(Nat) /\ bytes \in Seq(Nat) /\ Len(r) = L /\ Len(bytes) = L
    BY <1>12 DEF Is
  <2>2. \A i \in 1..L : r[i] = bytes[i]
    BY <1>0, <1>12, <2>1, FactsOfBytes, ValInjective
  <2> QED BY <2>1, <2>2, SeqEqual
<1> QED BY <1>6, <1>13 DEF r

-----------------------------------------------------------------------------
(* Zeros shows zeros. *)
LEMMA ZerosShown ==
  ASSUME NEW k \in Nat
  PROVE  Shows(Zeros(k), [i \in 1..k |-> 0], k) /\ Val([i \in 1..k |-> 0], k, 10) = 0
<1>1. Shows(Zeros(k), [i \in 1..k |-> 0], k)
  BY ZeroIs DEF Shows, Zeros
<1>2. \A i \in 1..k : [j \in 1..k |-> 0][i] = 0
  OBVIOUS
<1>3. Val([i \in 1..k |-> 0], k, 10) = 0
  BY <1>2, TenIs, ValOfZeros
<1> QED BY <1>1, <1>3

(* Zeros in front of a text keep its value. *)
LEMMA PaddedText ==
  ASSUME NEW s, NEW v, IsText(s, v), NEW k \in Nat
  PROVE  IsText(Zeros(k) \o s, v)
<1>1. PICK n \in Nat : ShowsValue(s, n, v)
  BY DEF IsText
<1>2. PICK d : Shows(s, d, n) /\ Val(d, n, 10) = v
  BY <1>1 DEF ShowsValue
<1> DEFINE z == [i \in 1..k |-> 0]
           j == Joint(z, k, d, n)
<1>3. Shows(Zeros(k), z, k) /\ Val(z, k, 10) = 0
  BY ZerosShown
<1> HIDE DEF z
<1>4. Shows(Zeros(k) \o s, j, k + n) /\ Val(j, k + n, 10) = Val(z, k, 10) * Tens[n] + Val(d, n, 10)
  BY <1>2, <1>3, JointShown
<1>5. Digital(d, n)
  BY <1>2, ShownDigits
<1>6. Val(d, n, 10) \in Nat /\ Tens[n] \in Nat
  BY <1>5, TenIs, ValType, TensArePowers DEF Powers
<1>7. Val(j, k + n, 10) = v
  BY <1>2, <1>3, <1>4, <1>6
<1>8. k + n \in Nat
  OBVIOUS
<1> QED BY <1>4, <1>7, <1>8 DEF IsText, ShowsValue, ShowsValue

(* Zeros make 0. *)
LEMMA ZerosText ==
  ASSUME NEW k \in Nat
  PROVE  IsText(Zeros(k), 0)
BY ZerosShown DEF IsText, ShowsValue, ShowsValue

(* Zeros are digits. *)
LEMMA ZerosType ==
  ASSUME NEW k \in Nat
  PROVE  Zeros(k) \in Seq(DigitChars) /\ Len(Zeros(k)) = k /\ \A i \in 1..k : Zeros(k)[i] = "0"
<1>1. Zeros(k) \in Seq(DigitChars) /\ Len(Zeros(k)) = k
  BY ZerosShown, ShownIsText
<1> QED BY <1>1 DEF Zeros

-----------------------------------------------------------------------------
(* A whole part, a point and a fraction, and what was dropped behind it.   *)

(* The first place of x in s. *)
Found(s, x) == LET I == {i \in 1..Len(s) : s[i] = x} IN IF I # {} THEN Min(I) ELSE 0

(* SelectInSeq yields 0 for what is not there. *)
LEMMA FoundNowhere ==
  ASSUME NEW s, NEW x, \A i \in 1..Len(s) : s[i] # x
  PROVE  Found(s, x) = 0
<1>1. {i \in 1..Len(s) : s[i] = x} = {}
  OBVIOUS
<1> QED BY <1>1 DEF Found

NotUpTo(s, x, n) == \A i \in 1..n : s[i] # x

(* SelectInSeq finds what is at k and not before. *)
LEMMA FoundAt ==
  ASSUME NEW s, NEW x, NEW n \in Nat, Len(s) = n, NEW k \in 1..n, s[k] = x,
         NotUpTo(s, x, k - 1)
  PROVE  Found(s, x) = k
<1> DEFINE I == {i \in 1..n : s[i] = x}
<1>1. I \in SUBSET Nat /\ k \in I
  OBVIOUS
<1>2. ASSUME NEW y \in I PROVE k <= y
  <2>1. y \in 1..n /\ y \notin 1..k - 1
    BY DEF NotUpTo
  <2> QED BY <2>1
<1>3. Found(s, x) = IF I # {} THEN Min(I) ELSE 0
  BY DEF Found
<1> HIDE DEF I
<1>4. I # {} /\ Min(I) = k
  BY <1>1, <1>2, LeastOf
<1> QED BY <1>3, <1>4

(* A text with a mark in it, split at the mark. *)
IsSplit(s, a, x, b, S) ==
  /\ s \in Seq(S) /\ Len(s) = Len(a) + 1 + Len(b)
  /\ s[Len(a) + 1] = x /\ \A i \in 1..Len(a) : s[i] = a[i]
  /\ SubSeq(s, 1, Len(a)) = a
  /\ SubSeq(s, Len(a) + 2, Len(s)) = b

(* The parts of a text with a mark in it. *)
LEMMA SplitAt ==
  ASSUME NEW S, NEW a \in Seq(S), NEW x \in S, NEW b \in Seq(S)
  PROVE  IsSplit(a \o <<x>> \o b, a, x, b, S)
<1> DEFINE n == Len(a)
           m == Len(b)
           p == a \o <<x>>
           s == p \o b
           u == SubSeq(s, 1, n)
           w == SubSeq(s, n + 2, n + 1 + m)
<1>1. n \in Nat /\ m \in Nat
  OBVIOUS
<1>2. p \in Seq(S) /\ Len(p) = n + 1 /\ p[n + 1] = x /\ \A i \in 1..n : p[i] = a[i]
  OBVIOUS
<1> HIDE DEF p
<1>4. s \in Seq(S) /\ Len(s) = n + 1 + m /\ (\A i \in 1..n + 1 : s[i] = p[i]) /\ \A i \in 1..m : s[n + 1 + i] = b[i]
  <2>1. s \in Seq(S) /\ Len(s) = Len(p) + Len(b)
    BY <1>2, ConcatProperties
  <2>2. \A i \in 1..Len(p) + Len(b) : s[i] = IF i <= Len(p) THEN p[i] ELSE b[i - Len(p)]
    BY <1>2, ConcatProperties
  <2> HIDE DEF s, n
  <2> QED BY <1>1, <1>2, <2>1, <2>2
<1> HIDE DEF s
<1>5. s[n + 1] = x /\ \A i \in 1..n : s[i] = a[i]
  BY <1>1, <1>2, <1>4
<1>6. u = a
  <2>1. u \in Seq(S) /\ Len(u) = n /\ \A i \in 1..n : u[i] = s[i]
    BY <1>1, <1>4
  <2> HIDE DEF u
  <2>2. \A i \in 1..n : u[i] = a[i]
    BY <2>1, <1>5
  <2> QED BY <2>1, <2>2, SeqEqual
<1>7. w = b
  <2>1. w \in Seq(S) /\ Len(w) = m /\ \A i \in 1..m : w[i] = s[n + 1 + i]
    BY <1>1, <1>4
  <2> HIDE DEF w
  <2>2. \A i \in 1..m : w[i] = b[i]
    BY <2>1, <1>4
  <2> QED BY <2>1, <2>2, SeqEqual
<1> QED BY <1>4, <1>5, <1>6, <1>7 DEF IsSplit, s, p

TextChars == DigitChars \union {"."}

(* An element of a sequence over S is in S. *)
LEMMA ElementIn ==
  ASSUME NEW S, NEW s \in Seq(S), NEW i \in 1..Len(s)
  PROVE  s[i] \in S
OBVIOUS

(* Digits are digits to the reader, and no point. *)
LEMMA AreDigits ==
  ASSUME NEW s \in Seq(DigitChars)
  PROVE  IsDigits(s) /\ \A i \in 1..Len(s) : s[i] # "."
<1>1. \A i \in 1..Len(s) : s[i] \in DigitChars
  BY ElementIn
<1> QED BY <1>1, DigitIsNoSign DEF IsDigits

(* The text of a whole part and a fraction. *)
IsPointed(s, whole, frac) ==
  \/ s = whole /\ frac = <<>>
  \/ /\ s = whole \o <<".">> \o frac
     /\ frac # <<>> /\ frac[Len(frac)] # "0"

(* The text of a whole part and a fraction denotes what their digits and   *)
(* the zeros dropped behind them read as.                                  *)
LEMMA PointedDenotes ==
  ASSUME NEW whole \in Seq(DigitChars), NEW frac \in Seq(DigitChars), NEW s, NEW bytes, NEW D \in Nat,
         IsPointed(s, whole, frac), whole # <<>>, whole[1] = "0" => Len(whole) = 1,
         Len(frac) <= D, bytes = ReadDigits(whole \o frac \o Zeros(D - Len(frac)))
  PROVE  Denotes(s, bytes, D)
<1> DEFINE point == Found(s, ".")
           a == IF point = 0 THEN s ELSE SubSeq(s, 1, point - 1)
           b == IF point = 0 THEN <<>> ELSE SubSeq(s, point + 1, Len(s))
           n == Len(whole)
<1>1. Denotes(s, bytes, D) <=>
        /\ IsDigits(a) /\ IsDigits(b)
        /\ a # <<>> /\ (a[1] = "0" => Len(a) = 1)
        /\ point # 0 => b # <<>> /\ b[Len(b)] # "0"
        /\ Len(b) <= D
        /\ bytes = ReadDigits(a \o b \o Zeros(D - Len(b)))
  BY DEF Denotes, SelectInSeq, Found
<1> HIDE DEF point
<1>2. IsDigits(whole) /\ IsDigits(frac) /\ \A i \in 1..n : whole[i] # "."
  BY AreDigits
<1>3. a = whole /\ b = frac /\ (point # 0 => frac # <<>> /\ frac[Len(frac)] # "0")
  <2>1. CASE s = whole /\ frac = <<>>
    <3>1. point = 0
      BY <2>1, <1>2, FoundNowhere DEF point
    <3> QED BY <2>1, <3>1
  <2>2. CASE s = whole \o <<".">> \o frac /\ frac # <<>> /\ frac[Len(frac)] # "0"
    <3> DEFINE S == TextChars
    <3>1. whole \in Seq(S) /\ frac \in Seq(S) /\ "." \in S
      BY SeqMonotonic DEF TextChars
    <3> HIDE DEF S
    <3>2. /\ Len(s) = n + 1 + Len(frac) /\ s[n + 1] = "." /\ \A i \in 1..n : s[i] = whole[i]
          /\ SubSeq(s, 1, n) = whole /\ SubSeq(s, n + 2, Len(s)) = frac
      <4>1. IsSplit(s, whole, ".", frac, S)
        BY <2>2, <3>1, SplitAt
      <4> HIDE DEF n
      <4>2. n = Len(whole)
        BY DEF n
      <4> QED BY <4>1, <4>2 DEF IsSplit
    <3>3. n \in Nat /\ Len(frac) \in Nat
      BY <3>1
    <3> HIDE DEF n
    <3>4. point = n + 1
      <4> DEFINE m == n + 1 + Len(frac)
      <4>1. m \in Nat /\ n + 1 \in 1..m /\ (n + 1) - 1 = n
        BY <3>3
      <4>2. NotUpTo(s, ".", n)
        BY <3>2, <1>2 DEF NotUpTo
      <4> HIDE DEF m
      <4>3. Len(s) = m
        BY <3>2 DEF m
      <4> QED BY <4>1, <4>2, <4>3, <3>2, FoundAt DEF point
    <3>5. point # 0 /\ point - 1 = n /\ point + 1 = n + 2
      BY <3>3, <3>4
    <3> QED BY <3>2, <3>5, <2>2
  <2> QED BY <2>1, <2>2 DEF IsPointed
<1> HIDE DEF a, b
<1> QED BY <1>1, <1>2, <1>3

-----------------------------------------------------------------------------
(* The zeros at the end of the digits, as far as the decimals go. *)
EndZeros(val, len, n) == \A i \in 1..n : i <= len /\ val[len - i + 1] = "0"

(* TrailingZeros counts the zeros at the end, as far as the decimals go. *)
LEMMA TrailingZerosAre ==
  ASSUME NEW val, NEW len \in Nat, Len(val) = len, NEW D \in Nat
  PROVE  LET tz == TrailingZeros(val, D)
         IN  /\ tz \in 0..D /\ tz <= len /\ EndZeros(val, len, tz)
             /\ tz < D /\ tz < len => val[len - tz] # "0"
<1> DEFINE tz == TrailingZeros(val, D)
           Good(n) == EndZeros(val, len, n) /\ (n = D \/ ~EndZeros(val, len, n + 1))
           U == {n \in 0..D : n = D \/ ~EndZeros(val, len, n + 1)}
<1>1. tz = CHOOSE n \in 0..D : Good(n)
  BY DEF TrailingZeros, EndZeros
<1>2. \E n \in 0..D : Good(n)
  <2>1. U \in SUBSET Nat /\ U # {}
    OBVIOUS
  <2>2. PICK x \in U : \A y \in U : x <= y
    <3> HIDE DEF U
    <3> QED BY <2>1, LeastElement
  <2>3. x \in 0..D /\ (x = D \/ ~EndZeros(val, len, x + 1))
    OBVIOUS
  <2>4. EndZeros(val, len, x)
    <3>1. CASE x = 0
      BY <3>1 DEF EndZeros
    <3>2. CASE x # 0
      <4>1. x - 1 \in 0..D /\ ~(x <= x - 1) /\ (x - 1) + 1 = x /\ x - 1 # D
        BY <2>3, <3>2
      <4>2. x - 1 \notin U
        <5> HIDE DEF U
        <5> QED BY <2>2, <4>1
      <4>3. EndZeros(val, len, (x - 1) + 1)
        BY <4>1, <4>2
      <4> QED BY <4>1, <4>3
    <3> QED BY <3>1, <3>2
  <2> QED BY <2>3, <2>4
<1>3. tz \in 0..D /\ Good(tz)
  <2> HIDE DEF Good, tz
  <2> QED BY Zenon, <1>1, <1>2
<1> HIDE DEF tz
<1>4. tz \in Nat /\ EndZeros(val, len, tz) /\ (tz = D \/ ~EndZeros(val, len, tz + 1))
  BY <1>3
<1>5. tz <= len
  <2>1. CASE tz = 0
    BY <2>1
  <2>2. CASE tz # 0
    <3>1. tz \in 1..tz
      BY <1>4, <2>2
    <3> QED BY <3>1, <1>4 DEF EndZeros
  <2> QED BY <2>1, <2>2
<1>6. ASSUME tz < D, tz < len, val[len - tz] = "0" PROVE FALSE
  <2>1. tz # D /\ \A i \in 1..tz + 1 : i \in 1..tz \/ i = tz + 1
    BY <1>4, <1>6
  <2>2. len - (tz + 1) + 1 = len - tz /\ tz + 1 <= len
    BY <1>4, <1>6
  <2>3. EndZeros(val, len, tz + 1)
    BY <2>1, <2>2, <1>4, <1>6 DEF EndZeros
  <2> QED BY <2>1, <2>3, <1>4
<1> QED BY <1>3, <1>4, <1>5, <1>6 DEF tz

-----------------------------------------------------------------------------
(* The digits cut in two, and the zeros that were dropped. *)
AreParts(a, b, val, len, tz, p) ==
  /\ a \in Seq(DigitChars) /\ Len(a) = p
  /\ b \in Seq(DigitChars) /\ Len(b) = (len - tz) - p
  /\ p > 0 => a[1] = val[1]
  /\ p < len - tz => b[(len - tz) - p] = val[len - tz]
  /\ a \o b \o Zeros(tz) = val

(* The two parts, and the zeros dropped, are the digits. *)
LEMMA CutAndPadded ==
  ASSUME NEW val \in Seq(DigitChars), NEW len, len = Len(val), NEW tz \in 0..len, EndZeros(val, len, tz),
         NEW p \in 0..len - tz
  PROVE  AreParts(SubSeq(val, 1, p), SubSeq(val, p + 1, len - tz), val, len, tz, p)
<1> DEFINE m == len - tz
           a == SubSeq(val, 1, p)
           b == SubSeq(val, p + 1, m)
           z == Zeros(tz)
           ab == a \o b
           all == ab \o z
           S == DigitChars
<1> HIDE DEF S
<1>1. val \in Seq(S) /\ len \in Nat
  BY DEF S
<1>2. m \in Nat /\ p \in Nat /\ p <= m /\ m <= len /\ tz \in Nat /\ m + tz = len
  BY <1>1
<1> HIDE DEF m
<1>3. a \in Seq(S) /\ Len(a) = p /\ \A i \in 1..p : a[i] = val[i]
  BY <1>1, <1>2
<1>4. b \in Seq(S) /\ Len(b) = m - p /\ \A i \in 1..m - p : b[i] = val[p + i]
  BY <1>1, <1>2
<1>5. z \in Seq(S) /\ Len(z) = tz /\ \A i \in 1..tz : z[i] = "0"
  BY <1>2, ZerosType DEF S
<1> HIDE DEF a, b, z
<1>6. ab \in Seq(S) /\ Len(ab) = m /\ (\A i \in 1..p : ab[i] = a[i]) /\ \A i \in 1..m - p : ab[p + i] = b[i]
  BY <1>2, <1>3, <1>4, SMTT(30)
<1> HIDE DEF ab
<1>7. all \in Seq(S) /\ Len(all) = len /\ (\A i \in 1..m : all[i] = ab[i]) /\ \A i \in 1..tz : all[m + i] = z[i]
  BY <1>2, <1>5, <1>6
<1> HIDE DEF all
<1>8. \A i \in 1..len : all[i] = val[i]
  <2> TAKE i \in 1..len
  <2>1. CASE i <= p
    <3>1. i \in 1..p /\ i \in 1..m
      BY <1>2, <2>1
    <3> QED BY <3>1, <1>3, <1>6, <1>7
  <2>2. CASE p < i /\ i <= m
    <3>1. i - p \in 1..m - p /\ p + (i - p) = i /\ i \in 1..m
      BY <1>2, <2>2
    <3>2. ab[p + (i - p)] = b[i - p] /\ b[i - p] = val[p + (i - p)]
      BY <3>1, <1>4, <1>6
    <3> QED BY <3>1, <3>2, <1>7
  <2>3. CASE m < i
    <3>1. i - m \in 1..tz /\ m + (i - m) = i
      BY <1>2, <2>3
    <3>2. all[m + (i - m)] = "0"
      BY <3>1, <1>5, <1>7
    <3>3. val[i] = "0"
      <4>1. len - i + 1 \in 1..tz /\ len - (len - i + 1) + 1 = i
        BY <1>1, <1>2, <2>3
      <4> QED BY <4>1 DEF EndZeros
    <3> QED BY <3>1, <3>2, <3>3
  <2> QED BY <1>2, <2>1, <2>2, <2>3
<1>9. all = val
  BY <1>1, <1>7, <1>8, SeqEqual
<1>10. p > 0 => a[1] = val[1]
  BY <1>2, <1>3
<1>11. p < m => b[m - p] = val[m]
  <2> SUFFICES ASSUME p < m PROVE b[m - p] = val[m]
    OBVIOUS
  <2>1. m - p \in 1..m - p /\ p + (m - p) = m
    BY <1>2
  <2> QED BY <2>1, <1>4
<1> QED BY <1>3, <1>4, <1>9, <1>10, <1>11 DEF AreParts, S, m, a, b, ab, z, all

-----------------------------------------------------------------------------
(* number_format writes the amount.                                        *)

(* As many characters as bigint_format reckons for n digits. *)
Room(n, D) == (IF D < n THEN n ELSE D + 1) + (IF D > 0 THEN 1 ELSE 0)

(* T is the amount in words of at most R characters. *)
IsWritten(T, bytes, D, R) ==
  T \in Seq(TextChars) /\ T # <<>> /\ Len(T) <= R /\ Denotes(T, bytes, D)

FitsIn(whole, frac, R) ==
  Len(whole) + Len(frac) + (IF frac = <<>> THEN 0 ELSE 1) <= R

(* The whole part and the fraction say the amount. *)
SayAmount(whole, frac, bytes, D) ==
  IsText(whole \o frac \o Zeros(D - Len(frac)), Val(bytes, AMOUNT_LEN, BYTE))

IsWhole(whole) == whole # <<>> /\ (whole[1] = "0" => Len(whole) = 1)

(* A whole part and a fraction that say the amount are its text. *)
LEMMA WrittenIs ==
  ASSUME NEW bytes, Is(bytes, AMOUNT_LEN, BYTE), NEW whole \in Seq(DigitChars), NEW frac \in Seq(DigitChars),
         NEW D \in Nat, NEW T, NEW R \in Nat, IsPointed(T, whole, frac), IsWhole(whole),
         Len(frac) <= D, SayAmount(whole, frac, bytes, D), FitsIn(whole, frac, R)
  PROVE  IsWritten(T, bytes, D, R)
<1> DEFINE all == whole \o frac \o Zeros(D - Len(frac))
<1>1. bytes = ReadDigits(all)
  BY ReadsBack DEF SayAmount
<1>2. Denotes(T, bytes, D)
  BY <1>1, PointedDenotes DEF IsWhole
<1>3. T \in Seq(TextChars) /\ T # <<>> /\ Len(T) <= R
  <2> DEFINE S == TextChars
  <2>1. whole \in Seq(S) /\ frac \in Seq(S) /\ "." \in S
    BY SeqMonotonic DEF TextChars
  <2> HIDE DEF S
  <2>2. CASE T = whole /\ frac = <<>>
    <3>1. Len(whole) <= R /\ Len(whole) \in Nat
      BY <2>1, <2>2 DEF FitsIn
    <3> QED BY <2>1, <2>2, <3>1 DEF S, IsWhole
  <2>3. CASE T = whole \o <<".">> \o frac /\ frac # <<>> /\ frac[Len(frac)] # "0"
    <3>1. T \in Seq(S) /\ Len(T) = Len(whole) + 1 + Len(frac)
      <4>1. IsSplit(T, whole, ".", frac, S)
        BY <2>1, <2>3, SplitAt
      <4> QED BY <4>1 DEF IsSplit
    <3>2. Len(whole) \in Nat /\ Len(frac) \in Nat
      BY <2>1
    <3>3. Len(T) <= R /\ Len(T) # 0
      BY <2>3, <3>1, <3>2 DEF FitsIn
    <3> QED BY <3>1, <3>3 DEF S
  <2> QED BY <2>2, <2>3 DEF IsPointed
<1> QED BY <1>2, <1>3 DEF IsWritten

(* The digits of a numeral that begin with a zero are that zero. *)
LEMMA NumeralIsWhole ==
  ASSUME NEW val, NEW n, NEW v, IsNumeral(val, n, v)
  PROVE  /\ val \in Seq(DigitChars) /\ Len(val) = n /\ n \in Nat \ {0}
         /\ val[1] = "0" => n = 1
         /\ IsText(val, v)
         /\ (\A i \in 1..n : val[i] = "0") => v = 0
<1>1. PICK d : Shows(val, d, n) /\ Val(d, n, 10) = v /\ (n > 1 => d[1] # 0)
  BY DEF IsNumeral
<1>2. n \in Nat \ {0} /\ n \in Nat /\ 1 \in 1..n
  BY DEF IsNumeral
<1>3. \A i \in 1..n : val[i] = Digit(d[i]) /\ d[i] \in 0..9
  BY <1>1, <1>2, ShownDigits
<1>4. ASSUME val[1] = "0" PROVE n = 1
  <2>1. d[1] = 0
    BY <1>2, <1>3, <1>4, ZeroIs
  <2> QED BY <2>1, <1>1, <1>2
<1>5. ASSUME \A i \in 1..n : val[i] = "0" PROVE v = 0
  <2>1. \A i \in 1..n : d[i] = 0
    BY <1>3, <1>5, ZeroIs
  <2> QED BY <2>1, <1>1, <1>2, TenIs, ValOfZeros
<1>6. IsText(val, v)
  BY <1>1, <1>2 DEF IsText, ShowsValue
<1> QED BY <1>2, <1>4, <1>5, <1>6, NumeralIsText

(* The text of no whole coin is a whole part. *)
LEMMA ZeroText == <<"0">> = Zeros(1) /\ <<"0">> \in Seq(DigitChars) /\ Len(<<"0">>) = 1 /\ IsWhole(<<"0">>)
<1>1. <<"0">> = Zeros(1)
  BY DEF Zeros
<1>2. "0" \in DigitChars
  BY ZeroIs DEF DigitChars
<1> QED BY <1>1, <1>2 DEF IsWhole

-----------------------------------------------------------------------------
(* Concatenation is associative. *)
LEMMA Regrouped ==
  ASSUME NEW a \in Seq(TextChars), NEW b \in Seq(TextChars), NEW c \in Seq(TextChars)
  PROVE  (a \o b) \o c = a \o (b \o c)
BY ConcatAssociative

(* Digits are characters of a text. *)
LEMMA DigitsAreText ==
  ASSUME NEW a \in Seq(DigitChars)
  PROVE  a \in Seq(TextChars)
BY SeqMonotonic DEF TextChars

(* The length of a concatenation. *)
LEMMA Joined ==
  ASSUME NEW S, NEW a \in Seq(S), NEW b \in Seq(S)
  PROVE  a \o b \in Seq(S) /\ Len(a \o b) = Len(a) + Len(b)
BY ConcatProperties

(* The amount has whole coins: the point is put between the digits. *)
LEMMA WithFraction ==
  ASSUME NEW bytes, Is(bytes, AMOUNT_LEN, BYTE), NEW val, NEW n, NEW D \in Nat,
         IsNumeral(val, n, Val(bytes, AMOUNT_LEN, BYTE)), NEW tz \in 0..D, EndZeros(val, n, tz), tz <= n,
         tz < D /\ tz < n => val[n - tz] # "0", n - D > 0
  PROVE  IsWritten(IF D > tz THEN SubSeq(val, 1, n - D) \o <<".">> \o SubSeq(val, n - D + 1, n - tz)
                   ELSE SubSeq(val, 1, n - D), bytes, D, Room(n, D))
<1> DEFINE v == Val(bytes, AMOUNT_LEN, BYTE)
           p == n - D
           whole == SubSeq(val, 1, p)
           frac == SubSeq(val, p + 1, n - tz)
           T == IF D > tz THEN whole \o <<".">> \o frac ELSE whole
           S == DigitChars
<1>1. val \in Seq(S) /\ Len(val) = n /\ n \in Nat \ {0} /\ (val[1] = "0" => n = 1) /\ IsText(val, v)
  BY NumeralIsWhole
<1>2. p \in Nat /\ p > 0 /\ p \in 0..n - tz /\ tz \in 0..n /\ tz \in Nat /\ tz <= D /\ (n - tz) - p = D - tz /\ (p < n - tz <=> tz < D)
      /\ D - (D - tz) = tz
  BY <1>1
<1>3. /\ whole \in Seq(S) /\ Len(whole) = p /\ frac \in Seq(S) /\ Len(frac) = D - tz
      /\ whole[1] = val[1] /\ (tz < D => frac[D - tz] = val[n - tz])
      /\ whole \o frac \o Zeros(tz) = val
  <2>1. AreParts(whole, frac, val, n, tz, p)
    <3> HIDE DEF p
    <3> QED BY <1>1, <1>2, CutAndPadded
  <2> HIDE DEF whole, frac, p
  <2> QED BY <2>1, <1>2 DEF AreParts
<1> HIDE DEF whole, frac, S, p
<1>4. SayAmount(whole, frac, bytes, D)
  BY <1>1, <1>2, <1>3 DEF SayAmount
<1>5. IsWhole(whole)
  <2>1. whole # <<>>
    BY <1>2, <1>3
  <2>2. n = 1 => p = 1
    BY <1>2 DEF p
  <2> QED BY <1>1, <1>3, <2>1, <2>2 DEF IsWhole
<1>6. frac = <<>> <=> tz = D
  BY <1>2, <1>3
<1>7. IsPointed(T, whole, frac)
  <2>1. CASE tz = D
    BY <2>1, <1>6, <1>2 DEF IsPointed
  <2>2. CASE tz < D
    <3>1. tz < n /\ frac[Len(frac)] # "0" /\ frac # <<>>
      BY <2>2, <1>1, <1>3, <1>6, <1>2
    <3> QED BY <2>2, <3>1 DEF IsPointed
  <2> QED BY <1>2, <2>1, <2>2
<1>8. FitsIn(whole, frac, Room(n, D)) /\ Room(n, D) \in Nat
  <2>1. D < n /\ p + D = n
    BY <1>1, <1>2 DEF p
  <2>2. Room(n, D) = n + (IF D > 0 THEN 1 ELSE 0)
    BY <2>1 DEF Room
  <2>3. Len(whole) + Len(frac) = n - tz
    BY <2>1, <1>1, <1>2, <1>3
  <2>4. (IF frac = <<>> THEN 0 ELSE 1) = IF tz = D THEN 0 ELSE 1
    BY <1>6
  <2> QED BY <2>2, <2>3, <2>4, <1>1, <1>2 DEF FitsIn
<1>9. Len(frac) <= D
  BY <1>2, <1>3
<1>10. IsWritten(T, bytes, D, Room(n, D))
  BY <1>3, <1>4, <1>5, <1>7, <1>8, <1>9, WrittenIs DEF S
<1> QED BY <1>10 DEF T, whole, frac, p

(* The amount is below one coin: zeros are put behind the point. *)
LEMMA WithoutWhole ==
  ASSUME NEW bytes, Is(bytes, AMOUNT_LEN, BYTE), NEW val, NEW n, NEW D \in Nat,
         IsNumeral(val, n, Val(bytes, AMOUNT_LEN, BYTE)), NEW tz \in 0..D, EndZeros(val, n, tz), tz <= n,
         tz < D /\ tz < n => val[n - tz] # "0", n - D <= 0, n > tz
  PROVE  IsWritten(<<"0", ".">> \o Zeros(-(n - D)) \o SubSeq(val, 1, n - tz), bytes, D, Room(n, D))
<1> DEFINE v == Val(bytes, AMOUNT_LEN, BYTE)
           k == D - n
           whole == <<"0">>
           z == Zeros(k)
           b == SubSeq(val, 1, n - tz)
           frac == z \o b
           e == Zeros(tz)
           T == <<"0", ".">> \o z \o b
           S == DigitChars
<1>1. val \in Seq(S) /\ Len(val) = n /\ n \in Nat \ {0} /\ IsText(val, v)
  BY NumeralIsWhole
<1>2. k \in Nat /\ -(n - D) = k /\ 0 \in 0..n - tz /\ tz \in 0..n /\ tz \in Nat /\ 0 < n - tz /\ tz < D /\ n - tz \in Nat
      /\ 0 + 1 = 1 /\ (n - tz) - 0 = n - tz /\ k + (n - tz) = D - tz /\ D - (D - tz) = tz
  BY <1>1
<1>3. b \in Seq(S) /\ Len(b) = n - tz /\ b[n - tz] = val[n - tz] /\ b \o e = val
  <2> DEFINE a == SubSeq(val, 1, 0)
  <2>1. a \in Seq(S) /\ b \in Seq(S) /\ Len(a) = 0 /\ Len(b) = n - tz /\ b[n - tz] = val[n - tz] /\ a \o b \o e = val
    <3>1. AreParts(a, SubSeq(val, 0 + 1, n - tz), val, n, tz, 0)
      BY <1>1, <1>2, CutAndPadded
    <3>2. AreParts(a, b, val, n, tz, 0)
      BY <3>1, <1>2
    <3> HIDE DEF a, b
    <3> QED BY <3>2, <1>2 DEF AreParts
  <2> HIDE DEF a, b, e
  <2>2. a = <<>> /\ <<>> \o b = b
    BY <2>1
  <2> QED BY <2>1, <2>2
<1>4. z \in Seq(S) /\ Len(z) = k /\ e \in Seq(S)
  BY <1>2, ZerosType
<1> HIDE DEF b, z, e, S
<1>5. frac \in Seq(S) /\ Len(frac) = D - tz
  <2>1. frac \in Seq(S) /\ Len(frac) = k + (n - tz)
    <3>1. z \o b \in Seq(S) /\ Len(z \o b) = Len(z) + Len(b)
      BY Zenon, <1>3, <1>4, Joined
    <3> HIDE DEF k
    <3> QED BY <3>1, <1>3, <1>4
  <2> QED BY <2>1, <1>2
<1>6. frac # <<>> /\ frac[Len(frac)] # "0"
  <2>1. frac[k + (n - tz)] = b[n - tz]
    BY <1>2, <1>3, <1>4
  <2>2. frac # <<>>
    BY <1>2, <1>5
  <2> QED BY <2>1, <2>2, <1>2, <1>3, <1>5
<1>7. whole \in Seq(S) /\ Len(whole) = 1 /\ IsWhole(whole) /\ whole = Zeros(1)
  BY ZeroText DEF S
<1>8. IsPointed(T, whole, frac)
  <2> DEFINE C == TextChars
             pt == <<".">>
  <2>1. z \in Seq(C) /\ b \in Seq(C) /\ "." \in C /\ whole \in Seq(C) /\ pt \in Seq(C)
    <3>1. "." \in C
      BY DEF TextChars
    <3> HIDE DEF C
    <3>2. pt \in Seq(C)
      BY <3>1
    <3> QED BY <3>1, <3>2, <1>3, <1>4, <1>7, DigitsAreText DEF S, C
  <2>2. <<"0", ".">> = whole \o pt /\ whole \o pt \in Seq(C)
    BY <2>1
  <2> HIDE DEF C, whole, pt
  <2>3. (whole \o pt) \o z \o b = (whole \o pt) \o (z \o b)
    <3> DEFINE x == whole \o pt
    <3>1. x \in Seq(TextChars)
      BY <2>2 DEF C
    <3> HIDE DEF x
    <3>2. (x \o z) \o b = x \o (z \o b)
      BY <3>1, <2>1, Regrouped DEF C
    <3> QED BY <3>2 DEF x
  <2>4. T = whole \o pt \o frac
    BY <2>2, <2>3
  <2> QED BY <2>4, <1>6 DEF IsPointed, pt
<1>9. SayAmount(whole, frac, bytes, D)
  <2> HIDE DEF whole
  <2>0. z \in Seq(TextChars) /\ b \in Seq(TextChars) /\ e \in Seq(TextChars) /\ frac \in Seq(TextChars) /\ whole \in Seq(TextChars)
    <3> HIDE DEF frac
    <3> QED BY <1>3, <1>4, <1>5, <1>7, DigitsAreText DEF S
  <2>1. (z \o b) \o e = z \o val
    <3>1. z \in Seq(TextChars) /\ b \in Seq(TextChars) /\ e \in Seq(TextChars)
      BY <2>0
    <3> HIDE DEF z, b, e, frac, T, S, v, k
    <3>2. (z \o b) \o e = z \o (b \o e)
      BY <3>1, Regrouped
    <3> QED BY Zenon, <3>2, <1>3
  <2>2. whole \o frac \o e = whole \o (frac \o e)
    <3>1. whole \in Seq(TextChars) /\ frac \in Seq(TextChars) /\ e \in Seq(TextChars)
      BY <2>0
    <3> HIDE DEF z, b, e, frac, T, S, v, k
    <3> QED BY <3>1, Regrouped
  <2>3. whole \o frac \o e = Zeros(1) \o (Zeros(k) \o val)
    BY <2>1, <2>2, <1>7 DEF z
  <2>4. IsText(Zeros(k) \o val, v)
    BY <1>1, <1>2, PaddedText
  <2>5. IsText(Zeros(1) \o (Zeros(k) \o val), v)
    <3>1. 1 \in Nat
      OBVIOUS
    <3> QED BY <3>1, <2>4, PaddedText
  <2>6. D - Len(frac) = tz
    BY <1>2, <1>5
  <2> QED BY <2>3, <2>5, <2>6 DEF SayAmount, e
<1>10. FitsIn(whole, frac, Room(n, D)) /\ Room(n, D) \in Nat /\ Len(frac) <= D
  <2>1. Room(n, D) = D + 1 + 1
    BY <1>1, <1>2 DEF Room
  <2>2. Len(whole) + Len(frac) + (IF frac = <<>> THEN 0 ELSE 1) = 1 + (D - tz) + 1
    BY <1>5, <1>6, <1>7
  <2> QED BY <2>1, <2>2, <1>2, <1>5 DEF FitsIn
<1>11. IsWritten(T, bytes, D, Room(n, D))
  <2> HIDE DEF whole, frac, T
  <2> QED BY <1>5, <1>7, <1>8, <1>9, <1>10, WrittenIs DEF S
<1> QED BY <1>2, <1>11 DEF T, z, b

(* All digits are zeros. *)
LEMMA OnlyZero ==
  ASSUME NEW bytes, Is(bytes, AMOUNT_LEN, BYTE), NEW val, NEW n, NEW D \in Nat,
         IsNumeral(val, n, Val(bytes, AMOUNT_LEN, BYTE)), EndZeros(val, n, n)
  PROVE  IsWritten(<<"0">>, bytes, D, Room(n, D))
<1> DEFINE v == Val(bytes, AMOUNT_LEN, BYTE)
           none == <<>>
           whole == <<"0">>
<1>1. Len(val) = n /\ n \in Nat \ {0} /\ ((\A i \in 1..n : val[i] = "0") => v = 0)
  BY NumeralIsWhole
<1>2. ASSUME NEW i \in 1..n PROVE val[i] = "0"
  <2>1. n - i + 1 \in 1..n /\ n - (n - i + 1) + 1 = i
    BY <1>1
  <2> QED BY <2>1 DEF EndZeros
<1>3. v = 0
  BY <1>1, <1>2
<1> HIDE DEF v
<1>4. none \in Seq(DigitChars) /\ Len(none) = 0 /\ D - 0 = D /\ 1 \in Nat
  OBVIOUS
<1>5. whole \in Seq(DigitChars) /\ Len(whole) = 1 /\ IsWhole(whole) /\ whole = Zeros(1)
  BY ZeroText
<1>6. SayAmount(whole, none, bytes, D)
  <2>1. whole \o none = whole
    BY <1>5
  <2>2. IsText(Zeros(1) \o Zeros(D), 0)
    BY <1>4, ZerosText, PaddedText
  <2> HIDE DEF whole, none
  <2>3. whole \o none \o Zeros(D - Len(none)) = Zeros(1) \o Zeros(D)
    BY <1>4, <1>5, <2>1
  <2> QED BY <2>2, <2>3, <1>3 DEF SayAmount, v
<1>7. IsPointed(whole, whole, none)
  BY DEF IsPointed
<1>8. FitsIn(whole, none, Room(n, D)) /\ Room(n, D) \in Nat /\ Len(none) <= D
  <2>1. Room(n, D) \in Nat /\ 1 <= Room(n, D)
    BY <1>1 DEF Room
  <2>2. Len(whole) + Len(none) + (IF none = <<>> THEN 0 ELSE 1) = 1
    OBVIOUS
  <2> QED BY <2>1, <2>2, <1>4 DEF FitsIn
<1> HIDE DEF whole, none
<1>9. IsWritten(whole, bytes, D, Room(n, D))
  BY <1>4, <1>5, <1>6, <1>7, <1>8, WrittenIs
<1> QED BY <1>9 DEF whole

(* number_format writes the amount, and a newline behind it. *)
IsFormat(chars, bytes, D, R) == \E T : chars = Append(T, NL) /\ IsWritten(T, bytes, D, R)

(* The text of number_format denotes the amount. *)
LEMMA NumberFormatIs ==
  ASSUME NEW bytes, Is(bytes, AMOUNT_LEN, BYTE), NEW val, NEW n, NEW D \in Nat,
         IsNumeral(val, n, Val(bytes, AMOUNT_LEN, BYTE))
  PROVE  IsFormat(number_format(val, D), bytes, D, Room(n, D))
<1> DEFINE tz == TrailingZeros(val, D)
           p == n - D
           T == IF p > 0
                THEN IF D > tz
                     THEN SubSeq(val, 1, p) \o <<".">> \o SubSeq(val, p + 1, n - tz)
                     ELSE SubSeq(val, 1, p)
                ELSE IF n > tz
                     THEN <<"0", ".">> \o Zeros(-p) \o SubSeq(val, 1, n - tz)
                     ELSE <<"0">>
<1>1. Len(val) = n /\ n \in Nat
  BY NumeralIsWhole
<1>2. number_format(val, D) = Append(T, NL)
  BY <1>1 DEF number_format
<1>3. tz \in 0..D /\ tz <= n /\ EndZeros(val, n, tz) /\ (tz < D /\ tz < n => val[n - tz] # "0")
  BY <1>1, TrailingZerosAre
<1> HIDE DEF tz
<1>4. CASE p > 0
  <2>1. IsWritten(IF D > tz THEN SubSeq(val, 1, n - D) \o <<".">> \o SubSeq(val, n - D + 1, n - tz)
                  ELSE SubSeq(val, 1, n - D), bytes, D, Room(n, D))
    BY <1>3, <1>4, WithFraction
  <2>2. IsWritten(T, bytes, D, Room(n, D))
    BY <2>1, <1>4
  <2> QED BY <1>2, <2>2 DEF IsFormat
<1>5. CASE ~(p > 0) /\ n > tz
  <2>0. n - D <= 0
    BY <1>1, <1>5
  <2>1. IsWritten(<<"0", ".">> \o Zeros(-(n - D)) \o SubSeq(val, 1, n - tz), bytes, D, Room(n, D))
    BY <1>3, <1>5, <2>0, WithoutWhole
  <2>2. IsWritten(T, bytes, D, Room(n, D))
    BY <2>1, <1>5
  <2> QED BY <1>2, <2>2 DEF IsFormat
<1>6. CASE ~(p > 0) /\ ~(n > tz)
  <2>1. tz = n
    BY <1>1, <1>3, <1>6
  <2>2. IsWritten(<<"0">>, bytes, D, Room(n, D))
    BY <2>1, <1>3, OnlyZero
  <2>3. IsWritten(T, bytes, D, Room(n, D))
    BY <2>2, <1>6
  <2> QED BY <1>2, <2>3 DEF IsFormat
<1> QED BY <1>4, <1>5, <1>6

-----------------------------------------------------------------------------
(* What bigint_format copies, and where a %s stops.                        *)

LineChars == TextChars \union {NL}

(* A character of a text is no newline, space or terminator. *)
LEMMA TextIsNoSign ==
  ASSUME NEW c \in TextChars
  PROVE  c # NL /\ c # SPACE /\ c # NUL
<1>1. CASE c \in DigitChars
  BY <1>1, DigitIsNoSign
<1>2. CASE c = "."
  BY <1>2 DEF SPACE, NL, NUL
<1> QED BY <1>1, <1>2 DEF TextChars

(* A character of a line is no space or terminator. *)
LEMMA LineIsNoSign ==
  ASSUME NEW c \in LineChars
  PROVE  c # SPACE /\ c # NUL
<1>1. CASE c \in TextChars
  BY <1>1, TextIsNoSign
<1>2. CASE c = NL
  BY <1>2 DEF SPACE, NL, NUL
<1> QED BY <1>1, <1>2 DEF LineChars

(* A text is a line, and one or two newlines may end it. *)
LEMMA TextIsLine ==
  ASSUME NEW T \in Seq(TextChars)
  PROVE  /\ T \in Seq(LineChars) /\ Append(T, NL) \in Seq(LineChars)
         /\ Append(Append(T, NL), NL) \in Seq(LineChars)
<1> DEFINE S == LineChars
<1>1. T \in Seq(S) /\ NL \in S
  BY SeqMonotonic DEF LineChars
<1> HIDE DEF S
<1>2. Append(T, NL) \in Seq(S)
  BY <1>1
<1>3. Append(Append(T, NL), NL) \in Seq(S)
  BY <1>1, <1>2
<1> QED BY <1>1, <1>2, <1>3 DEF S

(* What a %s stops at. *)
LEMMA CStringIs ==
  ASSUME NEW s
  PROVE  CString(s) = IF Found(s, NUL) = 0 THEN s ELSE SubSeq(s, 1, Found(s, NUL) - 1)
BY DEF CString, SelectInSeq, Found

(* A %s prints all of a line. *)
LEMMA LineIsCString ==
  ASSUME NEW s \in Seq(LineChars)
  PROVE  CString(s) = s
<1>1. \A i \in 1..Len(s) : s[i] # NUL
  BY ElementIn, LineIsNoSign
<1>2. Found(s, NUL) = 0
  BY <1>1, FoundNowhere
<1> QED BY <1>2, CStringIs

-----------------------------------------------------------------------------
(* What bigint_format copies of a text. *)
Copied(t, R) == [i \in 1..R |-> IF i <= Len(t) THEN t[i] ELSE NUL]

(* chars are the text T, its newline, and perhaps another. *)
IsShownAs(chars, T, R) ==
  /\ Len(chars) \in Nat /\ Len(chars) <= R + 1
  /\ \/ CString(chars) = Append(T, NL)
     \/ CString(chars) = Append(Append(T, NL), NL) /\ Len(T) < R

(* A copy of the right length is the text. *)
LEMMA CopiedWhole ==
  ASSUME NEW S, NEW t \in Seq(S)
  PROVE  Copied(t, Len(t)) = t
BY DEF Copied

(* What bigint_format copies of a text with decimals, for a length         *)
(* reckoned from the digits, is the text and one newline or two.           *)
LEMMA CopyIsShown ==
  ASSUME NEW T \in Seq(TextChars), NEW R \in Nat, Len(T) <= R
  PROVE  IsShownAs(Append(Copied(Append(T, NL), R), NL), T, R)
<1> DEFINE m == Len(T)
           t == Append(T, NL)
           q == Copied(t, R)
           chars == Append(q, NL)
           S == LineChars
           U == LineChars \union {NUL}
<1>1. m \in Nat /\ t \in Seq(S) /\ t \in Seq(U) /\ Len(t) = m + 1 /\ (\A i \in 1..m : t[i] = T[i]) /\ t[m + 1] = NL
  <2>1. t \in Seq(S)
    BY TextIsLine
  <2>2. Len(t) = m + 1 /\ (\A i \in 1..m : t[i] = T[i]) /\ t[m + 1] = NL
    OBVIOUS
  <2>3. m \in Nat
    OBVIOUS
  <2> HIDE DEF t, S
  <2>4. t \in Seq(U)
    BY <2>1, SeqMonotonic DEF S
  <2> QED BY <2>1, <2>2, <2>3, <2>4
<1>2. NUL \in U /\ NL \in U
  BY DEF LineChars
<1> HIDE DEF t, S, U
<1>3. q \in [1..R -> U] /\ \A i \in 1..R : q[i] = IF i <= m + 1 THEN t[i] ELSE NUL
  <2>1. \A i \in 1..R : i <= m + 1 => t[i] \in U
    BY <1>1
  <2> QED BY <1>1, <1>2, <2>1 DEF Copied
<1>4. q \in Seq(U) /\ Len(q) = R
  BY <1>3, FunctionIsSeq
<1> HIDE DEF q
<1>5. chars \in Seq(U) /\ Len(chars) = R + 1 /\ (\A i \in 1..R : chars[i] = q[i]) /\ chars[R + 1] = NL
  BY <1>2, <1>4
<1> HIDE DEF chars
<1>6. CASE m = R
  <2>1. \A i \in 1..R : q[i] = T[i]
    BY <1>1, <1>3, <1>6
  <2>2. chars = t
    <3>1. \A i \in 1..R + 1 : chars[i] = t[i]
      BY <2>1, <1>1, <1>5, <1>6
    <3> QED BY <3>1, <1>1, <1>5, <1>6, SeqEqual
  <2>3. CString(chars) = t
    BY <2>2, <1>1, LineIsCString DEF S
  <2> QED BY <2>3, <1>5 DEF IsShownAs, chars, q, t
<1>7. CASE m + 1 = R
  <2>1. \A i \in 1..R : q[i] = t[i]
    BY <1>1, <1>3, <1>7
  <2>2. q = t
    BY <2>1, <1>1, <1>4, <1>7, SeqEqual
  <2>3. CString(chars) = chars
    <3>1. chars \in Seq(S)
      BY <2>2, TextIsLine DEF S, t, chars
    <3> QED BY <3>1, LineIsCString DEF S
  <2>4. CString(chars) = Append(Append(T, NL), NL)
    BY <2>2, <2>3 DEF chars, t
  <2> QED BY <2>4, <1>1, <1>5, <1>7 DEF IsShownAs, chars, q, t
<1>8. CASE m + 1 < R
  <2>1. m + 2 \in 1..R + 1 /\ m + 2 \in 1..R /\ R + 1 \in Nat /\ ~(m + 2 <= m + 1) /\ (m + 2) - 1 = m + 1
    BY <1>1, <1>8
  <2>2. chars[m + 2] = NUL
    BY <2>1, <1>3, <1>5
  <2>3. ASSUME NEW i \in 1..m + 1 PROVE chars[i] = t[i] /\ t[i] # NUL
    <3>1. i \in 1..R /\ i <= m + 1 /\ i \in 1..Len(t)
      BY <1>1, <1>8
    <3>2. t[i] \in S
      BY <3>1, <1>1, ElementIn
    <3> QED BY <3>1, <3>2, <1>3, <1>5, LineIsNoSign DEF S
  <2>4. NotUpTo(chars, NUL, m + 1)
    BY <2>3 DEF NotUpTo
  <2>5. Found(chars, NUL) = m + 2
    BY <2>1, <2>2, <2>4, <1>5, FoundAt
  <2> DEFINE u == SubSeq(chars, 1, m + 1)
  <2>6. CString(chars) = u
    BY <2>5, <2>1, <1>1, CStringIs
  <2>7. u \in Seq(U) /\ Len(u) = m + 1 /\ \A i \in 1..m + 1 : u[i] = chars[i]
    BY <1>1, <1>5, <1>8
  <2> HIDE DEF u
  <2>8. u = t
    BY <2>3, <2>7, <1>1, SeqEqual
  <2> QED BY <2>6, <2>8, <1>5 DEF IsShownAs, chars, q, t
<1> QED BY <1>1, <1>6, <1>7, <1>8

(* A text with its newline is shown as it is. *)
LEMMA LineIsShown ==
  ASSUME NEW T \in Seq(TextChars), NEW R \in Nat, Len(T) <= R
  PROVE  IsShownAs(Append(T, NL), T, R)
<1>1. CString(Append(T, NL)) = Append(T, NL)
  BY TextIsLine, LineIsCString
<1>2. Len(Append(T, NL)) = Len(T) + 1 /\ Len(T) \in Nat
  OBVIOUS
<1> QED BY <1>1, <1>2 DEF IsShownAs

-----------------------------------------------------------------------------
(* bigint_format shows the amount.                                         *)

MaxRoom == MAX_DIGITS + 1

(* A %s prints all of a text with its newline. *)
LEMMA LineOfText ==
  ASSUME NEW T \in Seq(TextChars)
  PROVE  CString(Append(T, NL)) = Append(T, NL) /\ Len(Append(T, NL)) \in Nat
<1>1. Append(T, NL) \in Seq(LineChars)
  BY TextIsLine
<1>2. Len(Append(T, NL)) \in Nat
  OBVIOUS
<1> QED BY <1>1, <1>2, LineIsCString

(* chars show the amount. *)
ShowsAmount(chars, bytes, D) ==
  \E T : /\ IsWritten(T, bytes, D, MaxRoom)
         /\ IsShownAs(chars, T, MaxRoom)
         /\ D = 0 => CString(chars) = Append(T, NL)

(* The room reckoned for at most 78 digits. *)
LEMMA RoomIs ==
  ASSUME NEW n \in Nat \ {0}, n <= MAX_DIGITS, NEW D \in 0..17
  PROVE  Room(n, D) \in Nat /\ Room(n, D) <= MaxRoom /\ (D = 0 => Room(n, D) = n)
BY DEF Room, MaxRoom, MAX_DIGITS

(* What fits less room fits more. *)
LEMMA Shorter ==
  ASSUME NEW chars, NEW T, NEW bytes, NEW D, NEW R \in Nat, R <= MaxRoom, T \in Seq(TextChars),
         Len(chars) \in Nat, IsWritten(T, bytes, D, R), IsShownAs(chars, T, R)
  PROVE  IsWritten(T, bytes, D, MaxRoom) /\ IsShownAs(chars, T, MaxRoom)
<1>1. Len(T) \in Nat /\ MaxRoom \in Nat
  BY DEF MaxRoom, MAX_DIGITS
<1>2. IsWritten(T, bytes, D, MaxRoom)
  BY <1>1 DEF IsWritten
<1>3. IsShownAs(chars, T, MaxRoom)
  BY <1>1 DEF IsShownAs
<1> QED BY <1>2, <1>3

(* Without decimals the digits are the text. *)
LEMMA NumeralIsWritten ==
  ASSUME NEW bytes, Is(bytes, AMOUNT_LEN, BYTE), NEW val, NEW n,
         IsNumeral(val, n, Val(bytes, AMOUNT_LEN, BYTE))
  PROVE  IsWritten(val, bytes, 0, n)
<1> DEFINE none == <<>>
           v == Val(bytes, AMOUNT_LEN, BYTE)
<1>1. val \in Seq(DigitChars) /\ Len(val) = n /\ n \in Nat \ {0} /\ (val[1] = "0" => n = 1) /\ IsText(val, v)
  BY NumeralIsWhole
<1>2. none \in Seq(DigitChars) /\ Len(none) = 0
  OBVIOUS
<1>3. val \o none = val /\ Zeros(0) = none
  BY <1>1 DEF Zeros
<1> HIDE DEF none
<1>4. SayAmount(val, none, bytes, 0)
  <2>0. 0 - Len(none) = 0 /\ (val \o none) \o none = val
    BY <1>2, <1>3
  <2>1. val \o none \o Zeros(0 - Len(none)) = val
    BY <2>0, <1>3
  <2> QED BY <2>1, <1>1 DEF SayAmount
<1>5. IsPointed(val, val, none) /\ IsWhole(val) /\ FitsIn(val, none, n) /\ Len(none) <= 0 /\ 0 \in Nat
  BY <1>1, <1>2 DEF IsPointed, IsWhole, FitsIn, none
<1> QED BY <1>1, <1>2, <1>4, <1>5, WrittenIs

HasText(val, bytes, n, D) ==
  \E T : /\ IsWritten(T, bytes, D, Room(n, D))
         /\ IF D > 0 THEN number_format(val, D) = Append(T, NL) ELSE T = val

(* The text of the digits, with or without decimals. *)
LEMMA TextOfDigits ==
  ASSUME NEW bytes, Is(bytes, AMOUNT_LEN, BYTE), NEW val, NEW n, NEW D \in 0..17,
         IsNumeral(val, n, Val(bytes, AMOUNT_LEN, BYTE))
  PROVE  HasText(val, bytes, n, D)
<1>1. CASE D = 0
  <2>1. Room(n, D) = n
    BY <1>1, NumeralIsWhole DEF Room
  <2>2. IsWritten(val, bytes, D, Room(n, D))
    BY <2>1, <1>1, NumeralIsWritten
  <2> QED BY <2>2, <1>1 DEF HasText
<1>2. CASE D > 0
  <2>1. IsFormat(number_format(val, D), bytes, D, Room(n, D))
    BY NumberFormatIs
  <2> QED BY <2>1, <1>2 DEF IsFormat, HasText
<1> QED BY <1>1, <1>2

-----------------------------------------------------------------------------
(* A value kept in sign is shown. *)
LEMMA SmallIsShown ==
  ASSUME NEW bytes, Is(bytes, AMOUNT_LEN, BYTE), NEW D \in 0..17, NEW big,
         big.bits = <<>>, big.sign = Val(bytes, AMOUNT_LEN, BYTE), big.sign < DWORD,
         Val(bytes, AMOUNT_LEN, BYTE) < Tens[MAX_DIGITS]
  PROVE  ShowsAmount(bigint_format(big, D, AMOUNT_SIZE), bytes, D)
<1> DEFINE v == Val(bytes, AMOUNT_LEN, BYTE)
           val == Numeral(big.sign)
           chars == bigint_format(big, D, AMOUNT_SIZE)
<1>1. chars = IF D > 0 THEN number_format(val, D) ELSE Append(val, NL)
  BY DEF bigint_format
<1>2. v \in Nat
  <2>1. Digital(bytes, AMOUNT_LEN)
    BY FactsOfBytes, BelowIsDigital DEF Is
  <2> QED BY <2>1, FactsOfBytes, ValType
<1>3. v < KU_BASE * KU_BASE
  BY <1>2, FactsOfDword, FactsOfLimb
<1>4. PICK n \in Nat : IsNumeral(val, n, v)
  BY <1>2, <1>3, NumeralIs
<1> HIDE DEF val, chars
<1>5. n <= MAX_DIGITS /\ n \in Nat \ {0}
  <2>1. MAX_DIGITS \in Nat \ {0}
    BY DEF MAX_DIGITS
  <2> QED BY <2>1, <1>4, NumeralLength, NumeralIsWhole
<1>6. PICK T : /\ IsWritten(T, bytes, D, Room(n, D))
               /\ IF D > 0 THEN number_format(val, D) = Append(T, NL) ELSE T = val
  <2>1. HasText(val, bytes, n, D)
    BY <1>4, TextOfDigits
  <2> QED BY <2>1 DEF HasText
<1>7. chars = Append(T, NL)
  BY <1>1, <1>6
<1>8. T \in Seq(TextChars) /\ Len(T) <= Room(n, D)
  BY <1>6 DEF IsWritten
<1>9. IsShownAs(chars, T, Room(n, D)) /\ CString(chars) = Append(T, NL) /\ Len(chars) \in Nat
  <2> DEFINE R == Room(n, D)
  <2>1. R \in Nat
    BY <1>5, RoomIs
  <2> HIDE DEF R
  <2>2. IsShownAs(Append(T, NL), T, R)
    BY <2>1, <1>8, LineIsShown DEF R
  <2>3. CString(Append(T, NL)) = Append(T, NL) /\ Len(Append(T, NL)) \in Nat
    BY <1>8, LineOfText
  <2> QED BY <2>2, <2>3, <1>7 DEF R
<1> QED BY <1>5, <1>6, <1>8, <1>9, RoomIs, Shorter DEF ShowsAmount, chars

(* A value kept in dwords is shown. *)
LEMMA DwordsAreShown ==
  ASSUME NEW bytes, Is(bytes, AMOUNT_LEN, BYTE), NEW D \in 0..17, NEW big,
         Val(bytes, AMOUNT_LEN, BYTE) > 0, NEW c \in Nat \ {0},
         AreDwords(big.bits, c, Val(bytes, AMOUNT_LEN, BYTE)),
         Val(bytes, AMOUNT_LEN, BYTE) < Tens[MAX_DIGITS]
  PROVE  ShowsAmount(bigint_format(big, D, AMOUNT_SIZE), bytes, D)
<1> DEFINE v == Val(bytes, AMOUNT_LEN, BYTE)
           limbs == Limbs(big.bits)
           digits == LimbText(limbs)
           line == IF D > 0 THEN number_format(digits, D) ELSE digits
           cch == Len(limbs) * KCCH_BASE
           end == IF AMOUNT_SIZE >= cch THEN cch ELSE AMOUNT_SIZE
           printed == Len(digits) + cch - end
           R == Room(printed, D)
           chars == bigint_format(big, D, AMOUNT_SIZE)
<1>1. big.bits # <<>>
  BY DEF AreDwords
<1>2. chars = Append(Copied(line, R), NL)
  BY <1>1 DEF bigint_format, Room, Copied
<1>3. v \in Nat \ {0}
  <2>1. Digital(bytes, AMOUNT_LEN)
    BY FactsOfBytes, BelowIsDigital DEF Is
  <2>2. v \in Nat
    BY <2>1, FactsOfBytes, ValType
  <2> QED BY <2>2
<1>4. (\E n \in Nat : IsNumeral(digits, n, v) /\ n <= MAX_DIGITS) /\ cch \in Nat /\ cch <= AMOUNT_SIZE
  <2>1. c \in Nat
    OBVIOUS
  <2> QED BY <2>1, <1>3, DigitsOfBits
<1>5. PICK n \in Nat : IsNumeral(digits, n, v) /\ n <= MAX_DIGITS
  BY <1>4
<1> HIDE DEF chars, limbs, digits
<1>6. Len(digits) = n /\ n \in Nat \ {0}
  BY <1>5, NumeralIsWhole
<1>7. printed = n
  <2> HIDE DEF cch
  <2> QED BY <1>4, <1>6 DEF AMOUNT_SIZE
<1>8. R = Room(n, D) /\ R \in Nat /\ R <= MaxRoom /\ (D = 0 => R = n)
  <2> HIDE DEF printed
  <2> QED BY <1>5, <1>6, <1>7, RoomIs
<1> HIDE DEF R
<1>9. PICK T : /\ IsWritten(T, bytes, D, Room(n, D))
               /\ IF D > 0 THEN number_format(digits, D) = Append(T, NL) ELSE T = digits
  <2>1. HasText(digits, bytes, n, D)
    BY <1>5, TextOfDigits
  <2> QED BY <2>1 DEF HasText
<1>10. T \in Seq(TextChars) /\ Len(T) <= R
  BY <1>8, <1>9 DEF IsWritten
<1>11. IsShownAs(chars, T, R) /\ (D = 0 => CString(chars) = Append(T, NL)) /\ Len(chars) \in Nat
  <2>1. CASE D > 0
    <3>1. line = Append(T, NL)
      BY <2>1, <1>9
    <3>2. IsShownAs(chars, T, R)
      BY <3>1, <1>2, <1>8, <1>10, CopyIsShown
    <3>3. Len(chars) \in Nat
      <4> DEFINE q == Copied(line, R)
      <4>1. Len(q) = R
        BY <1>8 DEF Copied
      <4> HIDE DEF q
      <4> QED BY <4>1, <1>2, <1>8
    <3> QED BY <3>2, <3>3, <2>1
  <2>2. CASE D = 0
    <3>1. line = T /\ R = Len(T)
      BY <2>2, <1>6, <1>8, <1>9
    <3>2. chars = Append(T, NL)
      BY <3>1, <1>2, <1>10, CopiedWhole
    <3>3. IsShownAs(Append(T, NL), T, R)
      BY <1>8, <1>10, LineIsShown
    <3>4. CString(Append(T, NL)) = Append(T, NL) /\ Len(Append(T, NL)) \in Nat
      BY <1>10, LineOfText
    <3> QED BY <3>2, <3>3, <3>4
  <2> QED BY <2>1, <2>2
<1> QED BY <1>8, <1>9, <1>10, <1>11, Shorter DEF ShowsAmount, chars

(* The characters of the review's amount. *)
LEMMA AmountCharsAre ==
  ASSUME NEW bytes, Is(bytes, AMOUNT_LEN, BYTE), NEW D \in 0..17,
         Val(bytes, AMOUNT_LEN, BYTE) < Tens[MAX_DIGITS]
  PROVE  ShowsAmount(AmountChars(bytes, D), bytes, D)
<1> DEFINE big == bigint_from_bytes(bytes)
<1>1. StandsFor(big, Val(bytes, AMOUNT_LEN, BYTE))
  BY FactsOfBytes, BigintIs
<1>2. AmountChars(bytes, D) = bigint_format(big, D, AMOUNT_SIZE)
  BY DEF AmountChars
<1> HIDE DEF big
<1>3. ShowsAmount(bigint_format(big, D, AMOUNT_SIZE), bytes, D)
  BY <1>1, SmallIsShown, DwordsAreShown DEF StandsFor
<1> QED BY <1>2, <1>3

-----------------------------------------------------------------------------
(* The text of the review: the last character and the symbol.              *)

(* What is left of the text without its last character. *)
IsFront(F, T) == F = T \/ (F = Append(T, NL) /\ Len(T) < MaxRoom)

(* Without its last character the text has one newline behind it or none.  *)
LEMMA FrontIs ==
  ASSUME NEW chars, NEW T \in Seq(TextChars), Len(T) <= MaxRoom, IsShownAs(chars, T, MaxRoom)
  PROVE  LET F == Front(CString(chars))
         IN  /\ IsFront(F, T)
             /\ CString(chars) = Append(T, NL) => F = T
<1> DEFINE t == Append(T, NL)
           tt == Append(t, NL)
           S == LineChars
<1>1. t \in Seq(S) /\ T \in Seq(S)
  BY TextIsLine
<1>2. NL \in S
  BY DEF LineChars
<1> HIDE DEF S
<1>3. Front(t) = T
  BY <1>1, <1>2 DEF Front
<1> HIDE DEF t
<1>4. Front(tt) = t
  BY <1>1, <1>2 DEF Front
<1> QED BY <1>3, <1>4 DEF IsShownAs, IsFront, t

(* What is left is a line, no longer than the room. *)
LEMMA FrontIsLine ==
  ASSUME NEW F, NEW T \in Seq(TextChars), Len(T) <= MaxRoom, IsFront(F, T)
  PROVE  F \in Seq(LineChars) /\ Len(F) <= MaxRoom /\ NotUpTo(F, SPACE, Len(F))
<1>1. F \in Seq(LineChars)
  BY TextIsLine DEF IsFront
<1>2. Len(F) <= MaxRoom
  <2>1. Len(Append(T, NL)) = Len(T) + 1 /\ Len(T) \in Nat /\ MaxRoom \in Nat
    BY DEF MaxRoom, MAX_DIGITS
  <2> QED BY <2>1 DEF IsFront
<1>3. \A i \in 1..Len(F) : F[i] # SPACE
  BY <1>1, ElementIn, LineIsNoSign
<1> QED BY <1>1, <1>2, <1>3 DEF NotUpTo

(* Without that newline it is the text of the amount. *)
LEMMA NewlineDropped ==
  ASSUME NEW F, NEW T \in Seq(TextChars), T # <<>>, IsFront(F, T)
  PROVE  WithoutNewline(F) = T
<1> DEFINE n == Len(T)
           S == LineChars
<1>1. n \in Nat \ {0} /\ T[n] # NL
  <2>1. n \in 1..Len(T) /\ n \in Nat \ {0}
    OBVIOUS
  <2> QED BY <2>1, ElementIn, TextIsNoSign
<1>2. T \in Seq(S)
  BY TextIsLine
<1>3. NL \in S
  BY DEF LineChars
<1> HIDE DEF S
<1>4. CASE F = T
  BY <1>1, <1>4 DEF WithoutNewline, Last
<1>5. CASE F = Append(T, NL)
  <2>1. F # <<>> /\ F[Len(F)] = NL /\ SubSeq(F, 1, Len(F) - 1) = T
    BY <1>2, <1>3, <1>5
  <2> QED BY <2>1 DEF WithoutNewline, Last, Front
<1> QED BY <1>4, <1>5 DEF IsFront

-----------------------------------------------------------------------------
Kinds == {"ZNN", "QSR", "ZTS"}
SymbolChars == {"Z", "N", "Q", "S", "R", "T"}

(* A symbol has three letters. *)
LEMMA SymbolIs ==
  ASSUME NEW z \in Kinds
  PROVE  zts_symbol(z) \in Seq(SymbolChars) /\ Len(zts_symbol(z)) = 3
<1>1. CASE z = "ZNN"
  <2>1. zts_symbol(z) = <<"Z", "N", "N">>
    BY <1>1 DEF zts_symbol
  <2> QED BY <2>1 DEF SymbolChars
<1>2. CASE z = "QSR"
  <2>1. zts_symbol(z) = <<"Q", "S", "R">>
    BY <1>2 DEF zts_symbol
  <2> QED BY <2>1 DEF SymbolChars
<1>3. CASE z = "ZTS"
  <2>1. zts_symbol(z) = <<"Z", "T", "S">>
    BY <1>3 DEF zts_symbol
  <2> QED BY <2>1 DEF SymbolChars
<1> QED BY <1>1, <1>2, <1>3 DEF Kinds

(* A token is of one of three kinds. *)
LEMMA TypeIs ==
  ASSUME NEW prog
  PROVE  token_standard_type(prog) \in Kinds
BY DEF token_standard_type, Kinds

(* The text of the amount and the symbol behind it. *)
HasSymbol(s, F, z) == s = Cut(F \o <<SPACE>> \o zts_symbol(z), G_AMOUNT_SIZE)

(* A space and three letters fit behind the longest line. *)
LEMMA SymbolHasRoom ==
  ASSUME NEW n \in Nat, n <= MaxRoom
  PROVE  n + 1 + 3 < G_AMOUNT_SIZE
BY DEF MaxRoom, MAX_DIGITS, G_AMOUNT_SIZE

(* The symbol is behind the first space, and nothing is cut. *)
LEMMA SymbolAdded ==
  ASSUME NEW F \in Seq(LineChars), Len(F) <= MaxRoom, NotUpTo(F, SPACE, Len(F)),
         NEW z \in Kinds, NEW s, HasSymbol(s, F, z)
  PROVE  /\ s # <<>> /\ Found(s, SPACE) = Len(F) + 1 /\ SubSeq(s, 1, Len(F)) = F
         /\ SubSeq(s, Len(s) - 3, Len(s)) = <<SPACE>> \o zts_symbol(z)
<1> DEFINE y == zts_symbol(z)
           all == F \o <<SPACE>> \o y
           sp == <<SPACE>>
           S == LineChars \union SymbolChars \union {SPACE}
           n == Len(F)
<1>0. n \in Nat
  OBVIOUS
<1>1. F \in Seq(S) /\ y \in Seq(S) /\ SPACE \in S /\ Len(y) = 3 /\ n \in Nat
  <2>1. y \in Seq(SymbolChars) /\ Len(y) = 3
    BY SymbolIs
  <2> HIDE DEF y
  <2>2. y \in Seq(S)
    BY <2>1, SeqMonotonic
  <2>3. F \in Seq(S)
    BY SeqMonotonic
  <2> HIDE DEF n
  <2> QED BY <1>0, <2>1, <2>2, <2>3
<1> HIDE DEF y, S
<1>2. /\ all \in Seq(S) /\ Len(all) = n + 1 + 3 /\ all[n + 1] = SPACE /\ (\A i \in 1..n : all[i] = F[i])
      /\ SubSeq(all, 1, n) = F /\ SubSeq(all, n + 2, Len(all)) = y
  <2>1. IsSplit(all, F, SPACE, y, S)
    BY <1>1, SplitAt
  <2> HIDE DEF all, n
  <2>2. n = Len(F)
    BY DEF n
  <2> QED BY <1>1, <2>1, <2>2 DEF IsSplit
<1>3. Cut(all, G_AMOUNT_SIZE) = all
  <2>1. Len(all) < G_AMOUNT_SIZE
    <3>1. n <= MaxRoom
      OBVIOUS
    <3>2. Len(all) = n + 1 + 3
      BY <1>2
    <3> HIDE DEF all, n
    <3>3. n + 1 + 3 < G_AMOUNT_SIZE
      BY <1>0, <3>1, SymbolHasRoom
    <3> QED BY Zenon, <3>2, <3>3
  <2> QED BY <2>1 DEF Cut
<1>4. s = all
  BY <1>3 DEF y, HasSymbol
<1> HIDE DEF all, n
<1>5. s # <<>>
  BY <1>1, <1>2, <1>4
<1>6. Found(s, SPACE) = n + 1
  <2>1. n + 1 + 3 \in Nat /\ n + 1 \in 1..n + 1 + 3 /\ (n + 1) - 1 = n
    BY <1>1
  <2>2. NotUpTo(s, SPACE, n)
    BY <1>2, <1>4 DEF NotUpTo, n
  <2> QED BY <2>1, <2>2, <1>2, <1>4, FoundAt
<1>7. SubSeq(s, Len(s) - 3, Len(s)) = sp \o y
  <2> DEFINE u == SubSeq(s, n + 1, n + 4)
             w == SubSeq(s, n + 2, n + 4)
             r == sp \o y
  <2>1. Len(s) = n + 4 /\ Len(s) - 3 = n + 1 /\ n + 1 + 3 = n + 4
    BY <1>1, <1>2, <1>4
  <2>2. s \in Seq(S)
    BY <1>2, <1>4
  <2>3. u \in Seq(S) /\ Len(u) = 4 /\ \A i \in 1..4 : u[i] = s[n + i]
    BY <2>1, <2>2, <1>1
  <2>4. w = y /\ \A i \in 1..3 : w[i] = s[n + 1 + i]
    <3>1. w = y
      BY <2>1, <1>2, <1>4
    <3>2. \A i \in 1..3 : w[i] = s[n + 1 + i]
      <4> HIDE DEF y
      <4> QED BY <2>1, <2>2, <1>1
    <3> QED BY <3>1, <3>2
  <2>5. sp \in Seq(S) /\ Len(sp) = 1 /\ sp[1] = SPACE
    BY <1>1
  <2> HIDE DEF u, w, sp
  <2>6. r \in Seq(S) /\ Len(r) = 4 /\ r[1] = SPACE /\ \A i \in 1..3 : r[1 + i] = y[i]
    <3>1. r \in Seq(S) /\ Len(r) = Len(sp) + Len(y)
      BY <2>5, <1>1, Joined
    <3>2. \A i \in 1..Len(sp) + Len(y) : r[i] = IF i <= Len(sp) THEN sp[i] ELSE y[i - Len(sp)]
      BY <2>5, <1>1, ConcatProperties
    <3> HIDE DEF r
    <3> QED BY <3>1, <3>2, <2>5, <1>1
  <2> HIDE DEF r
  <2>7. ASSUME NEW i \in 1..4 PROVE u[i] = r[i]
    <3>1. CASE i = 1
      BY <3>1, <2>3, <2>6, <1>2, <1>4
    <3>2. CASE i # 1
      <4>1. i - 1 \in 1..3 /\ 1 + (i - 1) = i /\ n + 1 + (i - 1) = n + i
        BY <3>2, <1>1
      <4>2. r[1 + (i - 1)] = y[i - 1] /\ w[i - 1] = s[n + 1 + (i - 1)]
        BY <4>1, <2>4, <2>6
      <4> QED BY <4>1, <4>2, <2>3, <2>4
    <3> QED BY <3>1, <3>2
  <2>8. u = r
    <3>1. Len(u) = Len(r) /\ \A i \in 1..Len(u) : u[i] = r[i]
      BY <2>3, <2>6, <2>7
    <3> QED BY Zenon, <3>1, <2>3, <2>6, SeqEqual
  <2> QED BY <2>1, <2>8 DEF u, r
<1> QED BY <1>2, <1>4, <1>5, <1>6, <1>7 DEF n, y, sp

-----------------------------------------------------------------------------
(* The invariant and the theorems.                                         *)

(* No amount has more digits than the buffers of bigint_format have room   *)
(* for: see DeviceAmountsFit.                                              *)
AmountFits == Values[AMOUNT_LEN] <= Tens[MAX_DIGITS]

(* The text of the review is that of the amount, once it is there. *)
Shown == text = <<>> \/ text = AmountText(amount, ShownZts)
IInv == amount \in Amounts /\ Shown

(* An amount is bytes, of at most 78 digits. *)
LEMMA AmountIs ==
  ASSUME AmountFits, NEW a \in Amounts
  PROVE  Is(a, AMOUNT_LEN, BYTE) /\ Val(a, AMOUNT_LEN, BYTE) < Tens[MAX_DIGITS]
<1> DEFINE L == AMOUNT_LEN
           v == Val(a, L, BYTE)
<1>1. L \in Nat /\ BYTE \in Nat \ {0} /\ \A i \in 0..BYTE - 1 : i \in Nat
  BY FactsOfBytes
<1>2. a \in [1..L -> 0..BYTE - 1]
  BY AmountAssumption
<1>3. a \in [1..L -> Nat]
  BY <1>1, <1>2
<1>4. a \in Seq(Nat) /\ Len(a) = L
  BY <1>1, <1>3, FunctionIsSeq
<1>5. Below(a, L, BYTE)
  BY <1>2 DEF Below
<1> HIDE DEF L
<1>6. v < Values[L] /\ v \in Nat
  BY <1>1, <1>5, BelowIsDigital, ValuesArePowers, ValBound, ValType
<1>7. Values[L] \in Nat /\ Tens[MAX_DIGITS] \in Nat
  <2>1. MAX_DIGITS \in Nat
    BY DEF MAX_DIGITS
  <2> QED BY <2>1, <1>1, FactsOfBytes, TenIs, ValuesArePowers, TensArePowers DEF Powers
<1> QED BY <1>4, <1>5, <1>6, <1>7 DEF Is, AmountFits, L

(* The decimals that number_format has room for; none without a coin. *)
LEMMA DecimalsAre ==
  ASSUME NEW z
  PROVE  TokenDecimals(z) \in 0..17 /\ (z \notin Coins => TokenDecimals(z) = 0)
BY AmountAssumption DEF TokenDecimals

(* The values of bytes one behind the other. *)
LEMMA ValuesOfSum ==
  ASSUME NEW m \in Nat, NEW n \in Nat
  PROVE  Values[m + n] = Values[m] * Values[n] /\ Values[m] \in Nat
<1>1. BYTE \in Nat \ {0}
  BY FactsOfBytes
<1>2. Values[m + n] = Values[m] * Values[n]
  BY <1>1, ValuesArePowers, PowersAdd
<1> QED BY <1>1, <1>2, ValuesArePowers DEF Powers

(* The values of digits one behind the other. *)
LEMMA TensOfSum ==
  ASSUME NEW m \in Nat, NEW n \in Nat
  PROVE  Tens[m + n] = Tens[m] * Tens[n] /\ Tens[m] \in Nat
BY TenIs, TensArePowers, PowersAdd DEF Powers

(* Squares grow. *)
LEMMA Squares ==
  ASSUME NEW x \in Nat, NEW y \in Nat, x <= y
  PROVE  x * x <= y * y
<1>1. x * x <= x * y
  OBVIOUS
<1>2. x * y <= y * y
  OBVIOUS
<1>3. x * x \in Nat /\ x * y \in Nat /\ y * y \in Nat
  OBVIOUS
<1> QED BY <1>1, <1>2, <1>3

(* The amounts of the device, of 32 bytes, have at most 78 digits. *)
LEMMA DeviceAmountsFit == BYTE = 256 /\ AMOUNT_LEN = 32 => AmountFits
<1> SUFFICES ASSUME BYTE = 256, AMOUNT_LEN = 32 PROVE AmountFits
  OBVIOUS
<1>1. Values[4] = 256 * 256 * 256 * 256
  <2>1. Values[0] = 1 /\ Values[0 + 1] = Values[0] * 256 /\ Values[1 + 1] = Values[1] * 256
        /\ Values[2 + 1] = Values[2] * 256 /\ Values[3 + 1] = Values[3] * 256
    BY FactsOfBytes, ValuesArePowers DEF Powers
  <2> QED BY <2>1
<1>2. Tens[7] = 10000000 /\ Tens[8] = 100000000
  <2>1. Tens[0] = 1 /\ Tens[0 + 1] = Tens[0] * 10 /\ Tens[1 + 1] = Tens[1] * 10
        /\ Tens[2 + 1] = Tens[2] * 10 /\ Tens[3 + 1] = Tens[3] * 10 /\ Tens[4 + 1] = Tens[4] * 10
        /\ Tens[5 + 1] = Tens[5] * 10 /\ Tens[6 + 1] = Tens[6] * 10 /\ Tens[7 + 1] = Tens[7] * 10
    BY TenIs, TensArePowers DEF Powers
  <2> QED BY <2>1
<1>3. Values[4] <= 43 * Tens[8]
  BY <1>1, <1>2
<1>4. Values[8] = Values[4] * Values[4] /\ Values[16] = Values[8] * Values[8] /\ Values[32] = Values[16] * Values[16]
      /\ Values[4] \in Nat /\ Values[8] \in Nat /\ Values[16] \in Nat
  <2>1. 4 + 4 = 8 /\ 8 + 8 = 16 /\ 16 + 16 = 32
    OBVIOUS
  <2>2. /\ Values[4 + 4] = Values[4] * Values[4] /\ Values[8 + 8] = Values[8] * Values[8]
        /\ Values[16 + 16] = Values[16] * Values[16] /\ Values[4] \in Nat /\ Values[8] \in Nat /\ Values[16] \in Nat
    BY ValuesOfSum
  <2> QED BY <2>1, <2>2
<1>5. Tens[16] = Tens[8] * Tens[8] /\ Tens[32] = Tens[16] * Tens[16] /\ Tens[39] = Tens[7] * Tens[32]
      /\ Tens[78] = Tens[39] * Tens[39] /\ Tens[16] \in Nat /\ Tens[32] \in Nat /\ Tens[39] \in Nat
  <2>1. Tens[8 + 8] = Tens[8] * Tens[8] /\ Tens[16 + 16] = Tens[16] * Tens[16]
    BY TensOfSum
  <2>2. Tens[7 + 32] = Tens[7] * Tens[32]
    BY TensOfSum, SMTT(30)
  <2>5. Tens[39 + 39] = Tens[39] * Tens[39]
    BY TensOfSum, SMTT(30)
  <2>3. Tens[16] \in Nat /\ Tens[32] \in Nat /\ Tens[39] \in Nat
    BY TensOfSum
  <2>4. 8 + 8 = 16 /\ 16 + 16 = 32 /\ 7 + 32 = 39 /\ 39 + 39 = 78
    OBVIOUS
  <2> QED BY <2>1, <2>2, <2>3, <2>4, <2>5
<1>6. Values[8] <= 1849 * Tens[16]
  <2>1. 43 * Tens[8] \in Nat /\ (43 * Tens[8]) * (43 * Tens[8]) = 1849 * (Tens[8] * Tens[8])
    BY <1>2
  <2> QED BY <2>1, <1>3, <1>4, <1>5, Squares
<1>7. Values[16] <= Tens[39]
  <2> DEFINE t == Tens[16]
  <2>1. t \in Nat
    BY <1>5
  <2> HIDE DEF t
  <2>2. 1849 * t \in Nat /\ (1849 * t) * (1849 * t) = 3418801 * (t * t) /\ t * t \in Nat
    BY <2>1
  <2>3. Values[16] <= 3418801 * (t * t)
    BY <2>2, <1>4, <1>6, Squares DEF t
  <2>4. 3418801 * (t * t) <= 10000000 * (t * t)
    BY <2>2
  <2> QED BY <2>2, <2>3, <2>4, <1>2, <1>4, <1>5 DEF t
<1>8. Values[32] <= Tens[78]
  BY <1>4, <1>5, <1>7, Squares
<1> QED BY <1>8 DEF AmountFits, MAX_DIGITS

-----------------------------------------------------------------------------
(* What the text of an amount shows, and how long it is. *)
ShownIs(t, a, z) ==
  LET numeral == SubSeq(t, 1, Found(t, SPACE) - 1)
      D == TokenDecimals(z)
  IN  /\ t # <<>>
      /\ Denotes(IF z \in Coins THEN WithoutNewline(numeral) ELSE numeral, a, D)
      /\ Len(AmountChars(a, D)) < AMOUNT_SIZE
      /\ SubSeq(t, Len(t) - 3, Len(t)) = <<SPACE>> \o zts_symbol(z)

(* The text of an amount shows the amount. *)
LEMMA AmountTextIs ==
  ASSUME AmountFits, NEW a \in Amounts, NEW z \in Kinds
  PROVE  ShownIs(AmountText(a, z), a, z)
<1> DEFINE D == TokenDecimals(z)
           chars == AmountChars(a, D)
           F == Front(CString(chars))
           t == AmountText(a, z)
<1>1. D \in 0..17 /\ (z \notin Coins => D = 0)
  BY DecimalsAre
<1>2. HasSymbol(t, F, z)
  BY DEF AmountText, HasSymbol
<1> HIDE DEF t, D
<1>3. ShowsAmount(chars, a, D)
  BY <1>1, AmountIs, AmountCharsAre
<1> HIDE DEF chars
<1>4. PICK T : /\ IsWritten(T, a, D, MaxRoom)
               /\ IsShownAs(chars, T, MaxRoom)
               /\ D = 0 => CString(chars) = Append(T, NL)
  BY <1>3 DEF ShowsAmount
<1>5. T \in Seq(TextChars) /\ T # <<>> /\ Len(T) <= MaxRoom /\ Denotes(T, a, D)
  BY <1>4 DEF IsWritten
<1>6. IsFront(F, T) /\ (D = 0 => F = T)
  BY <1>4, <1>5, FrontIs
<1> HIDE DEF F
<1>7. F \in Seq(LineChars) /\ Len(F) <= MaxRoom /\ NotUpTo(F, SPACE, Len(F))
  BY <1>5, <1>6, FrontIsLine
<1>8. /\ t # <<>> /\ Found(t, SPACE) = Len(F) + 1 /\ SubSeq(t, 1, Len(F)) = F
      /\ SubSeq(t, Len(t) - 3, Len(t)) = <<SPACE>> \o zts_symbol(z)
  BY <1>2, <1>7, SymbolAdded
<1>9. SubSeq(t, 1, Found(t, SPACE) - 1) = F
  <2>1. (Len(F) + 1) - 1 = Len(F)
    BY <1>7
  <2> QED BY <2>1, <1>8
<1>10. (IF z \in Coins THEN WithoutNewline(F) ELSE F) = T
  BY <1>1, <1>5, <1>6, NewlineDropped
<1>11. Len(chars) < AMOUNT_SIZE
  <2>1. Len(chars) <= MaxRoom + 1
    BY <1>4 DEF IsShownAs
  <2>2. MaxRoom + 1 = 80 /\ AMOUNT_SIZE = 81
    BY DEF MaxRoom, MAX_DIGITS, AMOUNT_SIZE
  <2>3. Len(chars) \in Nat
    BY <1>4 DEF IsShownAs
  <2> QED BY <2>1, <2>2, <2>3
<1> QED BY <1>5, <1>8, <1>9, <1>10, <1>11 DEF ShownIs, D, chars, t

(* The invariant holds initially. *)
LEMMA ShownFirst == Init => IInv
BY DEF Init, IInv, Shown

(* Every step keeps the invariant. *)
LEMMA ShownKept == IInv /\ [ShowAmount]_vars => IInv'
<1> SUFFICES ASSUME IInv, [ShowAmount]_vars PROVE IInv'
  OBVIOUS
<1>1. CASE ShowAmount
  BY <1>1 DEF IInv, Shown, ShowAmount, ShownZts
<1>2. CASE UNCHANGED vars
  BY <1>2 DEF IInv, Shown, vars, ShownZts
<1> QED BY <1>1, <1>2

(* The invariant makes the text right. *)
LEMMA ShownIsRight ==
  ASSUME AmountFits, IInv
  PROVE  ShownDigitsDenoteAmount /\ ShownTextFits
<1>1. CASE text = <<>>
  BY <1>1 DEF ShownDigitsDenoteAmount, ShownTextFits
<1>2. CASE text = AmountText(amount, ShownZts)
  <2>1. ShownZts \in Kinds /\ amount \in Amounts
    BY TypeIs DEF ShownZts, IInv
  <2>2. ShownIs(text, amount, ShownZts)
    BY <1>2, <2>1, AmountTextIs
  <2>3. ShownNumeral = SubSeq(text, 1, Found(text, SPACE) - 1)
    BY DEF ShownNumeral, SelectInSeq, Found
  <2>4. ShownDigitsDenoteAmount
    BY <2>2, <2>3 DEF ShownIs, ShownDigitsDenoteAmount
  <2>5. ShownTextFits
    BY <2>2 DEF ShownIs, ShownTextFits
  <2> QED BY <2>4, <2>5
<1> QED BY <1>1, <1>2 DEF IInv, Shown

(* The digits and the point of the text that bigint_from_bytes,            *)
(* bigint_format and number_format make, and the send review shows, are    *)
(* those of the amount signed, for every amount that has at most 78        *)
(* digits.                                                                 *)
THEOREM SpecShowsTheAmount == AmountFits => (Spec => []ShownDigitsDenoteAmount)
<1> SUFFICES ASSUME AmountFits PROVE Spec => []ShownDigitsDenoteAmount
  OBVIOUS
<1>1. IInv => ShownDigitsDenoteAmount
  BY ShownIsRight
<1> QED BY ShownFirst, ShownKept, <1>1, PTL DEF Spec

(* The text of the amount stays inside of the two buffers of the send      *)
(* review, and its symbol is not cut off.                                  *)
THEOREM SpecTextFits == AmountFits => (Spec => []ShownTextFits)
<1> SUFFICES ASSUME AmountFits PROVE Spec => []ShownTextFits
  OBVIOUS
<1>1. IInv => ShownTextFits
  BY ShownIsRight
<1> QED BY ShownFirst, ShownKept, <1>1, PTL DEF Spec
=============================================================================
