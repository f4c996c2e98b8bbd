--------------------------- MODULE PublicKeyProofs ---------------------------
(***************************************************************************)
(* Proofs about PublicKey: for bytes of any even number of values, keys of *)
(* any length and every curve of the form over a field of prime order.     *)
(*                                                                         *)
(* The answer's little-endian number is y plus the parity of x in the      *)
(* highest bit, by induction over the bytes; and on the curve a point is   *)
(* determined by y and that parity, as x and -x have different ones.       *)
(***************************************************************************)
EXTENDS PublicKey, DataLemmas, SequenceTheorems

(* What KeyAssumption says of single numbers. *)
LEMMA ByteEven ==
  /\ BYTE \in Nat \ {0, 1} /\ BYTE \div 2 \in Nat \ {0} /\ BYTE = 2 * (BYTE \div 2)
  /\ PUBKEY_LEN \in Nat \ {0} /\ FIELD \in Nat /\ D \in 1..FIELD - 2
BY KeyAssumption

(* Values is well defined, and positive. *)
LEMMA ValuesType ==
  /\ Values \in [0..PUBKEY_LEN -> Nat \ {0}]
  /\ Values[0] = 1
  /\ \A n \in 1..PUBKEY_LEN : Values[n] = BYTE * Values[n - 1]
<1> DEFINE S == Nat \ {0}
           one == 1
           N == PUBKEY_LEN
           G == [p \in (1..N) \X S |-> BYTE * p[2]]
<1>1. G \in [(1..N) \X S -> S]
  <2> SUFFICES ASSUME NEW p \in (1..N) \X S PROVE BYTE * p[2] \in S
    OBVIOUS
  <2>1. p[2] \in S
    OBVIOUS
  <2> QED BY <2>1, ByteEven
<1>2. N \in Nat /\ one \in S
  BY ByteEven
<1>3. PICK g \in [0..N -> S] :
        g[0] = one /\ \A i \in 1..N : g[i] = G[<<i, g[i - 1]>>]
  <2> HIDE DEF G, S, one, N
  <2>1. \E g \in [0..N -> S] : Follows(g, N, one, G)
    BY <1>1, <1>2, Recursion
  <2> QED BY <2>1 DEF Follows
<1>4. ASSUME NEW i \in 1..N PROVE g[i] = BYTE * g[i - 1]
  <2>1. g[i - 1] \in S /\ i - 1 \in 0..N
    BY <1>2
  <2>2. G[<<i, g[i - 1]>>] = BYTE * g[i - 1]
    BY <2>1
  <2> QED BY <2>2, <1>3
<1>5. g = [n \in 0..N |-> IF n = 0 THEN 1 ELSE BYTE * g[n - 1]]
  <2>1. ASSUME NEW n \in 0..N PROVE g[n] = IF n = 0 THEN 1 ELSE BYTE * g[n - 1]
    <3>1. CASE n = 0
      BY <3>1, <1>3
    <3>2. CASE n # 0
      <4>1. n \in 1..N
        BY <3>2, <1>2
      <4> QED BY <4>1, <3>2, <1>4
    <3> QED BY <3>1, <3>2
  <2> QED BY <2>1
<1>6. Values = [n \in 0..N |-> IF n = 0 THEN 1 ELSE BYTE * Values[n - 1]]
  <2> HIDE DEF G
  <2> QED BY <1>5 DEF Values
<1>7. Values[0] = 1
  BY <1>2, <1>6
<1>8. ASSUME NEW n \in 1..N PROVE Values[n] = BYTE * Values[n - 1]
  BY <1>2, <1>6
<1>9. \A n \in 0..N : Values[n] \in S
  <2> DEFINE T == {k \in 0..N : Values[k] \in S}
  <2>1. 0 \in T
    BY <1>2, <1>7
  <2>2. ASSUME NEW i \in 0..N - 1, i \in T PROVE i + 1 \in T
    <3>1. i + 1 \in 1..N /\ i + 1 - 1 = i
      BY <1>2
    <3>2. Values[i + 1] = BYTE * Values[i]
      BY <3>1, <1>8
    <3>3. BYTE * Values[i] \in S
      BY <2>2, ByteEven
    <3> QED BY <3>1, <3>2, <3>3
  <2>3. \A n \in 0..N : n \in T
    <3> HIDE DEF T, N
    <3> QED BY <2>1, <2>2, <1>2, IntervalInduction
  <2> QED BY <2>3
<1> QED BY <1>6, <1>7, <1>8, <1>9

(* So is LittleEndian, of any bytes. *)
LEMMA LastType ==
  ASSUME NEW bytes \in Seq(Nat)
  PROVE  LET last == LittleEndian(bytes)
         IN  /\ last \in [0..Len(bytes) -> Nat] /\ last[0] = 0
             /\ \A n \in 1..Len(bytes) :
                  last[n] = last[n - 1] * BYTE + bytes[Len(bytes) - n + 1]
<1> DEFINE N == Len(bytes)
           zero == 0
           last == LittleEndian(bytes)
           G == [p \in (1..N) \X Nat |-> p[2] * BYTE + bytes[N - p[1] + 1]]
<1>1. N \in Nat /\ zero \in Nat
  OBVIOUS
<1>2. \A n \in 1..N : bytes[N - n + 1] \in Nat
  <2> SUFFICES ASSUME NEW n \in 1..N PROVE bytes[N - n + 1] \in Nat
    OBVIOUS
  <2>1. N - n + 1 \in 1..N
    OBVIOUS
  <2> QED BY <2>1
<1>3. \A k \in Nat, n \in 1..N : k * BYTE + bytes[N - n + 1] \in Nat
  <2> SUFFICES ASSUME NEW k \in Nat, NEW n \in 1..N PROVE k * BYTE + bytes[N - n + 1] \in Nat
    OBVIOUS
  <2>1. k * BYTE \in Nat
    BY ByteEven
  <2> QED BY <2>1, <1>2
<1>4. G \in [(1..N) \X Nat -> Nat]
  <2> HIDE DEF N
  <2> SUFFICES ASSUME NEW p \in (1..N) \X Nat PROVE p[2] * BYTE + bytes[N - p[1] + 1] \in Nat
    OBVIOUS
  <2>1. p[1] \in 1..N /\ p[2] \in Nat
    OBVIOUS
  <2> QED BY <2>1, <1>3
<1>5. PICK g \in [0..N -> Nat] :
        g[0] = zero /\ \A i \in 1..N : g[i] = G[<<i, g[i - 1]>>]
  <2> HIDE DEF G, zero, N
  <2>1. \E g \in [0..N -> Nat] : Follows(g, N, zero, G)
    BY <1>1, <1>4, Recursion
  <2> QED BY <2>1 DEF Follows
<1>6. ASSUME NEW i \in 1..N PROVE g[i] = g[i - 1] * BYTE + bytes[N - i + 1]
  <2> HIDE DEF N
  <2>1. g[i - 1] \in Nat /\ i - 1 \in 0..N
    BY <1>1
  <2>2. G[<<i, g[i - 1]>>] = g[i - 1] * BYTE + bytes[N - i + 1]
    BY <2>1
  <2> QED BY <2>2, <1>5
<1>7. g = [n \in 0..N |-> IF n = 0 THEN 0 ELSE g[n - 1] * BYTE + bytes[N - n + 1]]
  <2> HIDE DEF N, G
  <2>1. ASSUME NEW n \in 0..N
        PROVE  g[n] = IF n = 0 THEN 0 ELSE g[n - 1] * BYTE + bytes[N - n + 1]
    <3>1. CASE n = 0
      BY <3>1, <1>5
    <3>2. CASE n # 0
      <4>1. n \in 1..N
        BY <3>2, <1>1
      <4> QED BY <4>1, <3>2, <1>6
    <3> QED BY <3>1, <3>2
  <2> QED BY <2>1
<1>8. last = [n \in 0..N |-> IF n = 0 THEN 0 ELSE last[n - 1] * BYTE + bytes[N - n + 1]]
  <2> HIDE DEF G
  <2> QED BY <1>7 DEF LittleEndian
<1> HIDE DEF last, N
<1>9. last[0] = 0
  BY <1>1, <1>8
<1>10. ASSUME NEW n \in 1..N PROVE last[n] = last[n - 1] * BYTE + bytes[N - n + 1]
  <2>1. n \in 0..N /\ n # 0
    BY <1>1
  <2> QED BY Zenon, <2>1, <1>8
<1>11. \A n \in 0..N : last[n] \in Nat
  <2> DEFINE T == {k \in 0..N : last[k] \in Nat}
  <2>1. 0 \in T
    BY <1>1, <1>9
  <2>2. ASSUME NEW i \in 0..N - 1, i \in T PROVE i + 1 \in T
    <3>1. i + 1 \in 1..N /\ i + 1 - 1 = i
      BY <1>1
    <3>2. last[i + 1] = last[i] * BYTE + bytes[N - (i + 1) + 1]
      BY <3>1, <1>10
    <3>3. last[i] * BYTE + bytes[N - (i + 1) + 1] \in Nat
      BY <2>2, <3>1, <1>3
    <3> QED BY <3>1, <3>2, <3>3
  <2>3. \A n \in 0..N : n \in T
    <3> HIDE DEF T
    <3> QED BY <2>1, <2>2, <1>1, IntervalInduction
  <2> QED BY <2>3
<1> QED BY <1>8, <1>9, <1>10, <1>11 DEF last, N

(* The coordinates of a point. *)
LEMMA PointIsInField ==
  ASSUME NEW p \in Points
  PROVE  p.x \in 0..FIELD - 1 /\ p.y \in 0..FIELD - 1 /\ OnCurve(p.x, p.y)
BY DEF Points

(* BigEndian is the sequence of the digits. *)
LEMMA BigEndianType ==
  ASSUME NEW v \in Nat
  PROVE  /\ BigEndian(v) \in Seq(Nat) /\ Len(BigEndian(v)) = PUBKEY_LEN
         /\ \A i \in 1..PUBKEY_LEN : BigEndian(v)[i] = (v \div Values[PUBKEY_LEN - i]) % BYTE
<1>1. ASSUME NEW i \in 1..PUBKEY_LEN PROVE (v \div Values[PUBKEY_LEN - i]) % BYTE \in Nat
  <2>1. PUBKEY_LEN - i \in 0..PUBKEY_LEN
    BY ByteEven
  <2>2. Values[PUBKEY_LEN - i] \in Nat \ {0}
    BY <2>1, ValuesType
  <2>3. v \div Values[PUBKEY_LEN - i] \in Nat
    BY <2>2, DivMod, v \in Int
  <2> QED BY <2>3, ByteEven
<1>2. PUBKEY_LEN \in Nat
  BY ByteEven
<1>3. BigEndian(v) \in [1..PUBKEY_LEN -> Nat]
  BY <1>1 DEF BigEndian
<1> QED BY <1>2, <1>3 DEF BigEndian

(* The bytes that the compression reads (get_public_key.c): the last one   *)
(* of x, and those of y backwards.                                         *)
LEMMA RawElements ==
  ASSUME NEW p \in Points, raw = RawPublicKey(p)
  PROVE  /\ AtRaw(PUBKEY_LEN) = p.x % BYTE
         /\ \A i \in 0..PUBKEY_LEN - 1 :
              AtRaw(2 * PUBKEY_LEN - i) = (p.y \div Values[i]) % BYTE
<1> DEFINE L == PUBKEY_LEN
           X == BigEndian(p.x)
           Y == BigEndian(p.y)
<1>1. p.x \in Nat /\ p.y \in Nat /\ L \in Nat \ {0}
  BY PointIsInField, ByteEven
<1>2. X \in Seq(Nat) /\ Len(X) = L /\ X[L] = (p.x \div Values[0]) % BYTE
  BY <1>1, BigEndianType, L - L = 0, L \in 1..L
<1>3. Y \in Seq(Nat) /\ Len(Y) = L
  BY <1>1, BigEndianType
<1>4. ASSUME NEW i \in 0..L - 1 PROVE Y[L - i] = (p.y \div Values[i]) % BYTE
  <2>1. L - i \in 1..L /\ L - (L - i) = i
    BY <1>1
  <2> QED BY <2>1, <1>1, BigEndianType
<1>5. raw = <<1>> \o X \o Y
  BY DEF RawPublicKey
<1> HIDE DEF L, X, Y
<1>6. raw[L + 1] = X[L]
  BY <1>1, <1>2, <1>3, <1>5
<1>7. ASSUME NEW i \in 0..L - 1 PROVE raw[2 * L - i + 1] = Y[L - i]
  BY <1>1, <1>2, <1>3, <1>5
<1>8. p.x \div 1 = p.x
  BY <1>1
<1> QED BY <1>2, <1>4, <1>6, <1>7, <1>8, ValuesType DEF AtRaw, L

(* The lowest byte of a number has its parity. *)
LEMMA ParityOfByte ==
  ASSUME NEW x \in Nat
  PROVE  (x % BYTE) % 2 = x % 2
<1> DEFINE half == BYTE \div 2
           q == x \div BYTE
           r == x % BYTE
           p == r \div 2
           s == r % 2
<1>1. q \in Nat /\ r \in 0..BYTE - 1 /\ x = BYTE * q + r
  BY ByteEven, DivMod, x \in Int
<1>2. half \in Nat /\ BYTE = 2 * half
  BY ByteEven
<1> HIDE DEF q, r, half
<1>3. p \in Int /\ s \in 0..1 /\ r = 2 * p + s
  BY <1>1, ByteEven
<1> HIDE DEF p, s
<1>4. x = 2 * (half * q + p) + s
  <2>1. BYTE * q = 2 * (half * q)
    BY <1>1, <1>2
  <2>2. half * q \in Int
    BY <1>1, <1>2
  <2> QED BY <1>1, <1>2, <1>3, <2>1, <2>2
<1>5. half * q + p \in Int
  BY <1>1, <1>2, <1>3
<1>6. x % 2 = s
  BY <1>3, <1>4, <1>5, DivModUnique, 2 \in Nat \ {0}, s \in 0..2 - 1, x \in Int
<1> QED BY <1>6 DEF s, r

(* The highest bit of the highest byte of y is free: y is below half of    *)
(* what the bytes can hold.                                                *)
LEMMA TopByte ==
  ASSUME NEW p \in Points
  PROVE  /\ p.y \div Values[PUBKEY_LEN - 1] \in Nat
         /\ p.y \div Values[PUBKEY_LEN - 1] < BYTE \div 2
         /\ Values[PUBKEY_LEN] \div 2 = (BYTE \div 2) * Values[PUBKEY_LEN - 1]
         /\ p.y < Values[PUBKEY_LEN] \div 2
<1> DEFINE half == BYTE \div 2
           V == Values[PUBKEY_LEN - 1]
           W == Values[PUBKEY_LEN]
           y == p.y
<1>1. half \in Nat /\ BYTE = 2 * half
  BY ByteEven
<1>2. PUBKEY_LEN - 1 \in 0..PUBKEY_LEN /\ PUBKEY_LEN \in 1..PUBKEY_LEN
  BY ByteEven
<1>3. V \in Nat \ {0} /\ W = BYTE * V
  BY <1>2, ValuesType
<1>4. y \in Nat /\ y < FIELD /\ FIELD \in Nat /\ 2 * FIELD <= W
  BY PointIsInField, KeyAssumption
<1> HIDE DEF half, V, W, y
<1>5. W = 2 * (half * V) /\ half * V \in Nat
  BY <1>1, <1>3
<1>6. W \div 2 = half * V
  BY <1>5
<1>7. y < half * V
  BY <1>4, <1>5
<1>8. y \div V \in Nat /\ y \div V < half
  BY <1>1, <1>3, <1>4, <1>7, DivLess
<1> QED BY <1>6, <1>7, <1>8 DEF half, V, W, y

(* The compressed key: the digits of y, lowest first, and the parity of x  *)
(* in the highest bit of the last one.                                     *)
LEMMA CompressedElements ==
  ASSUME NEW p \in Points, raw = RawPublicKey(p)
  PROVE  /\ Compressed \in Seq(Nat) /\ Len(Compressed) = PUBKEY_LEN
         /\ \A i \in 1..PUBKEY_LEN - 1 : Compressed[i] = (p.y \div Values[i - 1]) % BYTE
         /\ Compressed[PUBKEY_LEN] =
              (p.y \div Values[PUBKEY_LEN - 1]) + (p.x % 2) * (BYTE \div 2)
<1> DEFINE L == PUBKEY_LEN
           half == BYTE \div 2
           y(i) == AtRaw(2 * L - i)
           top == p.y \div Values[L - 1]
<1>1. L \in Nat \ {0} /\ half \in Nat /\ BYTE = 2 * half /\ p.x \in Nat /\ p.y \in Nat
  BY ByteEven, PointIsInField
<1>2. \A i \in 0..L - 1 : y(i) = (p.y \div Values[i]) % BYTE
  BY RawElements
<1>3. \A i \in 0..L - 1 : y(i) \in Nat
  <2> SUFFICES ASSUME NEW i \in 0..L - 1 PROVE (p.y \div Values[i]) % BYTE \in Nat
    BY <1>2
  <2>1. i \in 0..L
    BY <1>1
  <2>2. p.y \in Int /\ Values[i] \in Nat \ {0}
    <3>1. Values[i] \in Nat \ {0}
      BY <2>1, ValuesType
    <3>2. p.y \in Int
      BY PointIsInField, ByteEven
    <3> QED BY <3>1, <3>2
  <2>3. p.y \div Values[i] \in Nat
    BY <2>2, <1>1, DivMod
  <2> QED BY <2>3, ByteEven
<1>4. IsOdd <=> p.x % 2 # 0
  <2>1. AtRaw(L) = p.x % BYTE
    BY RawElements
  <2> QED BY <2>1, <1>1, ParityOfByte DEF IsOdd
<1>5. top \in Nat /\ top < half /\ y(L - 1) = top
  <2>1. top \in Nat /\ top < half
    BY TopByte
  <2>2. top % BYTE = top
    <3> HIDE DEF top
    <3> QED BY <2>1, <1>1
  <2>3. L - 1 \in 0..L - 1
    BY <1>1
  <2> QED BY <2>1, <2>2, <2>3, <1>2
<1>6. Compressed = [i \in 1..L |->
         IF i = L /\ IsOdd /\ y(i - 1) < half THEN y(i - 1) + half ELSE y(i - 1)]
  BY DEF Compressed
<1> HIDE DEF L, y, half, top
<1>7. Compressed \in [1..L -> Nat]
  <2>1. \A i \in 1..L : i - 1 \in 0..L - 1
    BY <1>1
  <2> QED BY <2>1, <1>1, <1>3, <1>6
<1>8. Compressed \in Seq(Nat) /\ Len(Compressed) = L
  BY <1>1, <1>7
<1>9. ASSUME NEW i \in 1..L - 1 PROVE Compressed[i] = (p.y \div Values[i - 1]) % BYTE
  <2>1. i \in 1..L /\ i # L /\ i - 1 \in 0..L - 1
    BY <1>1
  <2> QED BY <2>1, <1>2, <1>6
<1>10. Compressed[L] = top + (p.x % 2) * half
  <2>1. L \in 1..L
    BY <1>1
  <2>2. Compressed[L] = IF IsOdd THEN top + half ELSE top
    BY <2>1, <1>5, <1>6
  <2>3. p.x % 2 \in {0, 1}
    BY <1>1
  <2>4. 0 * half = 0 /\ 1 * half = half
    BY <1>1
  <2> QED BY <2>2, <2>3, <2>4, <1>1, <1>4, <1>5
<1> QED BY <1>8, <1>9, <1>10 DEF L, half, top

(* The number the compressed key is, by induction over its bytes from the  *)
(* highest one down.                                                       *)
LEMMA ValueOfCompressed ==
  ASSUME NEW p \in Points, raw = RawPublicKey(p)
  PROVE  LittleEndian(Compressed)[PUBKEY_LEN]
           = p.y + (p.x % 2) * (Values[PUBKEY_LEN] \div 2)
<1> DEFINE L == PUBKEY_LEN
           s == (p.x % 2) * (BYTE \div 2)
           last == LittleEndian(Compressed)
           Y(k) == p.y \div Values[k]
<1>1. L \in Nat \ {0} /\ BYTE \in Nat \ {0} /\ s \in Nat /\ p.y \in Nat
  <2>1. BYTE \div 2 \in Nat /\ p.x % 2 \in Nat
    BY ByteEven, PointIsInField
  <2> QED BY <2>1, ByteEven, PointIsInField
<1>2. Compressed \in Seq(Nat) /\ Len(Compressed) = L
  BY CompressedElements
<1>3. last[0] = 0 /\ \A n \in 1..L : last[n] = last[n - 1] * BYTE + Compressed[L - n + 1]
  BY <1>2, LastType
<1>4. \A k \in 0..L : Values[k] \in Nat \ {0} /\ Y(k) \in Nat
  <2> SUFFICES ASSUME NEW k \in 0..L PROVE Values[k] \in Nat \ {0} /\ Y(k) \in Nat
    OBVIOUS
  <2>1. Values[k] \in Nat \ {0}
    BY ValuesType
  <2> QED BY <2>1, <1>1, DivMod, p.y \in Int
<1>5. ASSUME NEW k \in 0..L - 1 PROVE Y(k) = Y(k + 1) * BYTE + (Y(k) % BYTE)
  <2>1. k \in 0..L /\ k + 1 \in 1..L /\ k + 1 - 1 = k
    BY <1>1
  <2>2. Values[k + 1] = BYTE * Values[k]
    BY <2>1, ValuesType
  <2>3. Y(k + 1) = Y(k) \div BYTE
    BY <2>1, <2>2, <1>1, <1>4, DivDiv, SMTT(30)
  <2>4. Y(k) \in Int
    BY <2>1, <1>4
  <2> HIDE DEF Y
  <2>5. Y(k) = BYTE * (Y(k) \div BYTE) + (Y(k) % BYTE) /\ Y(k) \div BYTE \in Int
    BY <2>4, <1>1, DivMod
  <2> QED BY <2>3, <2>5, <1>1
<1>6. \A i \in 1..L - 1 : Compressed[i] = Y(i - 1) % BYTE
  BY CompressedElements
<1>7. Compressed[L] = Y(L - 1) + s
  BY CompressedElements
<1>8. Values[0] = 1 /\ \A n \in 1..L : Values[n] = BYTE * Values[n - 1]
  BY ValuesType
<1> HIDE DEF L, s, last, Y
<1> DEFINE T == {k \in 0..L - 1 : last[k + 1] = Y(L - 1 - k) + s * Values[k]}
<1>9. 0 \in T
  <2>1. 1 \in 1..L /\ L - 1 + 1 = L /\ L - 1 - 0 = L - 1 /\ 1 - 1 = 0 /\ 0 + 1 = 1 /\ 0 \in 0..L - 1
    BY <1>1
  <2>2. last[1] = last[0] * BYTE + Compressed[L - 1 + 1]
    BY <2>1, <1>3
  <2>3. last[1] = 0 * BYTE + (Y(L - 1) + s)
    BY <2>2, <2>1, <1>3, <1>7
  <2>4. Y(L - 1) \in Nat
    BY <1>1, <1>4, L - 1 \in 0..L
  <2>5. last[1] = Y(L - 1) + s * 1
    BY <2>3, <2>4, <1>1
  <2> QED BY <2>1, <2>5, <1>8
<1>10. ASSUME NEW k \in 0..L - 1 - 1, k \in T PROVE k + 1 \in T
  <2> DEFINE j == L - 1 - (k + 1)
  <2>1. /\ k + 1 \in 0..L - 1 /\ k + 2 \in 1..L /\ k + 2 - 1 = k + 1 /\ k + 1 + 1 = k + 2
        /\ j \in 0..L - 1 /\ j + 1 = L - 1 - k /\ L - (k + 2) + 1 = j + 1
        /\ j + 1 \in 1..L - 1 /\ j + 1 - 1 = j /\ k + 1 \in 1..L /\ k + 1 - 1 = k
        /\ j + 1 \in 0..L /\ j \in 0..L /\ k \in 0..L
    BY <1>1
  <2> HIDE DEF j
  <2>2. last[k + 2] = last[k + 1] * BYTE + Compressed[j + 1]
    BY <2>1, <1>3
  <2>3. Compressed[j + 1] = Y(j) % BYTE
    BY <2>1, <1>6
  <2>4. last[k + 1] = Y(j + 1) + s * Values[k]
    BY <2>1, <1>10
  <2>5. Y(j) = Y(j + 1) * BYTE + (Y(j) % BYTE)
    BY <2>1, <1>5
  <2>6. Values[k + 1] = BYTE * Values[k]
    BY <2>1, <1>8
  <2>7. Values[k] \in Nat /\ Y(j + 1) \in Nat /\ Y(j) \in Nat
    BY <2>1, <1>4
  <2>8. s * Values[k] * BYTE = s * (BYTE * Values[k])
    BY <2>7, <1>1
  <2>9. (Y(j + 1) + s * Values[k]) * BYTE = Y(j + 1) * BYTE + s * Values[k] * BYTE
    BY <2>7, <1>1
  <2>10. s * (BYTE * Values[k]) \in Nat /\ Y(j + 1) * BYTE \in Nat /\ Y(j) % BYTE \in Int
    BY <2>7, <1>1
  <2>11. last[k + 2] = Y(j) + s * Values[k + 1]
    BY <2>2, <2>3, <2>4, <2>5, <2>6, <2>8, <2>9, <2>10, <2>7
  <2> QED BY <2>1, <2>11 DEF j
<1>11. \A k \in 0..L - 1 : k \in T
  <2>1. L - 1 \in Nat
    BY <1>1
  <2> HIDE DEF T
  <2> QED BY <1>9, <1>10, <2>1, IntervalInduction
<1>12. last[L] = Y(0) + s * Values[L - 1]
  <2>1. L - 1 \in 0..L - 1 /\ L - 1 + 1 = L /\ L - 1 - (L - 1) = 0
    BY <1>1
  <2>2. L - 1 \in T
    BY <2>1, <1>11
  <2> QED BY <2>1, <2>2
<1>13. Y(0) = p.y
  BY <1>1, <1>8 DEF Y
<1>14. s * Values[L - 1] = (p.x % 2) * (Values[L] \div 2)
  <2>1. Values[L] \div 2 = (BYTE \div 2) * Values[L - 1]
    BY TopByte DEF L
  <2>2. BYTE \div 2 \in Nat /\ p.x % 2 \in Nat /\ Values[L - 1] \in Nat
    BY ByteEven, PointIsInField, <1>1, <1>4, L - 1 \in 0..L
  <2> QED BY <2>1, <2>2 DEF s
<1> QED BY <1>12, <1>13, <1>14 DEF last, L

(* A prime above 2 is odd. *)
LEMMA FieldIsOdd == FIELD \in Nat \ {0, 1, 2} /\ FIELD % 2 = 1
<1>1. FIELD \in Nat /\ FIELD >= 3
  BY ByteEven
<1>2. CASE FIELD % 2 = 0
  <2> DEFINE m == FIELD \div 2
  <2>1. m \in 1..FIELD - 1 /\ 2 \in 1..FIELD - 1 /\ 2 * m = FIELD
    BY <1>1, <1>2
  <2>2. (2 * m) % FIELD # 0
    BY <2>1, KeyAssumption
  <2>3. FIELD % FIELD = 0
    BY <1>1
  <2> QED BY <2>1, <2>2, <2>3
<1> QED BY <1>1, <1>2

(* The field has no divisors of zero. *)
LEMMA ZeroProduct ==
  ASSUME NEW u \in Int, NEW v \in Int, (u * v) % FIELD = 0
  PROVE  u % FIELD = 0 \/ v % FIELD = 0
<1> DEFINE a == u % FIELD
           b == v % FIELD
<1>1. FIELD \in Nat \ {0}
  BY FieldIsOdd
<1>2. a \in 0..FIELD - 1 /\ b \in 0..FIELD - 1
  BY <1>1, DivMod
<1>3. (a * v) % FIELD = 0
  BY <1>1, ReduceFactor
<1>4. (b * a) % FIELD = 0
  <2> HIDE DEF a
  <2>1. a \in Int /\ a * v = v * a
    BY <1>2
  <2>2. (b * a) % FIELD = (v * a) % FIELD
    BY <2>1, <1>1, ReduceFactor
  <2> QED BY <2>1, <2>2, <1>3
<1> HIDE DEF a, b
<1>5. a = 0 \/ b = 0
  <2> SUFFICES ASSUME a # 0, b # 0 PROVE FALSE
    OBVIOUS
  <2>1. a \in 1..FIELD - 1 /\ b \in 1..FIELD - 1
    BY <1>2
  <2> QED BY <2>1, <1>4, KeyAssumption
<1> QED BY <1>5 DEF a, b

(* The equation of the curve, solved for x squared. *)
LEMMA CurveEquation ==
  ASSUME NEW x \in Nat, NEW y \in Nat, OnCurve(x, y)
  PROVE  (y * y - 1 - (x * x) * (D * (y * y) + 1)) % FIELD = 0
<1> DEFINE F == FIELD
           a == D * x * x
           b == y * y
           A == a % F
           B == b % F
           i == a \div F
           j == b \div F
           E == y * y - x * x - 1 - A * B
           m == E \div F
           k == i * b + j * a - F * (i * j)
<1>1. F \in Nat \ {0} /\ D \in Int /\ a \in Int /\ b \in Int
  <2>1. F \in Nat \ {0} /\ D \in Int
    BY FieldIsOdd, ByteEven
  <2>2. D * x \in Int
    BY <2>1
  <2> QED BY <2>1, <2>2
<1>2. E % F = 0
  BY DEF OnCurve
<1> HIDE DEF F, a, b
<1>3. A \in Int /\ i \in Int /\ a = F * i + A /\ B \in Int /\ j \in Int /\ b = F * j + B
  BY <1>1, DivMod
<1> HIDE DEF A, B, i, j
<1>4. E \in Int
  BY <1>3
<1>5. m \in Int /\ E = F * m + 0
  <2> HIDE DEF E
  <2> QED BY <1>1, <1>2, <1>4, DivMod
<1>6. A * B = a * b - F * k
  <2>1. A = a - F * i /\ B = b - F * j
    BY <1>1, <1>3
  <2>2. (a - F * i) * (b - F * j) = a * b - F * (i * b + j * a - F * (i * j))
    BY <1>1, <1>3
  <2> QED BY <2>1, <2>2
<1>7. k \in Int
  BY <1>1, <1>3
<1> HIDE DEF k, m
<1>8. y * y - x * x - 1 - a * b = F * (m - k)
  <2>1. A * B \in Int /\ a * b \in Int /\ F * k \in Int /\ F * m \in Int
    BY <1>1, <1>3, <1>5, <1>7
  <2>2. F * (m - k) = F * m - F * k
    BY <1>1, <1>5, <1>7
  <2>3. y * y \in Int /\ x * x \in Int
    OBVIOUS
  <2> QED BY <2>1, <2>2, <2>3, <1>5, <1>6 DEF E
<1>9. (y * y - x * x - 1 - a * b) % F = 0
  <2>1. m - k \in Int
    BY <1>5, <1>7
  <2> QED BY <2>1, <1>1, <1>8, MultipleIsZero
<1>10. y * y - x * x - 1 - a * b = y * y - 1 - (x * x) * (D * (y * y) + 1)
  <2>1. a * b = (D * x * x) * (y * y)
    BY DEF a, b
  <2>2. (D * x * x) * (y * y) = (x * x) * (D * (y * y))
    BY <1>1
  <2>3. (x * x) * (D * (y * y) + 1) = (x * x) * (D * (y * y)) + x * x
    BY <1>1
  <2>4. (x * x) * (D * (y * y)) \in Int /\ y * y \in Int /\ x * x \in Int
    <3>1. y * y \in Int /\ x * x \in Int
      OBVIOUS
    <3>2. D * (y * y) \in Int
      BY <3>1, <1>1
    <3> QED BY <3>1, <3>2
  <2> QED BY <2>1, <2>2, <2>3, <2>4
<1> QED BY <1>9, <1>10 DEF F

(* A point is determined by y and the parity of x. Two points of the same  *)
(* y have the same x squared, since 1 + D y^2 is not 0: otherwise y^2 = 1  *)
(* and D = -1. So they have the same x or opposite ones, and of those one  *)
(* is odd and one is even.                                                 *)
LEMMA SamePoint ==
  ASSUME NEW p \in Points, NEW q \in Points, p.y = q.y, p.x % 2 = q.x % 2
  PROVE  p = q
<1> DEFINE F == FIELD
           x == p.x
           z == q.x
           y == p.y
           P == D * (y * y) + 1
           c == y * y - 1
<1>1. F \in Nat \ {0, 1, 2} /\ F % 2 = 1 /\ D \in 1..F - 2
  BY FieldIsOdd, ByteEven
<1>2. x \in 0..F - 1 /\ z \in 0..F - 1 /\ y \in 0..F - 1
  BY PointIsInField
<1>3. (c - (x * x) * P) % F = 0
  BY <1>1, <1>2, PointIsInField, CurveEquation, x \in Nat, y \in Nat
<1>4. (c - (z * z) * P) % F = 0
  BY <1>1, <1>2, PointIsInField, CurveEquation, z \in Nat, y \in Nat
<1>5. P \in Int /\ c \in Int /\ y * y \in Int
  <2>1. y * y \in Int
    BY <1>2
  <2> HIDE DEF y
  <2>2. D * (y * y) \in Int
    BY <2>1, <1>1
  <2> QED BY <2>1, <2>2
<1>6. x % 2 = z % 2
  OBVIOUS
<1> HIDE DEF x, z, F
<1>7. P % F # 0
  <2> SUFFICES ASSUME P % F = 0 PROVE FALSE
    OBVIOUS
  <2> DEFINE k == P \div F
             n == (c - (x * x) * P) \div F
             yy == y * y
  <2>1. k \in Int /\ P = F * k + 0
    <3> HIDE DEF P
    <3> QED BY <1>1, <1>5, DivMod
  <2>2. n \in Int /\ c - (x * x) * P = F * n + 0
    <3>1. x * x \in Int
      BY <1>1, <1>2
    <3> HIDE DEF P, c
    <3>2. (x * x) * P \in Int
      BY <3>1, <1>5
    <3>3. c - (x * x) * P \in Int
      BY <3>2, <1>5
    <3> QED BY <3>3, <1>1, <1>3, DivMod
  <2> HIDE DEF n, k
  <2>3. c = F * (n + (x * x) * k)
    <3>1. x * x \in Int /\ x \in Int
      BY <1>1, <1>2
    <3>2. (x * x) * (F * k) = F * ((x * x) * k) /\ (x * x) * k \in Int
      BY <3>1, <2>1, <1>1
    <3>3. c = F * n + F * ((x * x) * k)
      <4> HIDE DEF P, c
      <4>1. (x * x) * P = F * ((x * x) * k)
        BY <2>1, <3>1, <3>2, <1>1
      <4>2. F * ((x * x) * k) \in Int /\ F * n \in Int
        BY <3>2, <2>2, <1>1
      <4> QED BY <4>1, <4>2, <2>2, <1>5
    <3>4. F * (n + (x * x) * k) = F * n + F * ((x * x) * k)
      <4> DEFINE w == (x * x) * k
      <4>1. w \in Int
        BY <3>2
      <4> HIDE DEF w
      <4>2. F * (n + w) = F * n + F * w
        BY <4>1, <2>2, <1>1
      <4> QED BY <4>2 DEF w
    <3> QED BY <3>3, <3>4
  <2> DEFINE h == n + (x * x) * k
  <2>4. h \in Int
    <3>1. x * x \in Int
      BY <1>1, <1>2
    <3>2. (x * x) * k \in Int
      BY <3>1, <2>1
    <3> QED BY <3>2, <2>2
  <2>5. c = F * h
    BY <2>3
  <2> HIDE DEF h
  <2>6. D + 1 = F * (k - D * h)
    <3>1. yy \in Int /\ P = D * yy + 1 /\ c = yy - 1
      BY <1>5
    <3> HIDE DEF P, c, yy
    <3>2. yy = F * h + 1
      BY <3>1, <2>5, <2>4, <1>1, <1>5
    <3>3. D * (F * h + 1) = F * (D * h) + D
      BY <1>1, <2>4
    <3>4. F * k = F * (D * h) + D + 1
      BY <3>1, <3>2, <3>3, <2>1, <1>1
    <3>5. F * (k - D * h) = F * k - F * (D * h)
      BY <1>1, <2>1, <2>4
    <3>6. F * (D * h) \in Int /\ F * k \in Int
      <4>1. D * h \in Int
        BY <1>1, <2>4
      <4> QED BY <4>1, <1>1, <2>1
    <3> QED BY <3>4, <3>5, <3>6, <1>1
  <2>7. k - D * h \in Int
    BY <1>1, <2>1, <2>4
  <2>8. (D + 1) % F = 0
    BY <2>6, <2>7, <1>1, MultipleIsZero
  <2>9. (D + 1) % F = D + 1
    BY <1>1
  <2> QED BY <2>8, <2>9, <1>1
<1>8. ((z * z - x * x) * P) % F = 0
  <2> DEFINE a == c - (x * x) * P
             b == c - (z * z) * P
  <2>1. x * x \in Int /\ z * z \in Int
    BY <1>1, <1>2
  <2> HIDE DEF P, c
  <2>2. (x * x) * P \in Int /\ (z * z) * P \in Int
    BY <2>1, <1>5
  <2>3. a \in Int /\ b \in Int /\ a - b = (z * z) * P - (x * x) * P
    BY <2>2, <1>5
  <2>4. (z * z - x * x) * P = (z * z) * P - (x * x) * P
    BY <2>1, <1>5
  <2>5. a % F = b % F
    BY <1>3, <1>4
  <2> HIDE DEF a, b
  <2>6. (a - b) % F = 0
    BY <2>3, <2>5, <1>1, CongruentIffDivides
  <2> QED BY <2>3, <2>4, <2>6
<1>9. (z * z - x * x) % F = 0
  <2>1. z * z - x * x \in Int
    BY <1>1, <1>2
  <2> HIDE DEF P
  <2> QED BY <2>1, <1>5, <1>7, <1>8, ZeroProduct DEF F
<1>10. ((z - x) * (z + x)) % F = 0
  <2>1. z * z - x * x = (z - x) * (z + x)
    BY <1>1, <1>2
  <2> QED BY <2>1, <1>9
<1>11. (z - x) % F = 0 \/ (z + x) % F = 0
  <2>1. z - x \in Int /\ z + x \in Int
    BY <1>1, <1>2
  <2> QED BY <2>1, <1>10, ZeroProduct DEF F
<1>12. x = z
  <2>1. CASE (z - x) % F = 0
    <3>1. z % F = x % F
      BY <2>1, <1>1, <1>2, CongruentIffDivides, x \in Int, z \in Int
    <3>2. z % F = z /\ x % F = x
      BY <1>1, <1>2
    <3> QED BY <3>1, <3>2
  <2>2. CASE (z + x) % F = 0
    <3> DEFINE k == (z + x) \div F
    <3>1. k \in Int /\ z + x = F * k + 0
      BY <2>2, <1>1, <1>2, DivMod, z + x \in Int
    <3> HIDE DEF k
    <3>2. k = 0 \/ k = 1
      <4>1. CASE k >= 2
        <5>1. F * (k - 1) >= F
          BY <4>1, <1>1, <3>1, ProductAtLeast, k - 1 \in Int, k - 1 >= 1
        <5>2. F * (k - 1) = F * k - F
          BY <1>1, <3>1
        <5> QED BY <5>1, <5>2, <3>1, <1>1, <1>2
      <4>2. CASE k <= -1
        <5>1. F * (-k) >= F
          BY <4>2, <1>1, <3>1, ProductAtLeast, -k \in Int, -k >= 1
        <5>2. F * (-k) = -(F * k)
          BY <1>1, <3>1
        <5> QED BY <5>1, <5>2, <3>1, <1>1, <1>2
      <4> QED BY <4>1, <4>2, <3>1
    <3>3. CASE k = 0
      <4>1. z + x = 0
        BY <3>1, <3>3, <1>1
      <4> QED BY <4>1, <1>1, <1>2
    <3>4. CASE k = 1
      <4>1. z + x = F
        BY <3>1, <3>4, <1>1
      <4> QED BY <4>1, <1>1, <1>2, <1>6
    <3> QED BY <3>2, <3>3, <3>4
  <2> QED BY <2>1, <2>2, <1>11
<1> QED BY <1>12 DEF x, z, Points

(* The host makes of the compressed key the point it is of, and no other.  *)
LEMMA HostDecompresses ==
  ASSUME NEW p \in Points, raw = RawPublicKey(p)
  PROVE  Decompressed(Compressed) = {p}
<1> DEFINE H == Values[PUBKEY_LEN] \div 2
           v == LittleEndian(Compressed)[Len(Compressed)]
           parity == p.x % 2
<1>1. p.x \in Nat /\ p.y \in Nat /\ p.y < H /\ parity \in 0..1
  BY PointIsInField, TopByte, ByteEven
<1>2. H \in Nat \ {0}
  <2>1. Values[PUBKEY_LEN] \in Nat
    BY ValuesType, ByteEven
  <2>2. H \in Int
    BY <2>1
  <2> HIDE DEF H
  <2> QED BY <2>2, <1>1
<1>3. v = p.y + parity * H
  BY ValueOfCompressed, CompressedElements
<1> HIDE DEF H, v
<1>4. v \div H = parity /\ v % H = p.y
  <2>1. v = H * parity + p.y
    BY <1>1, <1>2, <1>3
  <2>2. p.y \in 0..H - 1 /\ parity \in Int
    BY <1>1, <1>2
  <2> HIDE DEF parity
  <2>3. H * parity + p.y \in Int
    BY <2>2, <1>1, <1>2
  <2> QED BY <1>2, <2>1, <2>2, <2>3, DivModUnique
<1>5. Decompressed(Compressed) = {q \in Points : q.y = v % H /\ q.x % 2 = v \div H}
  BY DEF Decompressed, v, H
<1>6. \A q \in Points : q.y = p.y /\ q.x % 2 = parity => q = p
  BY SamePoint
<1> QED BY <1>4, <1>5, <1>6

-----------------------------------------------------------------------------
(* What holds at each step: every stage is what the one before it makes.   *)
Staged ==
  /\ point \in Points
  /\ raw # <<>> => raw = RawPublicKey(point)
  /\ key # <<>> => raw # <<>> /\ key = Compressed
  /\ response # <<>> => key # <<>> /\ response = <<PUBKEY_LEN>> \o key

(* It holds before the derivation. *)
LEMMA StagedInit == Init => Staged
BY DEF Init, Staged

(* Every step keeps it. *)
LEMMA StagedNext == Staged /\ [Next]_vars => Staged'
<1> SUFFICES ASSUME Staged, [Next]_vars PROVE Staged'
  OBVIOUS
<1>1. CASE Derive
  <2>1. raw = <<>> /\ key = <<>> /\ response = <<>>
    BY <1>1 DEF Derive, Staged
  <2> QED BY <2>1, <1>1 DEF Derive, Staged
<1>2. CASE Compress
  <2>1. key = <<>> /\ response = <<>> /\ raw # <<>> /\ raw' = raw /\ key' = Compressed
    BY <1>2 DEF Compress, Staged
  <2>2. Compressed' = Compressed
    BY <2>1 DEF Compressed, AtRaw, IsOdd
  <2> QED BY <2>1, <2>2, <1>2 DEF Compress, Staged
<1>3. CASE SendResponse
  <2>1. Compressed' = Compressed
    BY <1>3 DEF SendResponse, Compressed, AtRaw, IsOdd
  <2> QED BY <2>1, <1>3 DEF SendResponse, Staged
<1>4. CASE UNCHANGED vars
  <2>1. Compressed' = Compressed
    BY <1>4 DEF vars, Compressed, AtRaw, IsOdd
  <2> QED BY <2>1, <1>4 DEF vars, Staged
<1> QED BY <1>1, <1>2, <1>3, <1>4 DEF Next

(* It is enough for the property. *)
LEMMA StagedHostReads == Staged => HostReadsThePoint
<1> SUFFICES ASSUME Staged, response # <<>>
             PROVE  Len(response) = response[1] + 1 /\ Decompressed(Unpacked) = {point}
  BY DEF HostReadsThePoint
<1>1. point \in Points /\ raw = RawPublicKey(point) /\ key = Compressed
      /\ response = <<PUBKEY_LEN>> \o key
  BY DEF Staged
<1>2. key \in Seq(Nat) /\ Len(key) = PUBKEY_LEN /\ PUBKEY_LEN \in Nat
  BY <1>1, CompressedElements, ByteEven
<1>3. response \in Seq(Nat) /\ response[1] = PUBKEY_LEN /\ Len(response) = PUBKEY_LEN + 1
  BY <1>1, <1>2
<1>4. Unpacked = key
  <2>1. Unpacked = SubSeq(response, 2, PUBKEY_LEN + 1)
    BY <1>3 DEF Unpacked
  <2> DEFINE s == SubSeq(response, 2, PUBKEY_LEN + 1)
  <2>2. s \in Seq(Nat) /\ Len(s) = PUBKEY_LEN
    BY <1>2, <1>3
  <2>3. \A i \in 1..PUBKEY_LEN : s[i] = response[i + 1]
    BY <1>2, <1>3
  <2>4. \A i \in 1..PUBKEY_LEN : response[i + 1] = key[i]
    BY <1>1, <1>2
  <2> HIDE DEF s
  <2>5. s = key
    BY <2>2, <2>3, <2>4, <1>2, SeqEqual
  <2> QED BY <2>1, <2>5 DEF s
<1> QED BY <1>1, <1>3, <1>4, HostDecompresses

(* What the program unpacks from the answer of GET_PUBLIC_KEY              *)
(* (get_public_key.c, send_reponse.c) determines the very point derived,   *)
(* whatever the parities of its coordinates.                               *)
THEOREM SpecHostReadsThePoint == Spec => []HostReadsThePoint
<1>1. Staged /\ [Next]_vars => Staged'
  BY StagedNext
<1> QED BY StagedInit, <1>1, StagedHostReads, PTL DEF Spec
=============================================================================
