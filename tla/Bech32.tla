------------------------------- MODULE Bech32 -------------------------------
(***************************************************************************)
(* The codec of segwit_addr.c: Bech32 and Bech32m, without a version       *)
(* (the bech32_addr functions) and with one (the segwit_addr functions).   *)
(*                                                                         *)
(* Characters are their ASCII codes, 0 being the end of a string.  An      *)
(* unsigned word of the checksum is the set of the positions of its 1s.    *)
(***************************************************************************)
EXTENDS Integers, Sequences, SequencesExt, FiniteSetsExt

ADDRESS_LEN == 20

Upper == 65..90
Lower == 97..122
ToLower(ch) == IF ch \in Upper THEN ch + 32 ELSE ch
ToUpper(ch) == IF ch \in Lower THEN ch - 32 ELSE ch
ONE == 49

(* "qpzry9x8gf2tvdw0s3jn54khce6mua7l" *)
charset ==
  <<113, 112, 122, 114, 121, 57, 120, 56, 103, 102, 50, 116, 118, 100, 119, 48,
    115, 51, 106, 110, 53, 52, 107, 104, 99, 101, 54, 109, 117, 97, 55, 108>>

(* The value of a character of either case, -1 for any other. *)
charset_rev(ch) == SelectInSeq(charset, LAMBDA c : c = ToLower(ch)) - 1

-----------------------------------------------------------------------------
(* The checksum. *)
Bits(n) == {i \in 0..29 : (n \div 2 ^ i) % 2 = 1}

(* The number that has the binary digits bits, most significant first. *)
Number(bits) ==
  LET first[n \in 0..Len(bits)] == IF n = 0 THEN 0 ELSE 2 * first[n - 1] + bits[n]
  IN  first[Len(bits)]

GENERATOR ==
  <<Bits(996825010), Bits(642813549), Bits(513874426), Bits(1027748829),
    Bits(705979059)>>

bech32_polymod_step[pre \in SUBSET (0..29)] ==
  LET generators(i) == {k \in 0..4 : k + 25 \in pre /\ i \in GENERATOR[k + 1]}
      ones(i) == Cardinality(generators(i)) + IF i - 5 \in pre THEN 1 ELSE 0
  IN  {i \in 0..29 : ones(i) % 2 = 1}

(* One step for each value, in their order. *)
Absorb(start, values) ==
  LET chk[n \in 0..Len(values)] ==
        IF n = 0 THEN start
        ELSE SymDiff(bech32_polymod_step[chk[n - 1]], Bits(values[n]))
  IN  chk[Len(values)]

(* The human readable part: the high bits of each character, 0, the low.   *)
HrpChecksum(hrp) ==
  Absorb(Bits(1), [i \in 1..Len(hrp) |-> hrp[i] \div 32] \o <<0>>
                    \o [i \in 1..Len(hrp) |-> hrp[i] % 32])

(* Faulty variant (not part of the model): the constants are exchanged.    *)
final_constant_exchanged(enc) ==
  IF enc = "BECH32" THEN Bits(734539939) ELSE Bits(1)

bech32_final_constant(enc) ==
  IF enc = "BECH32" THEN Bits(1) ELSE Bits(734539939)

-----------------------------------------------------------------------------
(* convert_bits regroups a stream of bits, most significant first.  It     *)
(* fails, without padding, when bits other than zeros or a whole group of  *)
(* the input are left over; <<>> stands for failure.                       *)
Bit(in, inbits, k) ==
  IF k >= Len(in) * inbits THEN 0
  ELSE (in[(k \div inbits) + 1] \div 2 ^ (inbits - 1 - (k % inbits))) % 2

convert_bits(outbits, in, inbits, pad) ==
  LET total == Len(in) * inbits
      left == total % outbits
      group(g) ==
        Number([j \in 1..outbits |-> Bit(in, inbits, (g - 1) * outbits + j - 1)])
      whole == total \div outbits
  IN  IF pad THEN [g \in 1..(whole + (IF left > 0 THEN 1 ELSE 0)) |-> group(g)]
      ELSE IF group(whole + 1) # 0 \/ left >= inbits THEN <<>>
      ELSE [g \in 1..whole |-> group(g)]

(* bech32_encode; <<>> stands for its return value 0. *)
bech32_encode(hrp, data, enc) ==
  LET chk == SymDiff(Absorb(HrpChecksum(hrp), data \o [i \in 1..6 |-> 0]),
                     bech32_final_constant(enc))
      check == [i \in 1..6 |->
                  Number([j \in 1..5 |-> IF 5 * (6 - i) + 5 - j \in chk THEN 1 ELSE 0])]
      characters(values) == [i \in 1..Len(values) |-> charset[values[i] + 1]]
  IN  IF \/ \E i \in 1..Len(hrp) : hrp[i] \notin 33..126 \/ hrp[i] \in Upper
         \/ Len(hrp) + 7 + Len(data) > 90
         \/ \E i \in 1..Len(data) : data[i] > 31
      THEN <<>>
      ELSE hrp \o <<ONE>> \o characters(data) \o characters(check)

(* bech32_decode: the separator is the last "1".                           *)
NotDecoded == [enc |-> "NONE", hrp |-> <<>>, data |-> <<>>]

bech32_decode(input) ==
  LET separator == SelectLastInSeq(input, LAMBDA ch : ch = ONE)
      hrp == [i \in 1..separator - 1 |-> ToLower(input[i])]
      values == [i \in 1..Len(input) - separator |-> charset_rev(input[separator + i])]
      data == SubSeq(values, 1, Len(values) - 6)
      check == SubSeq(values, Len(values) - 5, Len(values))
      chk == Absorb(HrpChecksum(hrp), data \o check)
      decoded(enc) == [enc |-> enc, hrp |-> hrp, data |-> data]
  IN  IF \/ Len(input) < 8 \/ Len(input) > 90
         \/ separator <= 1 \/ Len(values) < 6
         \/ \E i \in 1..separator - 1 : input[i] \notin 33..126
         \/ \E i \in 1..Len(values) : values[i] = -1
         \/ ToSet(input) \intersect Lower # {} /\ ToSet(input) \intersect Upper # {}
      THEN NotDecoded
      ELSE IF chk = bech32_final_constant("BECH32") THEN decoded("BECH32")
      ELSE IF chk = bech32_final_constant("BECH32M") THEN decoded("BECH32M")
      ELSE NotDecoded

-----------------------------------------------------------------------------
bech32_addr_encode(hrp, prog) ==
  IF Len(prog) < 2 \/ Len(prog) > 40 THEN <<>>
  ELSE bech32_encode(hrp, convert_bits(5, prog, 8, TRUE), "BECH32")

(* Faulty variant (not part of the model): any length is accepted.         *)
bech32_addr_decode_any_length(hrp, addr) ==
  LET decoded == bech32_decode(addr)
      prog == convert_bits(8, decoded.data, 5, FALSE)
  IN  IF \/ decoded.enc = "NONE" \/ decoded.hrp # hrp
         \/ Len(decoded.data) \notin 1..64
      THEN <<>> ELSE prog

(* Either encoding is accepted; <<>> stands for the return value 0. *)
bech32_addr_decode(hrp, addr) ==
  LET decoded == bech32_decode(addr)
      prog == convert_bits(8, decoded.data, 5, FALSE)
  IN  IF \/ decoded.enc = "NONE" \/ decoded.hrp # hrp
         \/ Len(decoded.data) \notin 1..64 \/ Len(prog) # ADDRESS_LEN
      THEN <<>> ELSE prog

-----------------------------------------------------------------------------
(* Faulty variant (not part of the model): one encoding for all versions.  *)
EncodingForAll(witver) == "BECH32"

(* The two functions for versioned programs. *)
Encoding(witver) == IF witver > 0 THEN "BECH32M" ELSE "BECH32"

(* Faulty variant (not part of the model): a length of version 0 is any.   *)
WitnessLengthAny(witver, length) == length \in 2..40

WitnessLengthOK(witver, length) ==
  length \in 2..40 /\ (witver = 0 => length \in {20, 32})

(* The version becomes a byte. *)
segwit_addr_encode(hrp, witver, witprog) ==
  IF witver > 16 \/ ~WitnessLengthOK(witver, Len(witprog)) THEN <<>>
  ELSE bech32_encode(hrp, <<witver % 256>> \o convert_bits(5, witprog, 8, TRUE),
                     Encoding(witver))

NotSegwit == [witver |-> -1, witprog |-> <<>>]

segwit_addr_decode(hrp, addr) ==
  LET decoded == bech32_decode(addr)
      witver == Head(decoded.data)
      witprog == convert_bits(8, Tail(decoded.data), 5, FALSE)
  IN  IF \/ decoded.enc = "NONE" \/ Len(decoded.data) \notin 1..65
         \/ decoded.hrp # hrp
         \/ witver > 16 \/ decoded.enc # Encoding(witver)
         \/ ~WitnessLengthOK(witver, Len(witprog))
      THEN NotSegwit
      ELSE [witver |-> witver, witprog |-> witprog]
=============================================================================
