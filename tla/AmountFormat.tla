---------------------------- MODULE AmountFormat ----------------------------
(***************************************************************************)
(* The text of a transferred amount: bigint_from_bytes, bigint_format and  *)
(* number_format of bigint.c, and the use the send review makes of them.   *)
(* The widths are constants: on the device a byte has 256 values, a dword  *)
(* 4 bytes, the amount 32 bytes, a limb of the decimal conversion 9 digits *)
(* and a ZNN or QSR amount 8 decimals.  TLC checks two scaled instances.   *)
(***************************************************************************)
EXTENDS Integers, Sequences, SequencesExt, TokenStandard

CONSTANTS
  BYTE,        \* number of values of a byte
  DWORD_BYTES, \* bytes of a dword
  AMOUNT_LEN,  \* bytes of the amount field
  KCCH_BASE,   \* decimal digits of a limb
  DECIMALS,    \* decimals of the two coins
  Amounts,     \* the amounts sent
  Tokens       \* their tokens

(* The number of values of n bytes, and of n decimal digits. *)
Values[n \in Nat] == IF n = 0 THEN 1 ELSE BYTE * Values[n - 1]
Tens[n \in Nat] == IF n = 0 THEN 1 ELSE 10 * Tens[n - 1]

DWORD == Values[DWORD_BYTES]
KU_BASE == Tens[KCCH_BASE]

(* The buffers of the review: amount and g_amount. *)
AMOUNT_SIZE == 81
(* Faulty variant (not part of the model): no room for the terminator.     *)
G_AMOUNT_SIZE_SHORT == 83
G_AMOUNT_SIZE == 84

(* A limb fits a non-negative int32, a dword two limbs; number_format has  *)
(* room for 17 decimals.  The digits of the largest amount, and the limbs  *)
(* they fill, fit the buffer: with limbs of 9 digits, 9 of them.           *)
MAX_DIGITS == 78
ASSUME AmountAssumption ==
  /\ BYTE \in Nat \ {0, 1} /\ DWORD_BYTES \in Nat \ {0} /\ AMOUNT_LEN \in Nat
  /\ KCCH_BASE \in Nat \ {0} /\ DECIMALS \in 1..17
  /\ 2 * KU_BASE <= DWORD /\ DWORD <= KU_BASE * KU_BASE
  /\ \E limbs \in 1..MAX_DIGITS : limbs * KCCH_BASE \in MAX_DIGITS..AMOUNT_SIZE
  /\ Amounts \subseteq [1..AMOUNT_LEN -> 0..BYTE - 1]

Chars == <<"0", "1", "2", "3", "4", "5", "6", "7", "8", "9">>
Digit(d) == Chars[d + 1]
SPACE == "space"
NL == "newline"
NUL == "nul"

-----------------------------------------------------------------------------
(* bigint_from_bytes, for an unsigned big-endian field: leading zero bytes *)
(* are dropped; a value below half a dword is kept in sign, with no dword; *)
(* any other in dwords, the least significant first.                       *)
NatOf(bytes) ==
  LET first[n \in 0..Len(bytes)] ==
        IF n = 0 THEN 0 ELSE first[n - 1] * BYTE + bytes[n]
  IN  first[Len(bytes)]

Significant(bytes) ==
  LET first == SelectInSeq(bytes, LAMBDA b : b # 0)
  IN  IF first = 0 THEN <<>> ELSE SubSeq(bytes, first, Len(bytes))

Dwords(bytes) ==
  LET n == Len(bytes)
      count == (n + DWORD_BYTES - 1) \div DWORD_BYTES
      from(k) == n - k * DWORD_BYTES + 1
  IN  [k \in 1..count |-> NatOf(SubSeq(bytes, IF from(k) < 1 THEN 1 ELSE from(k),
                                       n - (k - 1) * DWORD_BYTES))]

bigint_from_bytes(bytes) ==
  LET sig == Significant(bytes) IN
  IF Len(sig) <= DWORD_BYTES
  THEN IF NatOf(sig) < DWORD \div 2
       THEN [sign |-> NatOf(sig), bits |-> <<>>]
       ELSE [sign |-> 1, bits |-> <<NatOf(sig)>>]
  ELSE [sign |-> 1, bits |-> Dwords(sig)]

-----------------------------------------------------------------------------
(* Faulty variant (not part of the model): the carry makes one new limb.   *)
ShiftInOneLimb(limbs, dword) ==
  LET carry[i \in 0..Len(limbs)] ==
        IF i = 0 THEN dword ELSE (limbs[i] * DWORD + carry[i - 1]) \div KU_BASE
      kept == [i \in 1..Len(limbs) |-> (limbs[i] * DWORD + carry[i - 1]) % KU_BASE]
      left == carry[Len(limbs)]
  IN  kept \o (IF left # 0 THEN <<left % KU_BASE>> ELSE <<>>)

(* The conversion of dwords to limbs of KCCH_BASE digits, least            *)
(* significant limb first.  One dword is shifted in from below: every limb *)
(* is multiplied by DWORD, the carry runs up, and what is left of it makes *)
(* at most two new limbs.                                                  *)
ShiftIn(limbs, dword) ==
  LET carry[i \in 0..Len(limbs)] ==
        IF i = 0 THEN dword ELSE (limbs[i] * DWORD + carry[i - 1]) \div KU_BASE
      kept == [i \in 1..Len(limbs) |-> (limbs[i] * DWORD + carry[i - 1]) % KU_BASE]
      left == carry[Len(limbs)]
  IN  kept \o (IF left # 0 THEN <<left % KU_BASE>> ELSE <<>>)
           \o (IF left \div KU_BASE # 0 THEN <<left \div KU_BASE>> ELSE <<>>)

(* The dwords one after the other, the most significant first.             *)
Limbs(bits) ==
  LET top[n \in 0..Len(bits)] ==
        IF n = 0 THEN <<>> ELSE ShiftIn(top[n - 1], bits[Len(bits) - n + 1])
  IN  top[Len(bits)]

(* Decimal digits, most significant first: all of a limb's, or as many as  *)
(* the value has ("%d", and the loop over the top limb).                   *)
Digits(v, n) == [i \in 1..n |-> Digit((v \div Tens[n - i]) % 10)]
LimbDigits(limb) == Digits(limb, KCCH_BASE)
Numeral(v) ==
  Digits(v, CHOOSE n \in 1..2 * KCCH_BASE : v < Tens[n] /\ (n = 1 \/ v >= Tens[n - 1]))

LimbText(limbs) ==
  LET top[n \in 1..Len(limbs)] ==
        IF n = 1 THEN Numeral(limbs[Len(limbs)])
        ELSE top[n - 1] \o LimbDigits(limbs[Len(limbs) - n + 1])
  IN  top[Len(limbs)]

-----------------------------------------------------------------------------
(* number_format: the decimal point and the trailing zeros, ended by NL.   *)
TrailingZeros(val, decimals) ==
  LET zeros(n) == \A i \in 1..n : i <= Len(val) /\ val[Len(val) - i + 1] = "0"
  IN  CHOOSE n \in 0..decimals : zeros(n) /\ (n = decimals \/ ~zeros(n + 1))

Zeros(n) == [i \in 1..n |-> "0"]

number_format(val, decimals) ==
  LET len == Len(val)
      tz == TrailingZeros(val, decimals)
      position == len - decimals
      text == IF position > 0
              THEN IF decimals > tz
                   THEN SubSeq(val, 1, position) \o <<".">>
                          \o SubSeq(val, position + 1, len - tz)
                   ELSE SubSeq(val, 1, position)
              ELSE IF len > tz
                   THEN <<"0", ".">> \o Zeros(-position) \o SubSeq(val, 1, len - tz)
                   ELSE <<"0">>
  IN  Append(text, NL)

(* bigint_format fills a zeroed buffer.  The digits of dwords end at cchMax *)
(* or out_len; with decimals, their text and the zeros behind it are       *)
(* copied for a length computed from the digits, not from the text, and    *)
(* NL is stored after them.                                                *)
bigint_format(big, decimals, out_len) ==
  IF big.bits = <<>>
  THEN IF decimals > 0 THEN number_format(Numeral(big.sign), decimals)
                       ELSE Append(Numeral(big.sign), NL)
  ELSE LET limbs == Limbs(big.bits)
           digits == LimbText(limbs)
           text == IF decimals > 0 THEN number_format(digits, decimals)
                                   ELSE digits
           cchMax == Len(limbs) * KCCH_BASE
           end == IF out_len >= cchMax THEN cchMax ELSE out_len
           printed == Len(digits) + cchMax - end
           resultLength == (IF decimals < printed THEN printed ELSE decimals + 1)
                             + (IF decimals > 0 THEN 1 ELSE 0)
       IN  Append([i \in 1..resultLength |-> IF i <= Len(text) THEN text[i] ELSE NUL],
                  NL)

AmountChars(bytes, decimals) ==
  bigint_format(bigint_from_bytes(bytes), decimals, AMOUNT_SIZE)

(* What a %s stops at, and what snprintf leaves of a text too long. *)
CString(chars) ==
  LET end == SelectInSeq(chars, LAMBDA c : c = NUL)
  IN  IF end = 0 THEN chars ELSE SubSeq(chars, 1, end - 1)
Cut(chars, size) == IF Len(chars) < size THEN chars ELSE SubSeq(chars, 1, size - 1)

TokenDecimals(zts) == IF zts \in Coins THEN DECIMALS ELSE 0

(* The text of the review: all but the last character, and the symbol.     *)
AmountText(bytes, zts) ==
  LET amount == CString(AmountChars(bytes, TokenDecimals(zts)))
  IN  Cut(Front(amount) \o <<SPACE>> \o zts_symbol(zts), G_AMOUNT_SIZE)

-----------------------------------------------------------------------------
(* One send review's amount: the transaction's fields and the text shown.  *)
VARIABLES amount, token, text

vars == <<amount, token, text>>

Init == amount \in Amounts /\ token \in Tokens /\ text = <<>>

ShowAmount ==
  /\ text = <<>>
  /\ text' = AmountText(amount, token_standard_type(token))
  /\ UNCHANGED <<amount, token>>

Spec == Init /\ [][ShowAmount]_vars

-----------------------------------------------------------------------------
(* The reference: reading a decimal numeral back.  A numeral is a whole    *)
(* part without needless zeros and, after a point, a fraction that does    *)
(* not end in a zero.  Its value is computed on the bytes, in BYTEs: for a *)
(* value that needs more of them the result is longer.                     *)
DigitValue(c) == (CHOOSE d \in 0..9 : Digit(d) = c)
IsDigits(s) == \A i \in 1..Len(s) : s[i] \in ToSet(Chars)

(* From the last byte to the first, the carry in front of those done. *)
TenTimes(byte) ==
  [done \in Seq(Nat) |->
     LET v == byte * 10 + Head(done)
     IN  <<v \div BYTE, v % BYTE>> \o Tail(done)]

TimesTenPlus(d) ==
  [bytes \in Seq(Nat) |->
     LET done[n \in 0..Len(bytes)] ==
           IF n = 0 THEN <<d>> ELSE TenTimes(bytes[Len(bytes) - n + 1])[done[n - 1]]
         all == done[Len(bytes)]
     IN  IF Head(all) = 0 THEN Tail(all) ELSE all]

ReadDigits(s) ==
  LET first[n \in 0..Len(s)] ==
        IF n = 0 THEN [i \in 1..AMOUNT_LEN |-> 0]
        ELSE TimesTenPlus(DigitValue(s[n]))[first[n - 1]]
  IN  first[Len(s)]

Denotes(s, bytes, decimals) ==
  LET point == SelectInSeq(s, LAMBDA c : c = ".")
      whole == IF point = 0 THEN s ELSE SubSeq(s, 1, point - 1)
      frac == IF point = 0 THEN <<>> ELSE SubSeq(s, point + 1, Len(s))
  IN  /\ IsDigits(whole) /\ IsDigits(frac)
      /\ whole # <<>> /\ (whole[1] = "0" => Len(whole) = 1)
      /\ point # 0 => frac # <<>> /\ frac[Len(frac)] # "0"
      /\ Len(frac) <= decimals
      /\ bytes = ReadDigits(whole \o frac \o Zeros(decimals - Len(frac)))

ShownZts == token_standard_type(token)
ShownNumeral == SubSeq(text, 1, SelectInSeq(text, LAMBDA c : c = SPACE) - 1)
WithoutNewline(s) == IF s # <<>> /\ Last(s) = NL THEN Front(s) ELSE s

(* The digits shown for a transfer, and the place of their point, are      *)
(* those of the amount that is signed, whatever its size and trailing      *)
(* zeros (bigint.c).  For a token without decimals nothing else is shown;  *)
(* for the two coins a newline may be.                                     *)
ShownDigitsDenoteAmount ==
  text # <<>> =>
    Denotes(IF ShownZts \in Coins THEN WithoutNewline(ShownNumeral) ELSE ShownNumeral,
            amount, TokenDecimals(ShownZts))

(* The text fits its two buffers, terminators included, up to the largest  *)
(* amount: bigint_format, which copies without looking at the size, stays  *)
(* inside of amount, and the symbol at the end of g_amount is not cut.     *)
ShownTextFits ==
  text # <<>> =>
    /\ Len(AmountChars(amount, TokenDecimals(ShownZts))) < AMOUNT_SIZE
    /\ SubSeq(text, Len(text) - 3, Len(text)) = <<SPACE>> \o zts_symbol(ShownZts)

(* TRANSACTION.md: the text of an amount is its value in units of the coin *)
(* and nothing else.                                                       *)
ShownTextIsAmount ==
  text # <<>> => Denotes(ShownNumeral, amount, TokenDecimals(ShownZts))
=============================================================================
