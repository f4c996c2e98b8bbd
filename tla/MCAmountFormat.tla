--------------------------- MODULE MCAmountFormat ---------------------------
(* Amounts for TLC: every one of a small scale, and samples of the real    *)
(* length.                                                                 *)
EXTENDS AmountFormat

EveryAmount == [1..AMOUNT_LEN -> 0..BYTE - 1]

(* Numerals with n zeros or nines, of every length a field can hold, and   *)
(* the amounts of tests/test_sign_cmd.py: 999 ZNN and 666.999 QSR.         *)
Lengths == 0..77
Numerals ==
  UNION {{<<"1">> \o Zeros(n), <<"1">> \o Zeros(n) \o <<"1">>,
          [i \in 1..n + 1 |-> "9"], <<"2", "5">> \o Zeros(n - 1)} : n \in Lengths}
  \union {<<"9", "9", "9">> \o Zeros(8), <<"6", "6", "6", "9", "9", "9">> \o Zeros(5)}

(* Bytes around the borders of a dword, and the largest amount. *)
FirstByte(first, n, rest) ==
  [i \in 1..AMOUNT_LEN |-> CASE i < n -> 0 [] i = n -> first [] OTHER -> rest]
Borders ==
  {FirstByte(first, n, rest) : first \in {1, 127, 128, 255}, n \in 1..AMOUNT_LEN,
                               rest \in {0, 255}}

(* Every amount of two dwords made of a few bytes, around the borders of a *)
(* limb (10000 = 39 * 256 + 16) and of half a dword.                       *)
LowBytes == {0, 1, 2, 15, 16, 39, 40, 127, 128, 254, 255}
TwoDwords ==
  {[i \in 1..AMOUNT_LEN |-> IF i <= AMOUNT_LEN - 4 THEN 0 ELSE low[i - AMOUNT_LEN + 4]] :
     low \in [1..4 -> LowBytes]}

SampleAmounts ==
  {bytes \in {ReadDigits(s) : s \in Numerals} \union Borders \union TwoDwords :
     Len(bytes) = AMOUNT_LEN}

OtherToken == <<1, 223, 28, 62, 109, 166, 19, 37, 67, 117>>
CoinAndToken == {znnZtsBytes, OtherToken}
CoinsAndToken == {znnZtsBytes, znnQsrBytes, OtherToken}
=============================================================================
