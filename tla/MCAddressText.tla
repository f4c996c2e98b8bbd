--------------------------- MODULE MCAddressText ----------------------------
(* Addresses and tokens for TLC. *)
EXTENDS AddressText

(* The recipient of the transactions in tests/test_sign_cmd.py. *)
TestAddress ==
  <<0, 37, 55, 74, 65, 159, 50, 115, 111, 97, 236, 197, 172, 64, 89, 210, 241,
    181, 136, 77>>
(* "z1qqjnwjjpnue8xmmpanz6csze6tcmtzzdtfsww7" *)
TestText ==
  <<122, 49, 113, 113, 106, 110, 119, 106, 106, 112, 110, 117, 101, 56, 120, 109,
    109, 112, 97, 110, 122, 54, 99, 115, 122, 101, 54, 116, 99, 109, 116, 122, 122,
    100, 116, 102, 115, 119, 119, 55>>

(* An address whose text ends in "qp": the checksum holds without the "q". *)
EndsInQP ==
  <<0, 10, 185, 154, 122, 211, 233, 98, 219, 28, 166, 79, 216, 15, 116, 134, 239,
    22, 134, 22>>

Addresses ==
  {TestAddress, EndsInQP, [i \in 1..20 |-> IF i % 2 = 0 THEN 255 - i ELSE 8 * i]}

(* The hash of a key, the coins, the token of the tests, and one that is nearly a coin. *)
TestToken == <<1, 223, 28, 62, 109, 166, 19, 37, 67, 117>>
NearlyZnn == [znnZtsBytes EXCEPT ![10] = 192]
KeyHash == [i \in 1..32 |-> (91 * i) % 256]
MCPrograms == Addresses \union {KeyHash, znnZtsBytes, znnQsrBytes, TestToken, NearlyZnn}

(* Every border of version and length of the versioned texts.  Two bytes   *)
(* have, as version 1 in the encoding of version 0, a text that ends in    *)
(* "p".                                                                    *)
MCVersions == {-1, 0, 1, 16, 17}
MCWitnessPrograms ==
  {<<0, 20>>}
  \union {[i \in 1..n |-> (37 * i + n) % 256] : n \in {1, 19, 20, 21, 31, 32, 33, 40, 41}}

(* Characters of the alphabet, "q", "p", "l", "x" and "7", and some that   *)
(* are not in it: "1", "b", "o", a capital, a space and one outside ASCII. *)
MCCharacters == {113, 112, 108, 120, 55, ONE, 98, 111, 81, 32, 233}

(* The text the repository's tests give for an address is the one shown.   *)
ShownAddressIsTheTests ==
  prog = TestAddress /\ shown # <<>> => shown = TestText
=============================================================================
