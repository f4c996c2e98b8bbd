------------------------------ MODULE PublicKey ------------------------------
(***************************************************************************)
(* The bytes of a public key, from the point the library derives, through  *)
(* handler_get_public_key and the response, to the program that unpacks    *)
(* them.  ZenonApp abstracts all of it.                                    *)
(*                                                                         *)
(* The curve is a twisted Edwards curve like Ed25519, over a field of      *)
(* FIELD elements: -x^2 + y^2 = 1 + D x^2 y^2.  A byte has BYTE values and *)
(* a coordinate PUBKEY_LEN bytes; on the device 256 and 32.                *)
(***************************************************************************)
EXTENDS Integers, Sequences

CONSTANTS BYTE, PUBKEY_LEN, FIELD, D

(* The number of values of n bytes. *)
Values[n \in 0..PUBKEY_LEN] == IF n = 0 THEN 1 ELSE BYTE * Values[n - 1]

(* FIELD is a prime, and D neither 0 nor -1 in the field; the highest bit  *)
(* of the last byte is not needed for a coordinate.                        *)
ASSUME KeyAssumption ==
  /\ BYTE \in Nat \ {0} /\ BYTE % 2 = 0 /\ PUBKEY_LEN \in Nat \ {0}
  /\ FIELD \in Nat /\ D \in 1..FIELD - 2
  /\ \A a, b \in 1..FIELD - 1 : (a * b) % FIELD # 0
  /\ 2 * FIELD <= Values[PUBKEY_LEN]

OnCurve(x, y) ==
  (y * y - x * x - 1 - ((D * x * x) % FIELD) * ((y * y) % FIELD)) % FIELD = 0
Points == {p \in [x : 0..FIELD - 1, y : 0..FIELD - 1] : OnCurve(p.x, p.y)}

(* The library's form: a format byte and two big-endian coordinates.       *)
BigEndian(v) == [i \in 1..PUBKEY_LEN |-> (v \div Values[PUBKEY_LEN - i]) % BYTE]
RawPublicKey(p) == <<1>> \o BigEndian(p.x) \o BigEndian(p.y)

VARIABLES
  point,     \* the point of the path asked for
  raw,       \* raw_public_key, <<>> before it is derived
  key,       \* G_context.public_key
  response   \* the data of the answer

vars == <<point, raw, key, response>>

Init == point \in Points /\ raw = <<>> /\ key = <<>> /\ response = <<>>

Derive ==
  /\ raw = <<>>
  /\ raw' = RawPublicKey(point)
  /\ UNCHANGED <<point, key, response>>

(* Byte i of the C array is element i + 1. *)
AtRaw(i) == raw[i + 1]

(* Faulty variant (not part of the model): the parity is that of y.        *)
IsOddOfY == AtRaw(2 * PUBKEY_LEN) % 2 # 0

IsOdd == AtRaw(PUBKEY_LEN) % 2 # 0

(* The y coordinate in reverse, and the parity of x in its highest bit.    *)
Compressed ==
  LET y(i) == AtRaw(2 * PUBKEY_LEN - i)
      half == BYTE \div 2
  IN  [i \in 1..PUBKEY_LEN |->
         IF i = PUBKEY_LEN /\ IsOdd /\ y(i - 1) < half THEN y(i - 1) + half
                                                     ELSE y(i - 1)]

Compress ==
  /\ raw # <<>> /\ key = <<>>
  /\ key' = Compressed
  /\ UNCHANGED <<point, raw, response>>

(* helper_send_response_pubkey: the length goes before the key. *)
SendResponse ==
  /\ key # <<>> /\ response = <<>>
  /\ response' = <<PUBKEY_LEN>> \o key
  /\ UNCHANGED <<point, raw, key>>

Next == Derive \/ Compress \/ SendResponse

Spec == Init /\ [][Next]_vars

-----------------------------------------------------------------------------
(* unpack_get_public_key_response, and the point a host makes of the key.  *)
Unpacked == SubSeq(response, 2, response[1] + 1)

(* The number made of the last n of some little-endian bytes.              *)
LittleEndian(bytes) ==
  LET last[n \in 0..Len(bytes)] ==
        IF n = 0 THEN 0 ELSE last[n - 1] * BYTE + bytes[Len(bytes) - n + 1]
  IN  last

Decompressed(bytes) ==
  LET half == Values[PUBKEY_LEN] \div 2
      v == LittleEndian(bytes)[Len(bytes)]
  IN  {p \in Points : p.y = v % half /\ p.x % 2 = v \div half}

(* The host makes of the answer the very point that was derived, and no    *)
(* other point fits: reversal, sign bit and framing lose nothing, for      *)
(* whichever parities of the two coordinates.                              *)
HostReadsThePoint ==
  response # <<>> =>
    /\ Len(response) = response[1] + 1
    /\ Decompressed(Unpacked) = {point}
=============================================================================
