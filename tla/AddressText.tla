---------------------------- MODULE AddressText -----------------------------
(***************************************************************************)
(* The texts of addresses and tokens: address.c, token_standard.c and the  *)
(* two pairs of functions of segwit_addr.c.  A text is shown, a person     *)
(* copies it, and a wallet decodes the copy.  The app shows the texts      *)
(* without a version; those with one are what the library offers besides.  *)
(***************************************************************************)
EXTENDS Bech32, TokenStandard

CONSTANTS
  Programs,         \* the byte strings shown: addresses, tokens, hashes of keys
  Versions,         \* the versions given to segwit_addr_encode, integers
  WitnessPrograms,  \* the byte strings given to it
  Characters        \* what a slip may put into a copy

ZTS_LEN == 10
HASH_LEN == 32

(* segwit_addr.h asks for versions from 0 to 16.  The encoder keeps a byte *)
(* of the version: it refuses what is below 0 as long as that byte does    *)
(* not fit five bits.                                                      *)
ASSUME AddressAssumption ==
  /\ Programs \subseteq Seq(0..255)
  /\ \A p \in Programs : Len(p) \in {ADDRESS_LEN, ZTS_LEN, HASH_LEN}
  /\ Versions \subseteq Int /\ \A v \in Versions : v >= -224
  /\ WitnessPrograms \subseteq Seq(0..255)
  /\ Characters \subseteq 1..255

(* Faulty variant (not part of the model): one character too few.          *)
CopiedShort(text, length) == SubSeq(text, 1, length - 1)

(* The copies take a fixed number of characters whatever was encoded, and  *)
(* terminate them; the text ends at the first 0.                           *)
Copied(text, length) ==
  LET chars == SubSeq(text \o <<0>>, 1, length) \o <<0>>
  IN  SubSeq(chars, 1, SelectInSeq(chars, LAMBDA c : c = 0) - 1)

HRP_ADDRESS == <<122>>            \* "z"
HRP_TOKEN == <<122, 116, 115>>    \* "zts"

(* A buffer too small is refused; <<>> stands for the return value false.  *)
address_encode(prog, out_len) ==
  IF 41 > out_len THEN <<>> ELSE Copied(bech32_addr_encode(HRP_ADDRESS, prog), 40)
(* The address of the key that has this hash. *)
address_from_pubkey(hash, out_len) ==
  address_encode(<<0>> \o SubSeq(hash, 1, ADDRESS_LEN - 1), out_len)

token_standard_encode(prog, out_len) ==
  IF 28 > out_len THEN <<>> ELSE Copied(bech32_addr_encode(HRP_TOKEN, prog), 27)

-----------------------------------------------------------------------------
(* A person copies a text: exactly, in capitals, or with one slip.  One    *)
(* character is misread, left out or made up, or two neighbours are        *)
(* exchanged.                                                              *)
ExactCopies(text) == {text, [i \in 1..Len(text) |-> ToUpper(text[i])]}

Slips(text, characters) ==
  {[text EXCEPT ![i] = ch] : i \in 1..Len(text), ch \in characters}
  \union {RemoveAt(text, i) : i \in 1..Len(text)}
  \union {InsertAt(text, i, ch) : i \in 1..Len(text) + 1, ch \in characters}
  \union {[text EXCEPT ![i] = text[i + 1], ![i + 1] = text[i]] : i \in 1..Len(text) - 1}

InOneCase(text) ==
  ToSet(text) \intersect Lower = {} \/ ToSet(text) \intersect Upper = {}

SameText(c, text) ==
  InOneCase(c) /\ [i \in 1..Len(c) |-> ToLower(c[i])] = text

-----------------------------------------------------------------------------
VARIABLES
  version,  \* <<v>> for a text with version v, <<>> for one without
  prog,     \* the bytes
  phase,    \* "given", "shown" or "copied"
  shown,    \* the text made of them, <<>> if it is refused
  copy      \* the text the wallet receives

vars == <<version, prog, phase, shown, copy>>

Versioned == version # <<>>
IsToken == ~Versioned /\ Len(prog) = ZTS_LEN
IsHash == ~Versioned /\ Len(prog) = HASH_LEN

(* The buffers of the send review. *)
G_ADDRESS_SIZE == 41
G_TOKEN_SIZE == 28

Init ==
  /\ \/ version = <<>> /\ prog \in Programs
     \/ version \in {<<v>> : v \in Versions} /\ prog \in WitnessPrograms
  /\ phase = "given" /\ shown = <<>> /\ copy = <<>>

Show ==
  /\ phase = "given" /\ ~Versioned /\ phase' = "shown"
  /\ shown' = IF IsToken THEN token_standard_encode(prog, G_TOKEN_SIZE)
              ELSE IF IsHash THEN address_from_pubkey(prog, G_ADDRESS_SIZE)
              ELSE address_encode(prog, G_ADDRESS_SIZE)
  /\ UNCHANGED <<version, prog, copy>>

ShowVersioned ==
  /\ phase = "given" /\ Versioned /\ phase' = "shown"
  /\ shown' = segwit_addr_encode(HRP_ADDRESS, version[1], prog)
  /\ UNCHANGED <<version, prog, copy>>

Copy ==
  /\ phase = "shown" /\ shown # <<>> /\ phase' = "copied"
  /\ copy' \in ExactCopies(shown) \union Slips(shown, Characters)
  /\ UNCHANGED <<version, prog, shown>>

Next == Show \/ ShowVersioned \/ Copy

Spec == Init /\ [][Next]_vars

-----------------------------------------------------------------------------
(* What a wallet reads, version first; <<>> if it refuses the copy.  One   *)
(* for tokens knows their length.                                          *)
ReadVersioned ==
  LET decoded == segwit_addr_decode(HRP_ADDRESS, copy)
  IN  IF decoded = NotSegwit THEN <<>> ELSE <<decoded.witver>> \o decoded.witprog

ReadToken ==
  LET decoded == bech32_decode(copy)
      bytes == convert_bits(8, decoded.data, 5, FALSE)
  IN  IF decoded.hrp = HRP_TOKEN /\ Len(bytes) = ZTS_LEN THEN bytes ELSE <<>>

ReadBack ==
  IF Versioned THEN ReadVersioned
  ELSE IF IsToken THEN ReadToken
  ELSE bech32_addr_decode(HRP_ADDRESS, copy)

(* TRANSACTION.md: a user's address is 0x00 and the first 19 bytes of the  *)
(* hash of the key.                                                        *)
Meant ==
  IF IsHash THEN [i \in 1..ADDRESS_LEN |-> IF i = 1 THEN 0 ELSE prog[i - 1]]
  ELSE version \o prog

(* segwit_addr.h: versions from 0 to 16, programs of 2 to 40 bytes; of     *)
(* version 0 there are only two lengths.                                   *)
Proper ==
  Versioned =>
    /\ version[1] \in 0..16 /\ Len(prog) \in 2..40
    /\ version[1] = 0 => Len(prog) \in {20, 32}

(* Every proper program gets a text and no other does, also when the       *)
(* version given does not fit five bits; and the buffers of the review     *)
(* suffice.                                                                *)
EncodesWhatIsProper == phase # "given" => (shown # <<>> <=> Proper)

(* A copy that is the shown text, in either case, reads back as the bytes  *)
(* that are meant: no fixed length or buffer of the encoders cuts it.      *)
ExactCopyReadsBack ==
  phase = "copied" /\ SameText(copy, shown) => ReadBack = Meant

(* A copy with a slip is refused: it never reads back, as the same bytes   *)
(* or as others.  The checksum of segwit_addr.c and the lengths the        *)
(* decoders insist on see to it: of a text without a version every slip is *)
(* noticed, of one with a version every character misread and every pair   *)
(* exchanged.                                                              *)
BadCopyRefused ==
  phase = "copied" /\ ReadBack # <<>> /\ (Versioned => Len(copy) = Len(shown))
    => SameText(copy, shown)

(* Where the length varies the checksum alone has to notice a character    *)
(* made up or left out.  The one of Bech32 misses some before a last "p",  *)
(* so versions from 1 on have that of Bech32m.                             *)
VersionedLengthKept ==
  phase = "copied" /\ Versioned /\ ReadBack # <<>> => Len(copy) = Len(shown)

(* The bytes token_standard_type takes for a coin, and no others, have the *)
(* text that is the coin's name, "zts1" and "znn" or "qsr" filled up with  *)
(* "x", and then the checksum.                                             *)
CoinText(zts) ==
  HRP_TOKEN \o <<ONE>> \o (IF zts = "ZNN" THEN <<122, 110, 110>> ELSE <<113, 115, 114>>)
    \o [i \in 1..13 |-> 120]
CoinsAreNamedInTheirText ==
  phase # "given" /\ IsToken =>
    \A zts \in Coins : token_standard_type(prog) = zts <=> IsPrefix(CoinText(zts), shown)
=============================================================================
