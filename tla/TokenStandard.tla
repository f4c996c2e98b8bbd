---------------------------- MODULE TokenStandard ----------------------------
(* The two coins of the network among its tokens: token_standard_type, and *)
(* what the send review says of each.                                      *)
EXTENDS Sequences

(* Faulty variant (not part of the model): a byte of the table is wrong.   *)
znnZtsBytesMistyped == <<20, 230, 99, 24, 198, 49, 140, 99, 24, 192>>

znnZtsBytes == <<20, 230, 99, 24, 198, 49, 140, 99, 24, 198>>
znnQsrBytes == <<4, 6, 99, 24, 198, 49, 140, 99, 24, 198>>

token_standard_type(prog) ==
  IF prog = znnZtsBytes THEN "ZNN"
  ELSE IF prog = znnQsrBytes THEN "QSR"
  ELSE "ZTS"

Coins == {"ZNN", "QSR"}

zts_symbol(zts) ==
  CASE zts = "ZNN" -> <<"Z", "N", "N">>
    [] zts = "QSR" -> <<"Q", "S", "R">>
    [] zts = "ZTS" -> <<"Z", "T", "S">>
=============================================================================
