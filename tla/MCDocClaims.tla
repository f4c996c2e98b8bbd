----------------------------- MODULE MCDocClaims -----------------------------
(* What the documentation and the interface say of the program where the   *)
(* code does otherwise.  Each is the only property of a run that TLC ends  *)
(* with a counterexample.                                                  *)
EXTENDS MCZenonApp

(* The commands of a host written from the SIGN_TX table of COMMANDS.md:   *)
(* P2 is 0x00 for "more" and 0x80 for "last".                              *)
DocumentedCommands ==
  {Cmd(SIGN_TX, 0, 0, data) : data \in {<<1, 1>>, <<2, 1, 2>>}}
    \union {Cmd(SIGN_TX, 1, p2, <<u, v>>) : p2 \in {0, 128}, u, v \in Units}
    \union {Cmd(SIGN_TX, 2, 128, <<u>>) : u \in Units}

(* A host that follows the table never sees "Either P1 or P2 is incorrect" *)
(* (dispatcher.c checks the opposite values).                              *)
DocumentedP1P2Accepted == reply.sw # "SW_WRONG_P1P2"

(* sign_tx.h: the transaction is signed if the BIP32 path is successfully  *)
(* parsed, so no review opens for a path length that cannot be.            *)
ReviewedPathWasParsed ==
  screen.page = "transaction" => ctx.bip32.len \in 1..MAX_BIP32_PATH

(* COMMANDS.md lists the status words (handler_get_public_key answers the  *)
(* error of the cryptographic library itself).                             *)
DocumentedStatusWords ==
  {"SW_DENY", "SW_WRONG_P1P2", "SW_WRONG_DATA_LENGTH", "SW_INS_NOT_SUPPORTED",
   "SW_CLA_NOT_SUPPORTED", "SW_WRONG_RESPONSE_LENGTH",
   "SW_DISPLAY_BIP32_PATH_FAIL", "SW_DISPLAY_ADDRESS_FAIL",
   "SW_DISPLAY_AMOUNT_FAIL", "SW_WRONG_TX_LENGTH", "SW_TX_PARSING_FAIL",
   "SW_TX_HASH_FAIL", "SW_BAD_STATE", "SW_SIGNATURE_FAIL", "SW_OK"}
StatusIsDocumented == reply.sw \in DocumentedStatusWords \union {"none"}

(* COMMANDS.md: SW_SIGNATURE_FAIL means the signature failed, so the user  *)
(* is not told at that moment that the transaction was signed.             *)
FailedSignatureNotShownAsSigned ==
  [][reply'.sw = "SW_SIGNATURE_FAIL" /\ reply' # reply =>
       screen'.page # "TRANSACTION_SIGNED"]_vars
=============================================================================
