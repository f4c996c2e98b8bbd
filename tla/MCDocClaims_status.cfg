\* A derivation that fails.
SPECIFICATION FairSpec
CONSTANTS
  MAX_BIP32_PATH = 2
  TX_LEN = 3
  TRANSACTION_LEN = 3
  BLOCK_TYPE_AT = 2
  SHOWN_AT <- MCShownAt
  Commands <- MCCommands
  MayFail = {"bip32_derive_get_pubkey"}
INVARIANT StatusIsDocumented
