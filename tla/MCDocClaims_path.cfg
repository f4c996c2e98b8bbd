\* A session opened by a path that was refused.
SPECIFICATION FairSpec
CONSTANTS
  MAX_BIP32_PATH = 2
  TX_LEN = 3
  TRANSACTION_LEN = 3
  BLOCK_TYPE_AT = 2
  SHOWN_AT <- MCShownAt
  Commands <- MCCommands
  MayFail = {}
INVARIANT ReviewedPathWasParsed
