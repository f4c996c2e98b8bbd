\* A host that follows the P2 values of COMMANDS.md.
SPECIFICATION FairSpec
CONSTANTS
  MAX_BIP32_PATH = 2
  TX_LEN = 3
  TRANSACTION_LEN = 3
  BLOCK_TYPE_AT = 2
  SHOWN_AT <- MCShownAt
  Commands <- DocumentedCommands
  MayFail = {}
INVARIANT DocumentedP1P2Accepted
