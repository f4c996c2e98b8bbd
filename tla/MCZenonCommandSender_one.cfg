\* One program, every call; the transaction takes every chunk index.
SPECIFICATION FairSystemSpec
CONSTANTS
  MAX_BIP32_PATH = 2
  TX_LEN = 3
  TRANSACTION_LEN = 3
  BLOCK_TYPE_AT = 2
  SHOWN_AT <- MCShownAt
  Commands <- MCCommands
  MayFail <- CallsExceptSending
  Clients = {c1}
  Requests <- MCRequests
  MAX_APDU_LEN = 1
INVARIANTS
  SessionIsTheClients
  ProperCallNotRefused
PROPERTIES
  CallReturns
  AnswerEventually
