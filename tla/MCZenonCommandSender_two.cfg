\* Two programs share the device.
SPECIFICATION SystemSpec
CONSTANTS
  MAX_BIP32_PATH = 2
  TX_LEN = 3
  TRANSACTION_LEN = 3
  BLOCK_TYPE_AT = 2
  SHOWN_AT <- MCShownAt
  Commands <- MCCommands
  MayFail <- LibraryCalls
  Clients = {c1, c2}
  Requests <- FewRequests
  MAX_APDU_LEN = 2
SYMMETRY AnyClient
INVARIANTS
  SystemTypeOK
  SessionIsTheClients
  SignatureIsOwn
  KeyIsOwn
  ProperCallNotRefused
