\* Every order of commands, choices, exits and library failures; the app
\* implements SigningPromise.
SPECIFICATION Spec
CONSTANTS
  MAX_BIP32_PATH = 2
  TX_LEN = 3
  TRANSACTION_LEN = 3
  BLOCK_TYPE_AT = 2
  SHOWN_AT <- MCShownAt
  Commands <- MCCommands
  MayFail <- LibraryCalls
INVARIANTS
  TypeOK
  AwaitingIffReview
  ReviewMatchesContext
PROPERTIES
  SignedIsWhatWasShown
  AnsweredKeyIsWhatWasShown
  KeepsSigningPromise
