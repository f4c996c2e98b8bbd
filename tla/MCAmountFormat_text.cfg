\* Bytes of two bits, dwords of 256, limbs of two digits, two decimals:
\* every amount of two dwords.
SPECIFICATION Spec
CONSTANTS
  BYTE = 4
  DWORD_BYTES = 4
  AMOUNT_LEN = 8
  KCCH_BASE = 2
  DECIMALS = 2
  Amounts <- EveryAmount
  Tokens <- CoinAndToken
INVARIANT ShownTextIsAmount
CHECK_DEADLOCK FALSE
