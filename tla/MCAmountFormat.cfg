\* The 32 bytes and 8 decimals of the device; dwords of two bytes and limbs
\* of four digits.
SPECIFICATION Spec
CONSTANTS
  BYTE = 256
  DWORD_BYTES = 2
  AMOUNT_LEN = 32
  KCCH_BASE = 4
  DECIMALS = 8
  Amounts <- SampleAmounts
  Tokens <- CoinsAndToken
INVARIANTS
  ShownDigitsDenoteAmount
  ShownTextFits
CHECK_DEADLOCK FALSE
