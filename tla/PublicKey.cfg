\* 109 = 5 (mod 8), as 2^255 - 19; D is not a square.
SPECIFICATION Spec
CONSTANTS
  BYTE = 4
  PUBKEY_LEN = 4
  FIELD = 109
  D = 2
INVARIANT HostReadsThePoint
CHECK_DEADLOCK FALSE
