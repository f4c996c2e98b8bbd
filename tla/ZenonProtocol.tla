---------------------------- MODULE ZenonProtocol ----------------------------
(***************************************************************************)
(* The host-visible protocol of the Ledger app: the APDU instructions and  *)
(* their P1/P2 values, the dispatcher's verdict on a command, the context  *)
(* record G_context and the way a BIP32 path is read into it.              *)
(*                                                                         *)
(* Bytes are abstracted to "units" (natural numbers): a unit stands for a  *)
(* 32-bit path component in path data and for a whole field in transaction *)
(* data.  Public keys, digests and signatures are symbolic one-way terms,  *)
(* <<x>> standing for the value computed from x and <<>> for zeroed bytes. *)
(***************************************************************************)
EXTENDS Integers, Sequences

CONSTANTS
  MAX_BIP32_PATH,   \* components the context can hold (10 on the device)
  TX_LEN,           \* length transaction_deserialize insists on (tx_types.h)
  TRANSACTION_LEN,  \* capacity of raw_tx (constants.h)
  BLOCK_TYPE_AT,    \* position of blockType in the serialised transaction
  SHOWN_AT          \* positions of the fields a send review displays

(* tx_types.h and constants.h define the two lengths separately; both are  *)
(* 306, and the positions lie inside the serialised transaction.           *)
ASSUME ProtocolAssumption ==
  /\ MAX_BIP32_PATH \in Nat \ {0}
  /\ TX_LEN \in Nat \ {0}
  /\ TRANSACTION_LEN = TX_LEN
  /\ BLOCK_TYPE_AT \in 1..TX_LEN
  /\ SHOWN_AT \in Seq(1..TX_LEN)

-----------------------------------------------------------------------------
(* APDU header values. *)
CLA == 224
GET_VERSION == 3
GET_APP_NAME == 4
GET_PUBLIC_KEY == 5
SIGN_TX == 6

P1_START == 0
(* Faulty variant (not part of the model): one chunk less. *)
P1_MAX_SHORT == 2

P1_MAX == 3
P2_LAST == 0
P2_MORE == 128

Command == [cla : Nat, ins : Nat, p1 : Nat, p2 : Nat, data : Seq(Nat)]

(* The P1/P2 combinations each instruction refuses. *)
BadP1P2(cmd) ==
  \/ /\ cmd.ins \in {GET_VERSION, GET_APP_NAME}
     /\ cmd.p1 # 0 \/ cmd.p2 # 0
  \/ /\ cmd.ins = GET_PUBLIC_KEY
     /\ cmd.p1 > 1 \/ cmd.p2 > 0
  \/ /\ cmd.ins = SIGN_TX
     /\ \/ cmd.p1 = P1_START /\ cmd.p2 # P2_MORE
        \/ cmd.p1 > P1_MAX
        \/ cmd.p2 \notin {P2_LAST, P2_MORE}

(* The status word apdu_dispatcher refuses a command with before any       *)
(* handler runs, "SW_OK" when it hands the command over.  The parser sets  *)
(* data to NULL when Lc is 0: here, no data is the empty sequence.         *)
Verdict(cmd) ==
  IF cmd.cla # CLA THEN "SW_CLA_NOT_SUPPORTED"
  ELSE IF cmd.ins \notin {GET_VERSION, GET_APP_NAME, GET_PUBLIC_KEY, SIGN_TX}
    THEN "SW_INS_NOT_SUPPORTED"
  ELSE IF BadP1P2(cmd) THEN "SW_WRONG_P1P2"
  ELSE IF cmd.ins \in {GET_PUBLIC_KEY, SIGN_TX} /\ cmd.data = <<>>
    THEN "SW_WRONG_DATA_LENGTH"
  ELSE "SW_OK"

Dispatched(cmd, ins) == cmd.ins = ins /\ Verdict(cmd) = "SW_OK"

-----------------------------------------------------------------------------
(* G_context.  raw_tx_len is Len(raw_tx); the transaction's pointers point *)
(* into raw_tx and are read from it.  public_key and tx_info share storage *)
(* (a union): member is the one written last.                              *)
Path == [len : Nat, path : [1..MAX_BIP32_PATH -> Nat]]
Key == Seq(Path)
Hash == Seq(Seq(Nat))

Context ==
  [state : {"STATE_NONE", "STATE_PARSED", "STATE_APPROVED"},
   req_type : {"CONFIRM_ADDRESS", "CONFIRM_TRANSACTION"},
   bip32 : Path,
   member : {"none", "public_key", "tx_info"},
   public_key : Key,
   raw_tx : Seq(Nat),
   m_hash : Hash]

(* All bytes zero: STATE_NONE and CONFIRM_ADDRESS are the enums' zeros. *)
ZeroContext ==
  [state |-> "STATE_NONE",
   req_type |-> "CONFIRM_ADDRESS",
   bip32 |-> [len |-> 0, path |-> [i \in 1..MAX_BIP32_PATH |-> 0]],
   member |-> "none",
   public_key |-> <<>>,
   raw_tx |-> <<>>,
   m_hash |-> <<>>]

(* buffer_read_u8 and buffer_read_bip32_path: the announced length is      *)
(* stored whatever it is; components are stored until the data runs out,   *)
(* none when the announced length is 0 or exceeds the capacity.  Trailing  *)
(* data is ignored.                                                        *)
PathLenOK(data) == data[1] \in 1..MAX_BIP32_PATH
PathOK(data) == PathLenOK(data) /\ data[1] < Len(data)

PathRead(data) ==
  [len |-> data[1],
   path |-> [i \in 1..MAX_BIP32_PATH |->
              IF PathLenOK(data) /\ i <= data[1] /\ i < Len(data)
              THEN data[i + 1] ELSE 0]]

(* The key pair SLIP-10 derives for a path and the SHA3-256 digest. *)
KeyOf(path) == <<path>>
Sha3(raw) == <<raw>>
=============================================================================
