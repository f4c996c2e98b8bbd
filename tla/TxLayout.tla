------------------------------ MODULE TxLayout ------------------------------
(***************************************************************************)
(* transaction_deserialize and transaction_serialize, field by field.  The *)
(* parser moves an offset through the buffer and notes where each field    *)
(* lies; the serialiser copies the fields back.  A byte of the buffer is   *)
(* abstracted to its position, so comparing contents compares places.      *)
(***************************************************************************)
EXTENDS Integers, Sequences

CONSTANT MaxSize   \* of the buffers handed to the parser and the serialiser

ASSUME SizeAssumption == MaxSize \in Nat

(* Faulty variant (not part of the model): a length without the momentum's *)
(* height.                                                                 *)
TX_LEN_SHORT == 298

TX_LEN == 306
ADDRESS_LEN == 20
HASH_LEN == 32
ZTS_LEN == 10

Field(name, size) == [name |-> name, size |-> size]

(* The reads of the parser, in its order: 8-byte numbers are read, every   *)
(* other field is pointed at and skipped.                                  *)
Reads ==
  <<Field("version", 8), Field("chainIdentifier", 8), Field("blockType", 8),
    Field("previousHash", HASH_LEN), Field("height", 8),
    Field("momentumAcknowledged", HASH_LEN + 8),
    Field("address", ADDRESS_LEN), Field("toAddress", ADDRESS_LEN),
    Field("amount", 32), Field("tokenStandard", ZTS_LEN),
    Field("fromBlockHash", HASH_LEN), Field("descendentBlocks", HASH_LEN),
    Field("data", HASH_LEN), Field("fusedPlasma", 8), Field("difficulty", 8),
    Field("nonce", 8)>>

(* Faulty variant (not part of the model): two hashes are exchanged.       *)
WritesExchanged == [Reads EXCEPT ![11] = Reads[12], ![12] = Reads[11]]

(* The copies of the serialiser, in its order. *)
Writes ==
  <<Field("version", 8), Field("chainIdentifier", 8), Field("blockType", 8),
    Field("previousHash", HASH_LEN), Field("height", 8),
    Field("momentumAcknowledged", HASH_LEN + 8),
    Field("address", ADDRESS_LEN), Field("toAddress", ADDRESS_LEN),
    Field("amount", 32), Field("tokenStandard", ZTS_LEN),
    Field("fromBlockHash", HASH_LEN), Field("descendentBlocks", HASH_LEN),
    Field("data", HASH_LEN), Field("fusedPlasma", 8), Field("difficulty", 8),
    Field("nonce", 8)>>

Names == {Reads[i].name : i \in DOMAIN Reads}

VARIABLES
  size,    \* of the parser's buffer
  out_len, \* of the serialiser's buffer, 0 before there is one
  offset,  \* the parser's position, then the serialiser's
  done,    \* fields read, then fields written
  start,   \* where each field read so far begins (0-based), -1 before
  status,  \* "checking", "parsing", the parser's verdict, "serializing",
           \* "done", or "REFUSED" by the serialiser (-1)
  out      \* the serialiser's output: the position each byte came from

vars == <<size, out_len, offset, done, start, status, out>>

Init ==
  /\ size \in 0..MaxSize
  /\ out_len = 0
  /\ offset = 0 /\ done = 0
  /\ start = [n \in Names |-> -1]
  /\ status = "checking"
  /\ out = <<>>

CheckLength ==
  /\ status = "checking"
  /\ status' = IF size = TX_LEN THEN "parsing" ELSE "WRONG_LENGTH_ERROR"
  /\ UNCHANGED <<size, out_len, offset, done, start, out>>

(* buffer_read_u64 and buffer_seek_cur refuse to pass the buffer's end. *)
ReadField ==
  /\ status = "parsing" /\ done < Len(Reads)
  /\ LET field == Reads[done + 1] IN
     IF offset + field.size > size
     THEN /\ status' = "PARSING_ERROR"
          /\ UNCHANGED <<offset, done, start>>
     ELSE /\ start' = [start EXCEPT ![field.name] = offset]
          /\ offset' = offset + field.size
          /\ done' = done + 1
          /\ UNCHANGED status
  /\ UNCHANGED <<size, out_len, out>>

EndOfParsing ==
  /\ status = "parsing" /\ done = Len(Reads)
  /\ status' = IF offset = size THEN "PARSING_OK" ELSE "WRONG_LENGTH_ERROR"
  /\ UNCHANGED <<size, out_len, offset, done, start, out>>

(* A caller serialises what it parsed, into a buffer of any size.  One     *)
(* that is too small is refused.                                           *)
StartSerializing ==
  /\ status = "PARSING_OK"
  /\ out_len' \in 0..MaxSize
  /\ status' = IF TX_LEN > out_len' THEN "REFUSED" ELSE "serializing"
  /\ offset' = 0 /\ done' = 0
  /\ UNCHANGED <<size, start, out>>

WriteField ==
  /\ status = "serializing" /\ done < Len(Writes)
  /\ LET field == Writes[done + 1] IN
     /\ out' = out \o [i \in 1..field.size |-> start[field.name] + i]
     /\ offset' = offset + field.size
     /\ done' = done + 1
  /\ status' = IF done' = Len(Writes) THEN "done" ELSE status
  /\ UNCHANGED <<size, out_len, start>>

Next ==
  CheckLength \/ ReadField \/ EndOfParsing \/ StartSerializing \/ WriteField

Spec == Init /\ [][Next]_vars

-----------------------------------------------------------------------------
(* The length check at the head of transaction_deserialize decides: a      *)
(* buffer of TX_LEN bytes parses, no read of a field can fail after it and *)
(* the final comparison of offset and size cannot either.  (TX_LEN is      *)
(* written beside the field sizes, not computed from them.)                *)
ParsingFailsOnlyOnLength ==
  /\ status # "PARSING_ERROR"
  /\ status = "WRONG_LENGTH_ERROR" => size # TX_LEN

(* Serialising what was parsed gives the bytes that were parsed, and never *)
(* writes past the end of the output: one comparison of its size with      *)
(* TX_LEN, before the first field, stands for all the copies after it      *)
(* (transaction_serialize).                                                *)
SerializingRestoresBytes ==
  /\ status = "done" => out = [i \in 1..TX_LEN |-> i]
  /\ Len(out) <= out_len
=============================================================================
