--------------------------- MODULE TxLayoutProofs ---------------------------
(***************************************************************************)
(* Proofs about TxLayout: for buffers of any size.                         *)
(*                                                                         *)
(* The field sizes and TX_LEN are written in different places of the code. *)
(* The proofs rest on one table, the end of each field, and on its last    *)
(* entry being TX_LEN.                                                     *)
(***************************************************************************)
EXTENDS TxLayout, SequenceTheorems, TLAPS

(* Where the first k fields end is Ends[k + 1]. *)
Ends == <<0, 8, 16, 24, 56, 64, 104, 124, 144, 176, 186, 218, 250, 282, 290, 298, 306>>

(* The name of each field. *)
NameOf ==
  <<"version", "chainIdentifier", "blockType", "previousHash", "height",
    "momentumAcknowledged", "address", "toAddress", "amount", "tokenStandard",
    "fromBlockHash", "descendentBlocks", "data", "fusedPlasma", "difficulty",
    "nonce">>

-----------------------------------------------------------------------------
(* The name and the size of a field. *)
LEMMA FieldParts ==
  ASSUME NEW name, NEW bytes
  PROVE  Field(name, bytes).name = name /\ Field(name, bytes).size = bytes
BY DEF Field

(* What the parser reads is what the table says, and the serialiser writes *)
(* the same fields.                                                        *)
LEMMA Table ==
  /\ Len(Reads) = 16 /\ Writes = Reads
  /\ \A k \in 1..16 :
       /\ Reads[k].name = NameOf[k]
       /\ Reads[k].size = Ends[k + 1] - Ends[k]
<1>1. Len(Reads) = 16 /\ Writes = Reads
  BY DEF Reads, Writes
<1>2. ASSUME NEW k \in 1..16
      PROVE  Reads[k].name = NameOf[k] /\ Reads[k].size = Ends[k + 1] - Ends[k]
  <2>1. k \in {1, 2, 3, 4, 5, 6, 7, 8, 9, 10, 11, 12, 13, 14, 15, 16}
    OBVIOUS
  <2> QED
    BY <2>1, FieldParts DEF Reads, NameOf, Ends, ADDRESS_LEN, HASH_LEN, ZTS_LEN
<1> QED
  BY <1>1, <1>2

(* The ends go up from 0 to TX_LEN. *)
LEMMA EndsGoUp ==
  /\ Ends[1] = 0 /\ Ends[17] = TX_LEN /\ TX_LEN \in Nat
  /\ \A k \in 1..17 : Ends[k] \in Nat /\ Ends[k] <= TX_LEN
  /\ \A k \in 1..16 : Ends[k] < Ends[k + 1]
<1>1. \A k \in 1..17 : k \in {1, 2, 3, 4, 5, 6, 7, 8, 9, 10, 11, 12, 13, 14, 15, 16, 17}
  OBVIOUS
<1>2. \A k \in 1..16 : k \in {1, 2, 3, 4, 5, 6, 7, 8, 9, 10, 11, 12, 13, 14, 15, 16}
  OBVIOUS
<1> QED
  BY <1>1, <1>2 DEF Ends, TX_LEN

(* The names are those of the fields read. *)
LEMMA NamesAreTable == \A k \in 1..16 : NameOf[k] \in Names
BY Table DEF Names

(* The field after the first n of them. *)
LEMMA NextField ==
  ASSUME NEW n \in 0..15
  PROVE  /\ Reads[n + 1].name = NameOf[n + 1] /\ NameOf[n + 1] \in Names
         /\ Reads[n + 1].size \in Nat
         /\ Ends[n + 1] + Reads[n + 1].size = Ends[(n + 1) + 1]
         /\ Ends[n + 1] \in Nat /\ Ends[(n + 1) + 1] \in Nat
         /\ Ends[(n + 1) + 1] <= TX_LEN
<1> DEFINE k == n + 1
<1>1. k \in 1..16 /\ k \in 1..17 /\ k + 1 \in 1..17
  OBVIOUS
<1> HIDE DEF k
<1>2. Ends[k] \in Nat /\ Ends[k + 1] \in Nat /\ Ends[k + 1] <= TX_LEN /\ Ends[k] < Ends[k + 1]
  BY <1>1, EndsGoUp
<1>3. Reads[k].name = NameOf[k] /\ Reads[k].size = Ends[k + 1] - Ends[k]
  BY <1>1, Table
<1>4. NameOf[k] \in Names
  BY <1>1, NamesAreTable
<1>5. Reads[k].size \in Nat /\ Ends[k] + Reads[k].size = Ends[k + 1]
  BY <1>2, <1>3
<1> QED
  BY <1>2, <1>3, <1>4, <1>5 DEF k

(* No two fields have the same name. *)
LEMMA NamesDiffer ==
  ASSUME NEW j \in 1..16, NEW k \in 1..16, NameOf[j] = NameOf[k]
  PROVE  j = k
<1>1. /\ j \in {1, 2, 3, 4, 5, 6, 7, 8, 9, 10, 11, 12, 13, 14, 15, 16}
      /\ k \in {1, 2, 3, 4, 5, 6, 7, 8, 9, 10, 11, 12, 13, 14, 15, 16}
  OBVIOUS
<1> QED
  BY <1>1 DEF NameOf

-----------------------------------------------------------------------------
(* The inductive invariant: after k fields the offset is where they end;   *)
(* each field read begins where the one before it ended; and what was      *)
(* written is the beginning of what was read.                              *)
ParsingInv ==
  status = "parsing" =>
    /\ size = TX_LEN
    /\ done \in 0..16 /\ offset = Ends[done + 1]
    /\ start \in [Names -> Int]
    /\ \A k \in 1..done : start[NameOf[k]] = Ends[k]
    /\ out = <<>> /\ out_len = 0

ParsedInv ==
  status = "PARSING_OK" =>
    /\ size = TX_LEN
    /\ \A k \in 1..16 : start[NameOf[k]] = Ends[k]
    /\ out = <<>> /\ out_len = 0

SerializingInv ==
  status \in {"serializing", "done"} =>
    /\ done \in 0..16 /\ offset = Ends[done + 1]
    /\ status = "serializing" => done < 16
    /\ status = "done" => done = 16
    /\ \A k \in 1..16 : start[NameOf[k]] = Ends[k]
    /\ out = [i \in 1..offset |-> i]
    /\ out_len \in Nat /\ TX_LEN <= out_len

FreshInv ==
  /\ status \in {"checking", "parsing", "PARSING_OK", "PARSING_ERROR",
                 "WRONG_LENGTH_ERROR", "REFUSED", "serializing", "done"}
  /\ status = "checking" =>
       offset = 0 /\ done = 0 /\ start = [n \in Names |-> -1] /\ out = <<>> /\ out_len = 0
  /\ status \in {"PARSING_ERROR", "WRONG_LENGTH_ERROR", "REFUSED"} =>
       out = <<>> /\ out_len \in Nat

LayoutInv ==
  /\ ParsingFailsOnlyOnLength
  /\ FreshInv /\ ParsingInv /\ ParsedInv /\ SerializingInv

(* A field appended to the fields before it. *)
LEMMA NextBytes ==
  ASSUME NEW a \in Nat, NEW n \in Nat
  PROVE  [i \in 1..a |-> i] \o [i \in 1..n |-> a + i] = [i \in 1..a + n |-> i]
<1> DEFINE s == [i \in 1..a |-> i]
           t == [i \in 1..n |-> a + i]
           u == [i \in 1..a + n |-> i]
<1>1. s \in Seq(Nat) /\ t \in Seq(Nat) /\ Len(s) = a /\ Len(t) = n
  OBVIOUS
<1>2. s \o t \in Seq(Nat) /\ Len(s \o t) = a + n
  BY <1>1
<1>3. u \in Seq(Nat) /\ Len(u) = a + n
  OBVIOUS
<1>4. \A i \in 1..a + n : (s \o t)[i] = u[i]
  BY <1>1
<1> HIDE DEF s, t, u
<1>5. s \o t = u
  BY <1>2, <1>3, <1>4, SeqEqual
<1> QED
  BY <1>5 DEF s, t, u

(* The invariant holds at first. *)
LEMMA InitLayout == Init => LayoutInv
BY DEF Init, LayoutInv, ParsingFailsOnlyOnLength, FreshInv, ParsingInv, ParsedInv,
       SerializingInv

(* The length is compared. *)
LEMMA CheckLengthKeeps ==
  ASSUME LayoutInv, CheckLength
  PROVE  LayoutInv'
<1>1. /\ status = "checking"
      /\ status' = IF size = TX_LEN THEN "parsing" ELSE "WRONG_LENGTH_ERROR"
      /\ size' = size /\ offset' = 0 /\ done' = 0
      /\ start' = [n \in Names |-> -1] /\ out' = <<>> /\ out_len' = 0
  BY DEF CheckLength, LayoutInv, FreshInv
<1>2. start' \in [Names -> Int]
  BY <1>1
<1>3. ParsingInv'
  BY <1>1, <1>2, EndsGoUp DEF ParsingInv
<1> QED
  BY <1>1, <1>3
  DEF LayoutInv, ParsingFailsOnlyOnLength, FreshInv, ParsedInv, SerializingInv

(* A field is read: it fits. *)
LEMMA ReadFieldKeeps ==
  ASSUME LayoutInv, ReadField
  PROVE  LayoutInv'
<1>1. /\ status = "parsing" /\ size = TX_LEN /\ out = <<>> /\ out_len = 0
      /\ done \in 0..15 /\ offset = Ends[done + 1]
      /\ start \in [Names -> Int]
      /\ \A k \in 1..done : start[NameOf[k]] = Ends[k]
  BY Table DEF ReadField, LayoutInv, ParsingInv
<1> DEFINE field == Reads[done + 1]
<1>2. /\ field.name = NameOf[done + 1] /\ field.name \in Names
      /\ offset \in Nat /\ field.size \in Nat
      /\ offset + field.size = Ends[(done + 1) + 1]
      /\ offset + field.size <= TX_LEN
  BY <1>1, NextField
<1> HIDE DEF field
<1>3. /\ start' = [start EXCEPT ![field.name] = offset]
      /\ offset' = offset + field.size /\ done' = done + 1
      /\ UNCHANGED <<status, size, out_len, out>>
  <2>1. ~ (offset + field.size > size)
    <3>1. size = TX_LEN /\ TX_LEN \in Nat
      BY <1>1, EndsGoUp
    <3>2. offset + field.size \in Nat /\ offset + field.size <= TX_LEN
      BY <1>2
    <3> QED
      BY <3>1, <3>2
  <2> QED
    BY <2>1 DEF ReadField, field
<1>4. start' \in [Names -> Int]
  BY <1>1, <1>2, <1>3
<1>5. \A k \in 1..done' : start'[NameOf[k]] = Ends[k]
  <2> SUFFICES ASSUME NEW k \in 1..done + 1
               PROVE  start'[NameOf[k]] = Ends[k]
    BY <1>3
  <2>1. k \in 1..16 /\ done + 1 \in 1..16
    BY <1>1
  <2>2. CASE k = done + 1
    BY <1>1, <1>2, <1>3, <2>1, <2>2
  <2>3. CASE k # done + 1
    <3>1. k \in 1..done
      BY <1>1, <2>3
    <3>2. NameOf[k] # field.name /\ NameOf[k] \in Names
      BY <1>2, <2>1, <2>3, NamesDiffer, NamesAreTable
    <3> QED
      BY <1>1, <1>3, <3>1, <3>2
  <2> QED
    BY <2>2, <2>3
<1>6. done' \in 0..16 /\ offset' = Ends[done' + 1]
  <2>1. done' \in 0..16 /\ done' + 1 = (done + 1) + 1
    BY <1>1, <1>3
  <2> QED
    BY <1>2, <1>3, <2>1
<1> QED
  BY <1>1, <1>3, <1>4, <1>5, <1>6
  DEF LayoutInv, ParsingFailsOnlyOnLength, FreshInv, ParsingInv, ParsedInv,
      SerializingInv

(* All fields are read: the offset is the buffer's size. *)
LEMMA EndOfParsingKeeps ==
  ASSUME LayoutInv, EndOfParsing
  PROVE  LayoutInv'
<1>1. /\ status = "parsing" /\ size = TX_LEN /\ out = <<>> /\ out_len = 0
      /\ done = 16 /\ offset = TX_LEN
      /\ \A k \in 1..16 : start[NameOf[k]] = Ends[k]
  BY Table, EndsGoUp DEF EndOfParsing, LayoutInv, ParsingInv
<1>2. status' = "PARSING_OK" /\ UNCHANGED <<size, out_len, offset, done, start, out>>
  BY <1>1 DEF EndOfParsing
<1> QED
  BY <1>1, <1>2
  DEF LayoutInv, ParsingFailsOnlyOnLength, FreshInv, ParsingInv, ParsedInv,
      SerializingInv

(* Serialising starts with nothing written, in an output that has room. *)
LEMMA StartSerializingKeeps ==
  ASSUME LayoutInv, StartSerializing
  PROVE  LayoutInv'
<1>1. /\ \A k \in 1..16 : start[NameOf[k]] = Ends[k]
      /\ out = <<>>
      /\ out_len' \in 0..MaxSize
      /\ status' = IF TX_LEN > out_len' THEN "REFUSED" ELSE "serializing"
      /\ offset' = 0 /\ done' = 0
      /\ UNCHANGED <<size, start, out>>
  BY DEF StartSerializing, LayoutInv, ParsedInv
<1>2. out' = [i \in 1..offset' |-> i]
  BY <1>1
<1>3. out_len' \in Nat /\ (status' = "serializing" => TX_LEN <= out_len')
  BY <1>1, SizeAssumption, EndsGoUp
<1>4. SerializingInv'
  <2>1. done' \in 0..16 /\ offset' = Ends[done' + 1] /\ done' < 16 /\ status' # "done"
    <3>1. done' = 0 /\ done' + 1 = 1 /\ offset' = Ends[1]
      BY <1>1, EndsGoUp
    <3>2. status' # "done"
      BY <1>1
    <3> QED
      BY <3>1, <3>2
  <2>2. \A k \in 1..16 : start'[NameOf[k]] = Ends[k]
    BY <1>1
  <2>3. status' \in {"serializing", "done"} => status' = "serializing"
    BY <1>1
  <2> QED
    BY <1>2, <1>3, <2>1, <2>2, <2>3 DEF SerializingInv
<1> QED
  BY <1>1, <1>3, <1>4
  DEF LayoutInv, ParsingFailsOnlyOnLength, FreshInv, ParsingInv, ParsedInv

(* A field is written after those before it. *)
LEMMA WriteFieldKeeps ==
  ASSUME LayoutInv, WriteField
  PROVE  LayoutInv'
<1>1. /\ status = "serializing"
      /\ done \in 0..15 /\ offset = Ends[done + 1]
      /\ \A k \in 1..16 : start[NameOf[k]] = Ends[k]
      /\ out = [i \in 1..offset |-> i]
      /\ out_len \in Nat /\ TX_LEN <= out_len
  <2>1. status = "serializing" /\ SerializingInv
    BY DEF WriteField, LayoutInv
  <2>2. done \in 0..16 /\ done < 16
    BY <2>1 DEF SerializingInv
  <2> QED
    BY <2>1, <2>2 DEF SerializingInv
<1> DEFINE field == Writes[done + 1]
<1>2. /\ start[field.name] = offset
      /\ offset \in Nat /\ field.size \in Nat
      /\ offset + field.size = Ends[(done + 1) + 1]
  <2>1. field = Reads[done + 1] /\ done + 1 \in 1..16
    BY <1>1, Table
  <2> QED
    BY <1>1, <2>1, NextField
<1> HIDE DEF field
<1>3. /\ out' = out \o [i \in 1..field.size |-> offset + i]
      /\ offset' = offset + field.size /\ done' = done + 1
      /\ status' = IF done' = 16 THEN "done" ELSE "serializing"
      /\ UNCHANGED <<size, out_len, start>>
  BY <1>1, <1>2, Table DEF WriteField, field
<1>4. out' = [i \in 1..offset' |-> i]
  BY <1>1, <1>2, <1>3, NextBytes
<1>5. done' \in 1..16 /\ (done' # 16 => done' < 16)
  <2>1. done' = done + 1 /\ done \in 0..15
    BY <1>1, <1>3
  <2> QED
    BY <2>1
<1>6. offset' = Ends[done' + 1]
  <2>1. done' + 1 = (done + 1) + 1
    BY <1>3
  <2> QED
    BY <1>2, <1>3, <2>1
<1>7. \A k \in 1..16 : start'[NameOf[k]] = Ends[k]
  BY <1>1, <1>3
<1>8. status' \in {"serializing", "done"} /\ (status' = "done" <=> done' = 16)
  BY <1>3
<1>9. out_len' \in Nat /\ TX_LEN <= out_len'
  BY <1>1, <1>3
<1>10. done' \in 0..16
  BY <1>5
<1>11. SerializingInv'
  BY <1>4, <1>5, <1>6, <1>7, <1>8, <1>9, <1>10 DEF SerializingInv
<1> QED
  BY <1>8, <1>11
  DEF LayoutInv, ParsingFailsOnlyOnLength, FreshInv, ParsingInv, ParsedInv

(* Every step keeps the invariant. *)
LEMMA NextKeepsLayout == LayoutInv /\ [Next]_vars => LayoutInv'
<1> SUFFICES ASSUME LayoutInv, [Next]_vars
             PROVE  LayoutInv'
  OBVIOUS
<1>1. CASE UNCHANGED vars
  BY <1>1
  DEF vars, LayoutInv, ParsingFailsOnlyOnLength, FreshInv, ParsingInv, ParsedInv,
      SerializingInv
<1> QED
  BY <1>1, CheckLengthKeeps, ReadFieldKeeps, EndOfParsingKeeps,
     StartSerializingKeeps, WriteFieldKeeps DEF Next

(* No read of a field runs out of a buffer of TX_LEN bytes and all fields  *)
(* together use it up, for buffers of any size (transaction_deserialize).  *)
THEOREM OnlyLengthFails == Spec => []ParsingFailsOnlyOnLength
<1>1. LayoutInv => ParsingFailsOnlyOnLength
  BY DEF LayoutInv
<1> QED
  BY <1>1, InitLayout, NextKeepsLayout, PTL DEF Spec

(* Serialising gives back the bytes parsed and never writes past the end   *)
(* of the output, whatever its size (transaction_serialize).               *)
THEOREM BytesAreRestored == Spec => []SerializingRestoresBytes
<1>1. LayoutInv => SerializingRestoresBytes
  <2> SUFFICES ASSUME LayoutInv
               PROVE  SerializingRestoresBytes
    OBVIOUS
  <2>1. CASE status \in {"serializing", "done"}
    <3>1. /\ done \in 0..16 /\ offset = Ends[done + 1]
          /\ status = "done" => done = 16
          /\ out = [i \in 1..offset |-> i]
          /\ out_len \in Nat /\ TX_LEN <= out_len
      BY <2>1 DEF LayoutInv, SerializingInv
    <3>2. offset \in Nat /\ offset <= TX_LEN
      <4>1. done + 1 \in 1..17
        BY <3>1
      <4> QED
        BY <3>1, <4>1, EndsGoUp
    <3>3. status = "done" => offset = TX_LEN
      BY <3>1, EndsGoUp
    <3>4. Len(out) = offset
      BY <3>1, <3>2
    <3>5. Len(out) <= out_len
      <4>1. TX_LEN \in Nat
        BY EndsGoUp
      <4> QED
        BY <3>1, <3>2, <3>4, <4>1
    <3> QED
      BY <3>1, <3>3, <3>5 DEF SerializingRestoresBytes
  <2>2. CASE status \notin {"serializing", "done"}
    <3>1. out = <<>> /\ out_len \in Nat
      BY <2>2 DEF LayoutInv, FreshInv, ParsingInv, ParsedInv
    <3> QED
      BY <2>2, <3>1 DEF SerializingRestoresBytes
  <2> QED
    BY <2>1, <2>2
<1> QED
  BY <1>1, InitLayout, NextKeepsLayout, PTL DEF Spec
=============================================================================
