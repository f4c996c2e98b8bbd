---------------------- MODULE ZenonCommandSenderProofs ----------------------
(***************************************************************************)
(* Proofs about ZenonCommandSender: any number of programs, calls, path    *)
(* components and bytes, for every value of the constants.                 *)
(*                                                                         *)
(* A step of the system is a step of the app or leaves the app alone, so   *)
(* what ZenonAppProofs says of the app holds in the composition.  On top   *)
(* of it come the programs' own invariants: who waits for the answer, what *)
(* is on display for whom, and whose bytes the session holds.              *)
(***************************************************************************)
EXTENDS ZenonCommandSender, ZenonAppProofs

-----------------------------------------------------------------------------
(* The commands of the calls.                                              *)
KeyOperations == {"get_public_key", "get_public_key_with_confirmation"}

(* The fields of a command. *)
LEMMA Fields ==
  ASSUME NEW ins, NEW p1, NEW p2, NEW data
  PROVE  LET cmd == APDU(ins, p1, p2, data) IN
         cmd.ins = ins /\ cmd.p1 = p1 /\ cmd.p2 = p2 /\ cmd.data = data
BY DEF APDU

(* split_message makes as many pieces as it should. *)
LEMMA PiecesType ==
  ASSUME NEW tx \in Seq(Nat)
  PROVE  /\ Pieces(tx, MAX_APDU_LEN) \in Nat
         /\ Len(split_message(tx, MAX_APDU_LEN)) = Pieces(tx, MAX_APDU_LEN)
<1> DEFINE L == Len(tx)
           M == MAX_APDU_LEN
           n == Pieces(tx, M)
<1>1. L \in Nat /\ M \in Nat \ {0}
  BY ClientAssumption
<1>2. n \in Nat
  BY <1>1 DEF Pieces
<1> QED
  BY <1>2 DEF split_message

(* How many pieces the transaction of a request has. *)
Chunks(r) == Pieces(r.tx, MAX_APDU_LEN)

(* The script of sign_tx: chunk 0 with the path, then the pieces.          *)
LEMMA SignScript ==
  ASSUME NEW r \in Request, r.op = "sign_tx"
  PROVE  /\ Chunks(r) \in Nat
         /\ Len(Script(r)) = Chunks(r) + 1
         /\ Script(r)[1] =
              APDU(SIGN_TX, P1_START, P2_MORE, pack_derivation_path(r.path))
         /\ \A i \in 2..Chunks(r) + 1 :
              Script(r)[i] =
                APDU(SIGN_TX, i - 1, IF i = Chunks(r) + 1 THEN P2_LAST ELSE P2_MORE,
                     split_message(r.tx, MAX_APDU_LEN)[i - 1])
<1> DEFINE messages == split_message(r.tx, MAX_APDU_LEN)
           n == Chunks(r)
           start == APDU(SIGN_TX, P1_START, P2_MORE, pack_derivation_path(r.path))
           chunk(i) == APDU(SIGN_TX, P1_START + i,
                            IF i = Len(messages) THEN P2_LAST ELSE P2_MORE, messages[i])
           chunks == [i \in 1..Len(messages) |-> chunk(i)]
<1>1. n \in Nat /\ Len(messages) = n
  BY PiecesType DEF Request, Chunks
<1>2. Script(r) = <<start>> \o chunks
  BY DEF Script, sign_tx
<1> HIDE DEF messages, n, start
<1>3. chunks \in Seq({chunk(i) : i \in 1..n}) /\ Len(chunks) = n
  BY <1>1
<1>4. /\ Len(Script(r)) = n + 1
      /\ Script(r)[1] = start
      /\ \A i \in 2..n + 1 : Script(r)[i] = chunks[i - 1]
  <2> HIDE DEF chunks
  <2> DEFINE S == {start} \union {chunk(i) : i \in 1..n}
  <2>1. <<start>> \in Seq(S) /\ chunks \in Seq(S) /\ Len(<<start>>) = 1
    BY <1>3
  <2> HIDE DEF S, chunk
  <2> QED
    BY <1>1, <1>2, <1>3, <2>1
<1>5. \A i \in 2..n + 1 :
        chunks[i - 1] = APDU(SIGN_TX, i - 1, IF i = n + 1 THEN P2_LAST ELSE P2_MORE,
                             messages[i - 1])
  BY <1>1 DEF P1_START
<1> HIDE DEF chunks
<1> QED
  BY <1>1, <1>4, <1>5 DEF messages, n, start

(* A script is never empty, and only the two key operations have a command *)
(* that reads a key, the only one of their script.                         *)
LEMMA Scripts ==
  ASSUME NEW r \in Request
  PROVE  /\ Len(Script(r)) \in Nat \ {0}
         /\ \A i \in 1..Len(Script(r)) :
              /\ Script(r)[i].ins = SIGN_TX <=> r.op = "sign_tx"
              /\ Script(r)[i].ins = GET_PUBLIC_KEY =>
                   /\ r.op \in KeyOperations
                   /\ Script(r)[i].data = pack_derivation_path(r.path)
                   /\ Script(r)[i].p1 = 1 => r.op = "get_public_key_with_confirmation"
<1>1. CASE r.op = "sign_tx"
  <2> DEFINE n == Chunks(r)
  <2>1. n \in Nat /\ Len(Script(r)) = n + 1
    BY <1>1, SignScript
  <2>2. Script(r)[1].ins = SIGN_TX
    BY <1>1, SignScript, Fields
  <2>3. \A i \in 2..n + 1 : Script(r)[i].ins = SIGN_TX
    BY <1>1, SignScript, Fields
  <2> HIDE DEF n
  <2> QED
    BY <1>1, <2>1, <2>2, <2>3 DEF SIGN_TX, GET_PUBLIC_KEY
<1>2. CASE r.op # "sign_tx"
  <2>1. PICK cmd : /\ Script(r) = <<cmd>>
                   /\ cmd.ins # SIGN_TX
                   /\ cmd.ins = GET_PUBLIC_KEY =>
                        /\ r.op \in KeyOperations
                        /\ cmd.data = pack_derivation_path(r.path)
                        /\ cmd.p1 = 1 => r.op = "get_public_key_with_confirmation"
    <3>1. r.op \in {"get_version", "get_app_name", "get_public_key",
                    "get_public_key_with_confirmation"}
      BY <1>2 DEF Request, Operations
    <3>2. CASE r.op = "get_version"
      BY <3>2 DEF Script, APDU, GET_VERSION, SIGN_TX, GET_PUBLIC_KEY
    <3>3. CASE r.op = "get_app_name"
      BY <3>3 DEF Script, APDU, GET_APP_NAME, SIGN_TX, GET_PUBLIC_KEY
    <3>4. CASE r.op = "get_public_key"
      BY <3>4 DEF Script, APDU, SIGN_TX, GET_PUBLIC_KEY, KeyOperations
    <3>5. CASE r.op = "get_public_key_with_confirmation"
      BY <3>5 DEF Script, APDU, SIGN_TX, GET_PUBLIC_KEY, KeyOperations
    <3> QED
      BY <3>1, <3>2, <3>3, <3>4, <3>5
  <2> QED
    BY <1>2, <2>1
<1> QED
  BY <1>1, <1>2

-----------------------------------------------------------------------------
(* The pieces of a transaction.                                            *)

(* The ends of the pieces go up, from nothing to the whole message. *)
LEMMA PiecesEnds ==
  ASSUME NEW tx \in Seq(Nat), NEW n \in Nat
  PROVE  /\ PiecesEnd(tx, MAX_APDU_LEN, 0) = 0
         /\ PiecesEnd(tx, MAX_APDU_LEN, n) \in 0..Len(tx)
         /\ PiecesEnd(tx, MAX_APDU_LEN, n) <= PiecesEnd(tx, MAX_APDU_LEN, n + 1)
         /\ PiecesEnd(tx, MAX_APDU_LEN, Pieces(tx, MAX_APDU_LEN)) = Len(tx)
<1> DEFINE L == Len(tx)
           M == MAX_APDU_LEN
<1>1. L \in Nat /\ M \in Nat \ {0}
  BY ClientAssumption
<1>2. \A k \in Nat : k * M \in Nat /\ k * M <= (k + 1) * M
  BY <1>1
<1>3. Pieces(tx, M) \in Nat /\ Pieces(tx, M) * M >= L
  <2>1. \A a \in Nat, m \in Nat \ {0} : a \div m \in Nat /\ (a \div m) * m > a - m
    OBVIOUS
  <2>2. Pieces(tx, M) = (L + M - 1) \div M /\ L + M - 1 \in Nat
    BY <1>1 DEF Pieces
  <2> HIDE DEF L, M
  <2>3. Pieces(tx, M) \in Nat /\ Pieces(tx, M) * M > (L + M - 1) - M
    BY <1>1, <2>1, <2>2
  <2>4. Pieces(tx, M) * M \in Int
    BY <1>1, <2>3
  <2> DEFINE covered == Pieces(tx, M) * M
  <2> HIDE DEF covered
  <2>5. covered > (L + M - 1) - M /\ covered \in Int
    BY <2>3, <2>4 DEF covered
  <2>6. covered >= L
    BY <1>1, <2>5
  <2> QED
    BY <2>3, <2>6 DEF covered
<1> HIDE DEF L, M
<1>4. PiecesEnd(tx, M, 0) = 0
  BY <1>1 DEF PiecesEnd, L
<1>5. PiecesEnd(tx, M, n) \in 0..L /\ PiecesEnd(tx, M, n) <= PiecesEnd(tx, M, n + 1)
  BY <1>1, <1>2 DEF PiecesEnd, L
<1>6. PiecesEnd(tx, M, Pieces(tx, M)) = L
  <2>1. Pieces(tx, M) * M \in Nat
    BY <1>2, <1>3
  <2> QED
    BY <1>1, <1>3, <2>1 DEF PiecesEnd, L
<1> QED
  BY <1>4, <1>5, <1>6 DEF L, M

(* Appending the next piece to those before it makes the pieces up to it. *)
LEMMA NextPiece ==
  ASSUME NEW tx \in Seq(Nat), NEW n \in 1..Pieces(tx, MAX_APDU_LEN)
  PROVE  /\ split_message(tx, MAX_APDU_LEN)[n] \in Seq(Nat)
         /\ SubSeq(tx, 1, PiecesEnd(tx, MAX_APDU_LEN, n - 1))
             \o split_message(tx, MAX_APDU_LEN)[n]
             = SubSeq(tx, 1, PiecesEnd(tx, MAX_APDU_LEN, n))
<1> DEFINE a == PiecesEnd(tx, MAX_APDU_LEN, n - 1)
           b == PiecesEnd(tx, MAX_APDU_LEN, n)
<1>1. Pieces(tx, MAX_APDU_LEN) \in Nat
  BY PiecesType
<1>2. n \in Nat /\ n - 1 \in Nat /\ (n - 1) + 1 = n
  BY <1>1
<1>3. a \in 0..Len(tx) /\ b \in 0..Len(tx) /\ a <= b
  <2>1. PiecesEnd(tx, MAX_APDU_LEN, n - 1) <= PiecesEnd(tx, MAX_APDU_LEN, (n - 1) + 1)
    BY <1>2, PiecesEnds
  <2> QED
    BY <1>2, <2>1, PiecesEnds
<1>4. split_message(tx, MAX_APDU_LEN)[n] = SubSeq(tx, a + 1, b)
  BY <1>1 DEF split_message
<1> HIDE DEF a, b
<1>5. SubSeq(tx, a + 1, b) \in Seq(Nat)
  BY <1>3, SubSeqProperties
<1>6. SubSeq(tx, 1, a) \o SubSeq(tx, a + 1, b) = SubSeq(tx, 1, b)
  BY <1>3, ConcatAdjacentSubSeq
<1> QED
  BY <1>4, <1>5, <1>6 DEF a, b

-----------------------------------------------------------------------------
(* Types.  Outside of a call nothing is left of it; one program at most    *)
(* waits, and only for an answer that is owed.                             *)
IdleIsFresh ==
  \A c \in Clients :
    /\ phase[c] = "idle" => sent[c] = 0
    /\ phase[c] \in {"idle", "ready"} => answer[c] = NoReply
    /\ sent[c] = 0 => phase[c] \in {"idle", "ready"}

OneWaits ==
  \A c \in Clients : phase[c] = "waiting" =>
    awaiting /\ \A d \in Clients : phase[d] = "waiting" => d = c

TypeInv == Inv /\ SystemTypeOK /\ IdleIsFresh /\ OneWaits

(* What a program in a call asked for is a request it may make. *)
LEMMA CallIsRequest ==
  ASSUME SystemTypeOK, NEW c \in Clients, phase[c] # "idle"
  PROVE  call[c] \in Requests /\ call[c] \in Request
BY ClientAssumption DEF SystemTypeOK

(* What a program sends is one of the commands of its script. *)
LEMMA SentIsCommand ==
  ASSUME SystemTypeOK, NEW c \in Clients, phase[c] = "ready"
  PROVE  /\ sent[c] \in Nat
         /\ sent[c] + 1 \in 1..Len(Script(call[c]))
         /\ Script(call[c])[sent[c] + 1] \in Commands
<1>1. call[c] \in Requests /\ call[c] \in Request
  BY CallIsRequest
<1>2. sent[c] \in Nat /\ sent[c] < Len(Script(call[c])) /\ Len(Script(call[c])) \in Nat
  BY <1>1, Scripts DEF SystemTypeOK
<1>3. sent[c] + 1 \in 1..Len(Script(call[c]))
  BY <1>2
<1> QED
  BY <1>1, <1>2, <1>3, ClientAssumption

(* A step of the system is one of the app, or leaves the app as it is. *)
LEMMA SystemStepIsAppStep ==
  SystemTypeOK /\ [SystemNext]_systemVars => [Next]_vars
<1> SUFFICES ASSUME SystemTypeOK, [SystemNext]_systemVars
             PROVE  [Next]_vars
  OBVIOUS
<1>1. ASSUME NEW c \in Clients, NEW r \in Requests, Call(c, r)
      PROVE  UNCHANGED vars
  BY <1>1 DEF Call
<1>2. ASSUME NEW c \in Clients, Send(c)
      PROVE  Next
  <2>1. Script(call[c])[sent[c] + 1] \in Commands
    BY <1>2, SentIsCommand DEF Send
  <2> QED
    BY <1>2, <2>1 DEF Send, Next
<1>3. ASSUME NEW c \in Clients,
             Proceed(c) \/ Return(c) \/ Disconnected(c) \/ Killed(c)
      PROVE  UNCHANGED vars
  BY <1>3 DEF Proceed, Return, Disconnected, Killed, CallEnds
<1>4. CASE Device
  BY <1>4 DEF Device, DeviceAlone, Next
<1>5. CASE UNCHANGED systemVars
  BY <1>5 DEF systemVars
<1> QED
  BY <1>1, <1>2, <1>3, <1>4, <1>5 DEF SystemNext, ClientStep

(* The programs and the device start well. *)
LEMMA SystemInitTypeInv == SystemInit => TypeInv
<1> SUFFICES ASSUME SystemInit
             PROVE  TypeInv
  OBVIOUS
<1>1. Inv
  BY InitInv DEF SystemInit
<1>2. SystemTypeOK
  BY NoReplyType DEF SystemInit, SystemTypeOK
<1>3. IdleIsFresh /\ OneWaits
  BY DEF SystemInit, IdleIsFresh, OneWaits
<1> QED
  BY <1>1, <1>2, <1>3 DEF TypeInv

(* A program begins a call. *)
LEMMA CallKeepsTypes ==
  ASSUME TypeInv, NEW c \in Clients, NEW r \in Requests, Call(c, r)
  PROVE  SystemTypeOK' /\ IdleIsFresh' /\ OneWaits'
<1>1. r \in Request /\ r # NoCall /\ Len(Script(r)) \in Nat \ {0}
  BY ClientAssumption, Scripts DEF Request, NoCall, Operations
<1>2. sent[c] = 0 /\ answer[c] = NoReply
  BY DEF TypeInv, IdleIsFresh, Call
<1>3. /\ call' = [call EXCEPT ![c] = r]
      /\ phase' = [phase EXCEPT ![c] = "ready"]
      /\ UNCHANGED <<awaiting, sent, answer, meanwhile>>
  BY DEF Call, vars
<1>4. SystemTypeOK'
  BY <1>1, <1>2, <1>3 DEF TypeInv, SystemTypeOK
<1>5. IdleIsFresh' /\ OneWaits'
  BY <1>2, <1>3 DEF TypeInv, SystemTypeOK, IdleIsFresh, OneWaits
<1> QED
  BY <1>4, <1>5

(* A call ends, in whatever way. *)
LEMMA CallEndsKeepsTypes ==
  ASSUME TypeInv, NEW c \in Clients, CallEnds(c)
  PROVE  SystemTypeOK' /\ IdleIsFresh' /\ OneWaits'
<1>1. /\ call' = [call EXCEPT ![c] = NoCall]
      /\ phase' = [phase EXCEPT ![c] = "idle"]
      /\ sent' = [sent EXCEPT ![c] = 0]
      /\ answer' = [answer EXCEPT ![c] = NoReply]
      /\ meanwhile' = [meanwhile EXCEPT ![c] = {}]
      /\ UNCHANGED awaiting
  BY DEF CallEnds, vars
<1>2. SystemTypeOK'
  BY <1>1, NoReplyType DEF TypeInv, SystemTypeOK
<1>3. IdleIsFresh' /\ OneWaits'
  BY <1>1 DEF TypeInv, SystemTypeOK, IdleIsFresh, OneWaits
<1> QED
  BY <1>2, <1>3

(* A program goes on to its next command. *)
LEMMA ProceedKeepsTypes ==
  ASSUME TypeInv, NEW c \in Clients, Proceed(c)
  PROVE  SystemTypeOK' /\ IdleIsFresh' /\ OneWaits'
<1>1. /\ phase[c] = "answered" /\ sent[c] # Len(Script(call[c]))
      /\ phase' = [phase EXCEPT ![c] = "ready"]
      /\ answer' = [answer EXCEPT ![c] = NoReply]
      /\ UNCHANGED <<awaiting, call, sent, meanwhile>>
  BY DEF Proceed, ScriptDone, vars
<1>2. sent[c] < Len(Script(call[c]))
  <2>1. Len(Script(call[c])) \in Nat /\ sent[c] \in 1..Len(Script(call[c]))
    BY <1>1, CallIsRequest, Scripts DEF TypeInv, SystemTypeOK
  <2> QED
    BY <1>1, <2>1
<1>3. SystemTypeOK'
  BY <1>1, <1>2, NoReplyType DEF TypeInv, SystemTypeOK
<1>4. IdleIsFresh' /\ OneWaits'
  BY <1>1 DEF TypeInv, SystemTypeOK, IdleIsFresh, OneWaits
<1> QED
  BY <1>3, <1>4

(* A command is handled only while nothing is owed and the app runs. *)
LEMMA Handled ==
  ASSUME NEW cmd, HandleCommand(cmd)
  PROVE  Running /\ ~awaiting
BY DEF HandleCommand, RefuseCommand, HandlerGetVersion, HandlerGetAppName,
       HandlerGetPublicKey, SignStart, SignChunkRefused, SignChunkMore,
       SignChunkLast, Chunk, Received

(* What happens to the device is noted as events. *)
LEMMA HappensType ==
  ASSUME SystemTypeOK, NEW cmd, NEW events \in {CommandEvents(cmd) \union EndEvents, EndEvents},
         NEW but, Happens(events, but)
  PROVE  meanwhile' \in [Clients -> SUBSET Events]
<1>1. events \in SUBSET Events
  BY DEF CommandEvents, EndEvents, Events
<1> QED
  BY <1>1 DEF Happens, SystemTypeOK

(* A program sends a command and, unless a review opened, has its answer. *)
LEMMA SendKeepsTypes ==
  ASSUME TypeInv, NEW c \in Clients, Send(c)
  PROVE  Inv' /\ SystemTypeOK' /\ IdleIsFresh' /\ OneWaits'
<1> DEFINE cmd == Script(call[c])[sent[c] + 1]
<1>1. /\ phase[c] = "ready" /\ HandleCommand(cmd)
      /\ Happens(CommandEvents(cmd) \union EndEvents, {c})
      /\ sent' = [sent EXCEPT ![c] = @ + 1]
      /\ phase' = [phase EXCEPT ![c] = IF awaiting' THEN "waiting" ELSE "answered"]
      /\ answer' = [answer EXCEPT ![c] = reply']
      /\ UNCHANGED call
  BY DEF Send
<1>2. /\ sent[c] \in Nat /\ sent[c] + 1 \in 1..Len(Script(call[c]))
      /\ cmd \in Commands
  BY <1>1, SentIsCommand DEF TypeInv
<1> HIDE DEF cmd
<1>3. Inv'
  BY <1>1, <1>2, HandleCommandKeepsInv DEF TypeInv
<1>4. reply' \in Reply /\ awaiting' \in BOOLEAN
  BY <1>3 DEF Inv, TypeOK
<1>5. meanwhile' \in [Clients -> SUBSET Events]
  BY <1>1, HappensType DEF TypeInv
<1>6. \A d \in Clients : phase[d] # "waiting"
  BY <1>1, Handled DEF TypeInv, OneWaits
<1>7. SystemTypeOK'
  <2>1. /\ phase' \in [Clients -> {"idle", "ready", "waiting", "answered"}]
        /\ sent' \in [Clients -> Nat] /\ answer' \in [Clients -> Reply]
        /\ call' \in [Clients -> Requests \union {NoCall}]
    BY <1>1, <1>2, <1>4 DEF TypeInv, SystemTypeOK
  <2>2. /\ call'[c] # NoCall /\ phase'[c] \in {"waiting", "answered"}
        /\ sent'[c] \in 1..Len(Script(call'[c]))
    BY <1>1, <1>2 DEF TypeInv, SystemTypeOK
  <2>3. \A d \in Clients \ {c} :
          call'[d] = call[d] /\ phase'[d] = phase[d] /\ sent'[d] = sent[d]
    BY <1>1 DEF TypeInv, SystemTypeOK
  <2> QED
    BY <1>5, <2>1, <2>2, <2>3 DEF TypeInv, SystemTypeOK
<1>8. IdleIsFresh' /\ OneWaits'
  BY <1>1, <1>2, <1>4, <1>6 DEF TypeInv, SystemTypeOK, IdleIsFresh, OneWaits
<1> QED
  BY <1>3, <1>7, <1>8

(* The device, or its user, takes a step. *)
LEMMA DeviceKeepsTypes ==
  ASSUME TypeInv, Inv', Device
  PROVE  SystemTypeOK' /\ IdleIsFresh' /\ OneWaits'
<1> DEFINE answered == {c \in Clients : phase[c] = "waiting" /\ ~awaiting'}
<1>1. /\ phase' = [c \in Clients |-> IF c \in answered THEN "answered" ELSE phase[c]]
      /\ answer' = [c \in Clients |-> IF c \in answered THEN reply' ELSE answer[c]]
      /\ Happens(EndEvents, {})
      /\ UNCHANGED <<call, sent>>
  BY DEF Device
<1>2. reply' \in Reply
  BY DEF Inv, TypeOK
<1>3. meanwhile' \in [Clients -> SUBSET Events]
  BY <1>1, HappensType DEF TypeInv
<1>4. SystemTypeOK'
  BY <1>1, <1>2, <1>3 DEF TypeInv, SystemTypeOK
<1>5. IdleIsFresh' /\ OneWaits'
  BY <1>1 DEF TypeInv, SystemTypeOK, IdleIsFresh, OneWaits
<1> QED
  BY <1>4, <1>5

(* The types are inductive. *)
LEMMA SystemNextKeepsTypes == TypeInv /\ [SystemNext]_systemVars => TypeInv'
<1> SUFFICES ASSUME TypeInv, [SystemNext]_systemVars
             PROVE  TypeInv'
  OBVIOUS
<1>1. Inv'
  BY SystemStepIsAppStep, NextKeepsInv DEF TypeInv
<1>2. ASSUME NEW c \in Clients, NEW r \in Requests, Call(c, r)
      PROVE  TypeInv'
  BY <1>1, <1>2, CallKeepsTypes DEF TypeInv
<1>3. ASSUME NEW c \in Clients, Send(c)
      PROVE  TypeInv'
  BY <1>3, SendKeepsTypes DEF TypeInv
<1>4. ASSUME NEW c \in Clients, Proceed(c)
      PROVE  TypeInv'
  BY <1>1, <1>4, ProceedKeepsTypes DEF TypeInv
<1>5. ASSUME NEW c \in Clients, Return(c) \/ Disconnected(c) \/ Killed(c)
      PROVE  TypeInv'
  BY <1>1, <1>5, CallEndsKeepsTypes DEF TypeInv, Return, Disconnected, Killed
<1>6. CASE Device
  BY <1>1, <1>6, DeviceKeepsTypes DEF TypeInv
<1>7. CASE UNCHANGED systemVars
  BY <1>1, <1>7
  DEF TypeInv, SystemTypeOK, IdleIsFresh, OneWaits, systemVars, clientVars, vars
<1> QED
  BY <1>2, <1>3, <1>4, <1>5, <1>6, <1>7 DEF SystemNext, ClientStep

(* They hold in every state the programs and the device reach. *)
LEMMA SystemTypes == SystemSpec => []TypeInv
BY SystemInitTypeInv, SystemNextKeepsTypes, PTL DEF SystemSpec

(* Every program's variables are well formed, and no script is overrun.    *)
THEOREM SystemTypeCorrect == SystemSpec => []SystemTypeOK
<1>1. TypeInv => SystemTypeOK
  BY DEF TypeInv
<1> QED
  BY <1>1, SystemTypes, PTL

(* The composition implements the app: programs only make the device take  *)
(* steps of ZenonApp, so what is proved of every behaviour of the app, the *)
(* user's consent above all, is true of the app in the hands of any number *)
(* of programs.                                                            *)
THEOREM ProgramsDriveTheApp == SystemSpec => Spec
<1>1. TypeInv => SystemTypeOK
  BY DEF TypeInv
<1>2. SystemInit => Init
  BY DEF SystemInit
<1> QED
  BY <1>1, <1>2, SystemTypes, SystemStepIsAppStep, PTL DEF SystemSpec, Spec

-----------------------------------------------------------------------------
(* What a command does to the device, as far as the programs are           *)
(* concerned.                                                              *)
Refused == ~awaiting' /\ reply'.sw # "SW_OK" /\ Quiet

(* Answering a status word other than SW_OK refuses the command. *)
LEMMA StatusRefuses ==
  ASSUME TypeOK, NEW sw \in StatusWords \ {"SW_OK"}, HandlerReplies(Status(sw))
  PROVE  Refused
<1>1. Status(sw) \in Reply
  BY AnswerType DEF Status, Kinds
<1>2. /\ Status(sw).kind = "status" /\ Status(sw).sw = sw
      /\ NoReply.kind = "none" /\ NoReply.sw = "none"
  BY DEF Status, Answer, NoReply
<1> QED
  BY <1>1, <1>2, HandlerRepliesEffect DEF Refused, Quiet

(* Refused by the dispatcher, a command changes nothing. *)
LEMMA RefusedCommand ==
  ASSUME Inv, NEW cmd \in Commands, RefuseCommand(cmd)
  PROVE  Refused /\ ctx' = ctx
<1>1. Verdict(cmd) \in StatusWords \ {"SW_OK"}
  BY DEF Verdict, StatusWords, RefuseCommand
<1> QED
  BY <1>1, StatusRefuses DEF RefuseCommand, Inv

(* GET_PUBLIC_KEY puts its path into the context and answers its key.      *)
LEMMA KeyCommand ==
  ASSUME Inv, NEW cmd \in Commands, HandleCommand(cmd), cmd.ins = GET_PUBLIC_KEY
  PROVE  /\ reply'.kind # "signature"
         /\ \/ Refused /\ ctx' = ctx
            \/ /\ ctx'.req_type = "CONFIRM_ADDRESS"
               /\ ctx'.bip32 = PathRead(cmd.data)
               /\ reply'.kind = "public_key" => reply'.key = KeyOf(ctx'.bip32)
               /\ awaiting' => cmd.p1 = 1
<1>1. CASE RefuseCommand(cmd)
  BY <1>1, RefusedCommand DEF Refused, Quiet
<1>2. CASE HandlerGetPublicKey(cmd)
  <2> DEFINE data == cmd.data
  <2>1. ctx' \in {AddressContext(data), DerivedContext(data)}
    BY <1>2 DEF HandlerGetPublicKey
  <2>2. data \in Seq(Nat) /\ data # <<>>
    BY <1>2, NoReviewAtCommand
    DEF HandlerGetPublicKey, Dispatched, Verdict, Command
  <2>3. AddressContext(data).bip32 = PathRead(data)
    BY DEF AddressContext, ZeroContext
  <2>4. DerivedContext(data).bip32 = PathRead(data)
    BY <2>3, PathReadType, ZeroContextType DEF DerivedContext, AddressContext, ZeroContext
  <2>5. awaiting' => cmd.p1 = 1
    BY <1>2 DEF HandlerGetPublicKey, HandlerReplies
  <2> QED
    BY <1>2, <2>1, <2>3, <2>4, <2>5, GetPublicKeyKeepsInv
<1> QED
  BY <1>1, <1>2
  DEF HandleCommand, HandlerGetVersion, HandlerGetAppName, SignStart,
      SignChunkRefused, SignChunkMore, SignChunkLast, Chunk, Dispatched,
      GET_PUBLIC_KEY, GET_VERSION, GET_APP_NAME, SIGN_TX

(* The information commands, and those of unknown code, change nothing. *)
LEMMA OtherCommand ==
  ASSUME Inv, NEW cmd \in Commands, HandleCommand(cmd),
         cmd.ins \notin {GET_PUBLIC_KEY, SIGN_TX}
  PROVE  ctx' = ctx /\ ~awaiting' /\ Quiet
<1>1. CASE RefuseCommand(cmd)
  BY <1>1, RefusedCommand DEF Refused
<1>2. CASE HandlerGetVersion(cmd) \/ HandlerGetAppName(cmd)
  <2>1. ctx' = ctx /\ ~awaiting'
    BY <1>2 DEF HandlerGetVersion, HandlerGetAppName, HandlerReplies
  <2> QED
    BY <1>2, <2>1, InfoKeepsInv
<1> QED
  BY <1>1, <1>2
  DEF HandleCommand, HandlerGetPublicKey, SignStart,
      SignChunkRefused, SignChunkMore, SignChunkLast, Chunk, Dispatched

(* ui_display_transaction answers an error or leaves the answer to the user. *)
LEMMA DisplaysNoOK ==
  ASSUME NEW c, DisplayTransaction(c)
  PROVE  reply'.sw # "SW_OK"
<1>1. /\ NoReply.sw = "none"
      /\ \A sw : Status(sw).sw = sw
  BY DEF NoReply, Status, Answer
<1> QED
  BY <1>1 DEF DisplayTransaction, HandlerReplies, Outcome, Review

(* SIGN_TX is refused, opens a session with its path, or appends to one;   *)
(* a review only follows a last chunk.                                     *)
LEMMA SignCommand ==
  ASSUME Inv, NEW cmd \in Commands, HandleCommand(cmd), cmd.ins = SIGN_TX
  PROVE  /\ Quiet
         /\ \/ Refused
            \/ /\ cmd.p1 = P1_START /\ ~awaiting'
               /\ ctx'.req_type = "CONFIRM_TRANSACTION"
               /\ ctx'.bip32 = PathRead(cmd.data)
               /\ ctx'.raw_tx = <<>>
               /\ reply'.sw = "SW_OK" => screen' = screen
            \/ /\ cmd.p1 # P1_START
               /\ ctx.req_type = "CONFIRM_TRANSACTION"
               /\ ctx'.req_type = "CONFIRM_TRANSACTION"
               /\ ctx'.bip32 = ctx.bip32
               /\ ctx'.raw_tx = ctx.raw_tx \o cmd.data
               /\ awaiting' => cmd.p2 = P2_LAST
               /\ reply'.sw = "SW_OK" => screen' = screen
<1>1. CASE RefuseCommand(cmd)
  BY <1>1, RefusedCommand DEF Refused
<1>2. CASE SignStart(cmd)
  <2>1. cmd.data \in Seq(Nat) /\ cmd.data # <<>>
    BY <1>2, NoReviewAtCommand DEF SignStart, Dispatched, Verdict, Command, SIGN_TX
  <2>2. PathRead(cmd.data) \in Path
    BY <2>1, PathReadType
  <2>3. /\ ctx'.req_type = "CONFIRM_TRANSACTION"
        /\ ctx'.bip32 = PathRead(cmd.data)
        /\ ctx'.raw_tx = <<>>
    BY <1>2, <2>2 DEF SignStart, SigningContext, ZeroContext
  <2>4. cmd.p1 = P1_START /\ ~awaiting' /\ (reply'.sw = "SW_OK" => screen' = screen)
    BY <1>2 DEF SignStart, HandlerReplies, NoReply
  <2> QED
    BY <1>2, <2>3, <2>4, SignStartKeepsInv
<1>3. CASE SignChunkRefused(cmd)
  <2>1. ChunkVerdict(cmd) \in StatusWords \ {"SW_OK"}
    BY <1>3 DEF ChunkVerdict, StatusWords, SignChunkRefused
  <2> QED
    BY <1>3, <2>1, StatusRefuses DEF SignChunkRefused, Inv, Refused
<1>4. CASE SignChunkMore(cmd)
  <2>1. /\ ctx \in Context /\ cmd.data \in Seq(Nat)
        /\ ctx.req_type = "CONFIRM_TRANSACTION"
    BY <1>4, AcceptedChunk DEF SignChunkMore
  <2>2. /\ ctx' = Appended(ctx, cmd.data) /\ cmd.p1 # P1_START /\ ~awaiting'
        /\ reply'.sw = "SW_OK" => screen' = screen
    BY <1>4 DEF SignChunkMore, Chunk, HandlerReplies, NoReply
  <2> QED
    BY <1>4, <2>1, <2>2, ChunkContexts, SignChunkMoreKeepsInv
<1>5. CASE SignChunkLast(cmd)
  <2> DEFINE loaded == Appended(ctx, cmd.data)
  <2>1. /\ ctx \in Context /\ cmd.data \in Seq(Nat) /\ loaded \in Context
        /\ ctx.req_type = "CONFIRM_TRANSACTION"
    BY <1>5, AcceptedChunk DEF SignChunkLast
  <2>2. cmd.p1 # P1_START /\ cmd.p2 = P2_LAST
    BY <1>5 DEF SignChunkLast, Chunk
  <2>3. /\ loaded.req_type = "CONFIRM_TRANSACTION"
        /\ loaded.bip32 = ctx.bip32
        /\ loaded.raw_tx = ctx.raw_tx \o cmd.data
    BY <2>1, ChunkContexts
  <2> HIDE DEF loaded
  <2>4. /\ Hashed(loaded).req_type = "CONFIRM_TRANSACTION"
        /\ Hashed(loaded).bip32 = ctx.bip32
        /\ Hashed(loaded).raw_tx = ctx.raw_tx \o cmd.data
    BY <2>1, <2>3, ChunkContexts
  <2>5. \/ HandlerReplies(Status("SW_TX_PARSING_FAIL"))
        \/ HandlerReplies(Status("SW_TX_HASH_FAIL"))
        \/ ctx' = Hashed(loaded) /\ DisplayTransaction(Hashed(loaded))
    BY <1>5 DEF SignChunkLast, loaded
  <2>6. CASE \/ HandlerReplies(Status("SW_TX_PARSING_FAIL"))
             \/ HandlerReplies(Status("SW_TX_HASH_FAIL"))
    BY <2>6, StatusRefuses DEF StatusWords, Inv, Refused
  <2>7. CASE ctx' = Hashed(loaded) /\ DisplayTransaction(Hashed(loaded))
    <3>1. ~ (reply'.sw = "SW_OK")
      BY <2>7, DisplaysNoOK
    <3> QED
      BY <1>5, <2>1, <2>2, <2>4, <2>7, <3>1, SignChunkLastKeepsInv
  <2> QED
    BY <2>5, <2>6, <2>7
<1>6. ~ (HandlerGetVersion(cmd) \/ HandlerGetAppName(cmd) \/ HandlerGetPublicKey(cmd))
  BY DEF HandlerGetVersion, HandlerGetAppName, HandlerGetPublicKey, Dispatched,
         GET_PUBLIC_KEY, GET_VERSION, GET_APP_NAME, SIGN_TX
<1> QED
  BY <1>1, <1>2, <1>3, <1>4, <1>5, <1>6 DEF HandleCommand

-----------------------------------------------------------------------------
(* The answer to a waiting program.                                        *)

(* What the device does on its own answers the program that waits, and     *)
(* answers it a key only from the address review, a signature only from    *)
(* the transaction review.                                                 *)
LEMMA DeviceAnswers ==
  ASSUME TypeInv, Device, NEW c \in Clients, phase[c] = "waiting"
  PROVE  /\ ~awaiting'
         /\ reply'.kind = "public_key" =>
              /\ screen.page = "address"
              /\ screen.path = <<ctx'.bip32>>
              /\ reply'.key = KeyOf(ctx'.bip32)
         /\ reply'.kind = "signature" =>
              /\ screen.page = "transaction"
              /\ reply'.path = <<ctx.bip32>>
              /\ reply'.hash = ctx.m_hash
<1>1. Inv /\ awaiting /\ Reviewing
  BY DEF TypeInv, OneWaits, Inv, AwaitingIffReview
<1>2. NoReply.kind = "none" /\ Status("SW_SIGNATURE_FAIL").kind = "status"
  BY DEF NoReply, Status, Answer
<1>3. CASE Launch \/ DismissStatus
  BY <1>1, <1>3 DEF Launch, DismissStatus, Reviewing, Running, StatusPages
<1>4. CASE Exit
  BY <1>2, <1>4 DEF Exit
<1>5. ASSUME NEW confirm \in BOOLEAN, ChooseAddress(confirm)
      PROVE  ~awaiting' /\ reply'.kind # "signature"
             /\ (reply'.kind = "public_key" =>
                   /\ screen.page = "address"
                   /\ screen.path = <<ctx'.bip32>>
                   /\ reply'.key = KeyOf(ctx'.bip32))
  BY <1>1, <1>5, ChooseAddressKeepsInv DEF ChooseAddress, CallbackReplies
<1>6. CASE RejectTransaction
  BY <1>1, <1>6, RejectTransactionKeepsInv
  DEF RejectTransaction, CallbackReplies, Quiet
<1>7. CASE ConfirmTransaction
  <2>1. ctx \in Context /\ ~awaiting' /\ screen.page = "transaction"
    BY <1>1, <1>7 DEF ConfirmTransaction, CallbackReplies, Inv, TypeOK
  <2>2. reply' \in {Signature(ctx), Status("SW_SIGNATURE_FAIL"), NoReply}
    BY <1>1, <1>7, ConfirmTransactionKeepsInv
  <2> QED
    BY <1>2, <2>1, <2>2, SignatureType
<1> QED
  BY <1>3, <1>4, <1>5, <1>6, <1>7 DEF Device, DeviceAlone, UserDecides

(* So nobody waits after such a step. *)
LEMMA NobodyWaitsAfterDevice ==
  ASSUME TypeInv, Device, NEW c \in Clients
  PROVE  /\ phase'[c] = IF phase[c] = "waiting" THEN "answered" ELSE phase[c]
         /\ answer'[c] = IF phase[c] = "waiting" THEN reply' ELSE answer[c]
         /\ call'[c] = call[c] /\ sent'[c] = sent[c]
         /\ phase'[c] # "waiting"
<1>1. phase[c] = "waiting" => ~awaiting'
  BY DeviceAnswers
<1> QED
  BY <1>1 DEF Device

(* What Send does to the program that sends and to the others. *)
LEMMA SendEffect ==
  ASSUME TypeInv, NEW c \in Clients, Send(c)
  PROVE  LET cmd == Script(call[c])[sent[c] + 1] IN
         /\ Inv /\ Inv' /\ TypeOK
         /\ phase[c] = "ready" /\ call[c] \in Request
         /\ sent[c] \in Nat /\ sent[c] + 1 \in 1..Len(Script(call[c]))
         /\ cmd \in Commands /\ HandleCommand(cmd)
         /\ call' = call
         /\ sent'[c] = sent[c] + 1
         /\ phase'[c] = IF awaiting' THEN "waiting" ELSE "answered"
         /\ answer'[c] = reply'
         /\ meanwhile'[c] = meanwhile[c]
         /\ \A d \in Clients \ {c} :
              /\ phase[d] # "waiting"
              /\ phase'[d] = phase[d] /\ sent'[d] = sent[d] /\ answer'[d] = answer[d]
              /\ sent[d] # 0 =>
                   meanwhile'[d] = meanwhile[d] \union (CommandEvents(cmd) \union EndEvents)
<1> DEFINE cmd == Script(call[c])[sent[c] + 1]
           events == CommandEvents(cmd) \union EndEvents
<1>1. /\ phase[c] = "ready" /\ HandleCommand(cmd)
      /\ Happens(events, {c})
      /\ sent' = [sent EXCEPT ![c] = @ + 1]
      /\ phase' = [phase EXCEPT ![c] = IF awaiting' THEN "waiting" ELSE "answered"]
      /\ answer' = [answer EXCEPT ![c] = reply']
      /\ call' = call
  BY DEF Send
<1>2. /\ sent[c] \in Nat /\ sent[c] + 1 \in 1..Len(Script(call[c]))
      /\ cmd \in Commands /\ call[c] \in Request
  BY <1>1, SentIsCommand, CallIsRequest DEF TypeInv
<1> HIDE DEF cmd, events
<1>3. \A d \in Clients : phase[d] # "waiting"
  BY <1>1, Handled DEF TypeInv, OneWaits
<1>4. /\ meanwhile'[c] = meanwhile[c]
      /\ \A d \in Clients \ {c} :
           sent[d] # 0 => meanwhile'[d] = meanwhile[d] \union events
  BY <1>1 DEF Happens
<1>5. Inv /\ Inv' /\ TypeOK
  BY SendKeepsTypes DEF TypeInv, Inv
<1>6. /\ sent'[c] = sent[c] + 1
      /\ phase'[c] = IF awaiting' THEN "waiting" ELSE "answered"
      /\ answer'[c] = reply'
      /\ \A d \in Clients \ {c} :
           phase'[d] = phase[d] /\ sent'[d] = sent[d] /\ answer'[d] = answer[d]
  BY <1>1 DEF TypeInv, SystemTypeOK
<1> QED
  BY <1>1, <1>2, <1>3, <1>4, <1>5, <1>6 DEF cmd, events

(* What the end of a call, its start and Proceed do. *)
LEMMA QuietSteps ==
  ASSUME TypeInv, NEW c \in Clients,
         \/ \E r \in Requests : Call(c, r)
         \/ Proceed(c)
         \/ Return(c) \/ Disconnected(c) \/ Killed(c)
  PROVE  /\ UNCHANGED vars
         /\ answer'[c] = NoReply /\ phase'[c] # "waiting"
         /\ \/ sent'[c] = 0
            \/ /\ phase[c] = "answered" /\ answer[c].sw = "SW_OK"
               /\ sent'[c] = sent[c] /\ call'[c] = call[c]
               /\ meanwhile'[c] = meanwhile[c]
         /\ \A d \in Clients \ {c} :
              /\ call'[d] = call[d] /\ phase'[d] = phase[d] /\ sent'[d] = sent[d]
              /\ answer'[d] = answer[d] /\ meanwhile'[d] = meanwhile[d]
<1>1. ASSUME NEW r \in Requests, Call(c, r)
      PROVE  /\ UNCHANGED vars
             /\ answer'[c] = NoReply /\ phase'[c] # "waiting" /\ sent'[c] = 0
             /\ \A d \in Clients \ {c} :
                  /\ call'[d] = call[d] /\ phase'[d] = phase[d] /\ sent'[d] = sent[d]
                  /\ answer'[d] = answer[d] /\ meanwhile'[d] = meanwhile[d]
  BY <1>1 DEF Call, TypeInv, SystemTypeOK, IdleIsFresh
<1>2. CASE Proceed(c)
  BY <1>2 DEF Proceed, TypeInv, SystemTypeOK
<1>3. CASE CallEnds(c)
  BY <1>3 DEF CallEnds, TypeInv, SystemTypeOK
<1> QED
  BY <1>1, <1>2, <1>3 DEF Return, Disconnected, Killed

-----------------------------------------------------------------------------
(* Keys.  KeyIsOwn is not inductive: the answer comes later than the       *)
(* command, from a review.  It is strengthened with whose review is on     *)
(* display.                                                                *)
ReviewIsOwn ==
  \A c \in Clients : phase[c] = "waiting" =>
    /\ screen.page = "address" =>
         /\ call[c].op = "get_public_key_with_confirmation"
         /\ screen.path = <<OwnPath(c)>>
    /\ screen.page = "transaction" => call[c].op = "sign_tx"

KeyInv == KeyIsOwn /\ ReviewIsOwn

(* The review of an address shows the path of the context. *)
LEMMA AddressReviewPath ==
  ASSUME AddressReviewMatches, screen.page = "address"
  PROVE  ctx.req_type = "CONFIRM_ADDRESS" /\ screen.path = <<ctx.bip32>>
<1>1. AddressReview(ctx).path = <<ctx.bip32>>
  BY DEF AddressReview, Plain
<1> QED
  BY <1>1 DEF AddressReviewMatches

(* A program sends a command: a key it gets, or that is put on display for *)
(* it, is the one of its path.                                             *)
LEMMA SendKeepsKeys ==
  ASSUME TypeInv, KeyInv, NEW c \in Clients, Send(c)
  PROVE  KeyInv'
<1> DEFINE cmd == Script(call[c])[sent[c] + 1]
<1>1. /\ Inv /\ Inv'
      /\ call[c] \in Request /\ cmd \in Commands /\ HandleCommand(cmd)
      /\ sent[c] + 1 \in 1..Len(Script(call[c]))
      /\ call' = call
      /\ phase'[c] = IF awaiting' THEN "waiting" ELSE "answered"
      /\ answer'[c] = reply'
      /\ \A d \in Clients \ {c} :
           phase[d] # "waiting" /\ phase'[d] = phase[d] /\ answer'[d] = answer[d]
  BY SendEffect
<1>2. /\ cmd.ins = SIGN_TX <=> call[c].op = "sign_tx"
      /\ cmd.ins = GET_PUBLIC_KEY =>
           /\ call[c].op \in KeyOperations
           /\ cmd.data = pack_derivation_path(call[c].path)
           /\ cmd.p1 = 1 => call[c].op = "get_public_key_with_confirmation"
  BY <1>1, Scripts
<1> HIDE DEF cmd
<1>3. /\ screen'.page = "address" =>
           ctx'.req_type = "CONFIRM_ADDRESS" /\ screen'.path = <<ctx'.bip32>>
      /\ screen'.page = "transaction" => ctx'.req_type = "CONFIRM_TRANSACTION"
  <2>1. AddressReviewMatches' /\ TransactionReviewMatches'
    BY <1>1 DEF Inv, ReviewMatchesContext
  <2>2. /\ (AddressReview(ctx).path)' = <<ctx'.bip32>>
    BY DEF AddressReview, Plain
  <2> QED
    BY <2>1, <2>2 DEF AddressReviewMatches, TransactionReviewMatches
<1>4. /\ reply'.kind = "public_key" =>
           /\ call[c].op \in KeyOperations
           /\ reply'.key = KeyOf(OwnPath(c))
      /\ awaiting' =>
           /\ screen'.page = "address" =>
                /\ call[c].op = "get_public_key_with_confirmation"
                /\ screen'.path = <<OwnPath(c)>>
           /\ screen'.page = "transaction" => call[c].op = "sign_tx"
  <2>1. CASE cmd.ins = GET_PUBLIC_KEY
    BY <1>1, <1>2, <1>3, <2>1, KeyCommand DEF OwnPath, Refused, Quiet
  <2>2. CASE cmd.ins = SIGN_TX
    BY <1>1, <1>2, <1>3, <2>2, SignCommand DEF Refused, Quiet
  <2>3. CASE cmd.ins \notin {GET_PUBLIC_KEY, SIGN_TX}
    BY <1>1, <2>3, OtherCommand DEF Quiet
  <2> QED
    BY <2>1, <2>2, <2>3
<1>5. \A d \in Clients : OwnPath(d)' = OwnPath(d)
  BY <1>1 DEF OwnPath
<1>6. KeyIsOwn'
  BY <1>1, <1>4, <1>5 DEF KeyInv, KeyIsOwn, KeyOperations
<1>7. ReviewIsOwn'
  BY <1>1, <1>4, <1>5 DEF KeyInv, ReviewIsOwn
<1> QED
  BY <1>6, <1>7 DEF KeyInv

(* The user's choice, or the end of the app, answers the program whose     *)
(* review it was.                                                          *)
LEMMA DeviceKeepsKeys ==
  ASSUME TypeInv, KeyInv, Device
  PROVE  KeyInv'
<1>1. \A d \in Clients : OwnPath(d)' = OwnPath(d)
  BY NobodyWaitsAfterDevice DEF OwnPath
<1>2. ReviewIsOwn'
  BY NobodyWaitsAfterDevice DEF ReviewIsOwn
<1>3. ASSUME NEW c \in Clients, answer'[c].kind = "public_key"
      PROVE  call'[c].op \in KeyOperations /\ answer'[c].key = KeyOf(OwnPath(c))
  <2>1. CASE phase[c] = "waiting"
    <3>1. /\ screen.page = "address" /\ screen.path = <<ctx'.bip32>>
          /\ answer'[c].key = KeyOf(ctx'.bip32)
      BY <1>3, <2>1, DeviceAnswers, NobodyWaitsAfterDevice
    <3>2. call[c].op = "get_public_key_with_confirmation" /\ ctx'.bip32 = OwnPath(c)
      BY <2>1, <3>1 DEF KeyInv, ReviewIsOwn
    <3> QED
      BY <3>1, <3>2, NobodyWaitsAfterDevice DEF KeyOperations
  <2>2. CASE phase[c] # "waiting"
    BY <1>3, <2>2, NobodyWaitsAfterDevice DEF KeyInv, KeyIsOwn, KeyOperations
  <2> QED
    BY <2>1, <2>2
<1>4. KeyIsOwn'
  BY <1>1, <1>3 DEF KeyIsOwn, KeyOperations
<1> QED
  BY <1>2, <1>4 DEF KeyInv

(* The rest of a program's steps touch no other program and no screen. *)
LEMMA QuietStepsKeepKeys ==
  ASSUME TypeInv, KeyInv, NEW c \in Clients,
         \/ \E r \in Requests : Call(c, r)
         \/ Proceed(c)
         \/ Return(c) \/ Disconnected(c) \/ Killed(c)
  PROVE  KeyInv'
<1>1. /\ UNCHANGED vars
      /\ answer'[c] = NoReply /\ phase'[c] # "waiting"
      /\ \A d \in Clients \ {c} :
           call'[d] = call[d] /\ phase'[d] = phase[d] /\ answer'[d] = answer[d]
  BY QuietSteps
<1>2. \A d \in Clients \ {c} : OwnPath(d)' = OwnPath(d)
  BY <1>1 DEF OwnPath
<1>3. NoReply.kind = "none"
  BY DEF NoReply
<1>4. KeyIsOwn'
  BY <1>1, <1>2, <1>3 DEF KeyInv, KeyIsOwn
<1>5. ReviewIsOwn'
  BY <1>1, <1>2 DEF KeyInv, ReviewIsOwn, vars
<1> QED
  BY <1>4, <1>5 DEF KeyInv

(* Whatever the programs and the device do, KeyInv stays. *)
LEMMA SystemNextKeepsKeys == TypeInv /\ KeyInv /\ [SystemNext]_systemVars => KeyInv'
<1> SUFFICES ASSUME TypeInv, KeyInv, [SystemNext]_systemVars
             PROVE  KeyInv'
  OBVIOUS
<1>1. ASSUME NEW c \in Clients, Send(c)
      PROVE  KeyInv'
  BY <1>1, SendKeepsKeys
<1>2. ASSUME NEW c \in Clients,
             \/ \E r \in Requests : Call(c, r)
             \/ Proceed(c)
             \/ Return(c) \/ Disconnected(c) \/ Killed(c)
      PROVE  KeyInv'
  BY <1>2, QuietStepsKeepKeys
<1>3. CASE Device
  BY <1>3, DeviceKeepsKeys
<1>4. CASE UNCHANGED systemVars
  BY <1>4 DEF KeyInv, KeyIsOwn, ReviewIsOwn, OwnPath, systemVars, clientVars, vars
<1> QED
  BY <1>1, <1>2, <1>3, <1>4 DEF SystemNext, ClientStep

(* No program waits, or has been answered, before it calls. *)
LEMMA SystemInitAnswers == SystemInit => KeyInv /\ SignatureIsOwn
<1>1. NoReply.kind = "none"
  BY DEF NoReply
<1> QED
  BY <1>1 DEF SystemInit, KeyInv, KeyIsOwn, ReviewIsOwn, SignatureIsOwn

(* A program that gets a public key gets the one of the path it asked for, *)
(* for any number of programs, calls and paths, and whatever was read and  *)
(* reviewed in between (handler_get_public_key).                           *)
THEOREM KeysAreOwn == SystemSpec => []KeyIsOwn
<1>1. KeyInv => KeyIsOwn
  BY DEF KeyInv
<1> QED
  BY <1>1, SystemInitAnswers, SystemTypes, SystemNextKeepsKeys, PTL DEF SystemSpec

-----------------------------------------------------------------------------
(* Sessions.  A program's session outlives its commands and the reviews    *)
(* they open: SessionIsTheClients is strengthened with the wait for the    *)
(* user, when all pieces were sent, and with what a session of unknown     *)
(* origin can hold when keys were read or the app restarted in between.    *)
SoFar(c) == SubSeq(call[c].tx, 1, PiecesEnd(call[c].tx, MAX_APDU_LEN, sent[c] - 1))

Engaged(c) == Signing(c) /\ (Progressing(c) \/ phase[c] = "waiting")

SessionOf(c) ==
  /\ phase[c] = "waiting" => sent[c] = Len(Script(call[c]))
  /\ "signing" \notin meanwhile[c] /\ ctx.req_type = "CONFIRM_TRANSACTION" =>
       ctx.bip32 = OwnPath(c) /\ ctx.raw_tx = SoFar(c)
  /\ Undisturbed(c) => Running /\ ctx.req_type = "CONFIRM_TRANSACTION"

SessionInv == \A c \in Clients : Engaged(c) => SessionOf(c)

(* What a program sends to sign: its path first, then the next piece, and  *)
(* the last piece as the last command.                                     *)
LEMMA SigningCommand ==
  ASSUME NEW r \in Request, r.op = "sign_tx",
         NEW n \in Nat, n + 1 \in 1..Len(Script(r))
  PROVE  LET cmd == Script(r)[n + 1] IN
         /\ cmd.ins = SIGN_TX
         /\ cmd.p1 = n
         /\ n = 0 => cmd.data = pack_derivation_path(r.path)
         /\ n # 0 => /\ n \in 1..Pieces(r.tx, MAX_APDU_LEN)
                     /\ cmd.data = split_message(r.tx, MAX_APDU_LEN)[n]
         /\ cmd.p2 = P2_LAST => n + 1 = Len(Script(r))
<1>1. Chunks(r) \in Nat /\ Len(Script(r)) = Chunks(r) + 1
  BY SignScript
<1>2. CASE n = 0
  BY <1>2, SignScript, Fields DEF P1_START, P2_MORE, P2_LAST
<1>3. CASE n # 0
  <2>1. n + 1 \in 2..Chunks(r) + 1 /\ n \in 1..Chunks(r) /\ (n + 1) - 1 = n
    BY <1>1, <1>3
  <2>2. Script(r)[n + 1] =
          APDU(SIGN_TX, n, IF n + 1 = Chunks(r) + 1 THEN P2_LAST ELSE P2_MORE,
               split_message(r.tx, MAX_APDU_LEN)[n])
    BY <2>1, SignScript
  <2> QED
    BY <1>1, <1>3, <2>1, <2>2, Fields DEF P2_MORE, P2_LAST, Chunks
<1> QED
  BY <1>2, <1>3

(* A program sends the next command of sign_tx: the session it goes on     *)
(* with is its own.                                                        *)
LEMMA SendKeepsOwnSession ==
  ASSUME TypeInv, SessionInv, NEW c \in Clients, Send(c)
  PROVE  (Engaged(c) => SessionOf(c))'
<1> DEFINE cmd == Script(call[c])[sent[c] + 1]
           n == sent[c]
           tx == call[c].tx
<1> SUFFICES ASSUME Engaged(c)'
             PROVE  SessionOf(c)'
  OBVIOUS
<1>1. /\ Inv /\ Inv' /\ TypeOK
      /\ phase[c] = "ready" /\ call[c] \in Request
      /\ n \in Nat /\ n + 1 \in 1..Len(Script(call[c]))
      /\ cmd \in Commands /\ HandleCommand(cmd)
      /\ call' = call
      /\ sent'[c] = n + 1
      /\ phase'[c] = IF awaiting' THEN "waiting" ELSE "answered"
      /\ answer'[c] = reply'
      /\ meanwhile'[c] = meanwhile[c]
  BY SendEffect
<1>2. call[c].op = "sign_tx" /\ tx \in Seq(Nat)
  BY <1>1 DEF Engaged, Signing, Request
<1>3. /\ cmd.ins = SIGN_TX /\ cmd.p1 = n
      /\ n = 0 => cmd.data = pack_derivation_path(call[c].path)
      /\ n # 0 => /\ n \in 1..Pieces(tx, MAX_APDU_LEN)
                  /\ cmd.data = split_message(tx, MAX_APDU_LEN)[n]
      /\ cmd.p2 = P2_LAST => n + 1 = Len(Script(call[c]))
  BY <1>1, <1>2, SigningCommand
<1>4. awaiting' \/ reply'.sw = "SW_OK"
  BY <1>1 DEF Engaged, Progressing
<1>5. /\ OwnPath(c)' = PathRead(pack_derivation_path(call[c].path))
      /\ SoFar(c)' = SubSeq(tx, 1, PiecesEnd(tx, MAX_APDU_LEN, n))
  <2>1. sent'[c] - 1 = n
    BY <1>1
  <2> QED
    BY <1>1, <2>1 DEF OwnPath, SoFar
<1>6. Running /\ awaiting' => Running'
  <2>1. AwaitingIffReview'
    BY <1>1 DEF Inv
  <2> QED
    BY <2>1 DEF AwaitingIffReview, Running, Reviewing
<1>7. Running
  BY <1>1, Handled
<1> HIDE DEF cmd, n, tx
<1>8. CASE /\ cmd.p1 = P1_START /\ ~awaiting'
           /\ ctx'.req_type = "CONFIRM_TRANSACTION"
           /\ ctx'.bip32 = PathRead(cmd.data)
           /\ ctx'.raw_tx = <<>>
           /\ reply'.sw = "SW_OK" => screen' = screen
  <2>1. n = 0
    BY <1>3, <1>8 DEF P1_START
  <2>2. SoFar(c)' = <<>>
    BY <1>2, <1>5, <2>1, PiecesEnds
  <2>3. Running'
    BY <1>4, <1>7, <1>8 DEF Running
  <2>4. phase'[c] # "waiting" /\ ctx'.bip32 = OwnPath(c)'
    BY <1>1, <1>3, <1>5, <1>8, <2>1
  <2> QED
    BY <1>8, <2>2, <2>3, <2>4 DEF SessionOf
<1>9. CASE /\ cmd.p1 # P1_START
           /\ ctx.req_type = "CONFIRM_TRANSACTION"
           /\ ctx'.req_type = "CONFIRM_TRANSACTION"
           /\ ctx'.bip32 = ctx.bip32
           /\ ctx'.raw_tx = ctx.raw_tx \o cmd.data
           /\ awaiting' => cmd.p2 = P2_LAST
           /\ reply'.sw = "SW_OK" => screen' = screen
  <2>1. n # 0 /\ n > 0
    BY <1>1, <1>3, <1>9 DEF P1_START, n
  <2>2. SessionOf(c)
    BY <1>1, <1>2, <2>1 DEF SessionInv, Engaged, Signing, Progressing, n
  <2>3. "signing" \notin meanwhile'[c] =>
          ctx'.bip32 = OwnPath(c)' /\ ctx'.raw_tx = SoFar(c)'
    <3> SUFFICES ASSUME "signing" \notin meanwhile'[c]
                 PROVE  ctx'.bip32 = OwnPath(c)' /\ ctx'.raw_tx = SoFar(c)'
      OBVIOUS
    <3>1. ctx.bip32 = OwnPath(c) /\ ctx.raw_tx = SubSeq(tx, 1, PiecesEnd(tx, MAX_APDU_LEN, n - 1))
      BY <1>1, <1>9, <2>2 DEF SessionOf, SoFar, n, tx
    <3>2. ctx'.raw_tx = SoFar(c)'
      BY <1>2, <1>3, <1>5, <1>9, <2>1, <3>1, NextPiece
    <3> QED
      BY <1>5, <1>9, <3>1, <3>2 DEF OwnPath
  <2>4. Running'
    BY <1>4, <1>6, <1>7, <1>9 DEF Running
  <2>5. phase'[c] = "waiting" => sent'[c] = Len(Script(call'[c]))
    BY <1>1, <1>3, <1>9
  <2> QED
    BY <1>9, <2>3, <2>4, <2>5 DEF SessionOf
<1> QED
  BY <1>1, <1>3, <1>4, <1>8, <1>9, SignCommand DEF Refused

(* The session of a program that another one's command does not replace    *)
(* is as it was; one that is replaced is noted as such.                    *)
LEMMA SendKeepsOthersSessions ==
  ASSUME TypeInv, SessionInv, NEW c \in Clients, Send(c),
         NEW d \in Clients, d # c
  PROVE  (Engaged(d) => SessionOf(d))'
<1> DEFINE cmd == Script(call[c])[sent[c] + 1]
<1> SUFFICES ASSUME Engaged(d)'
             PROVE  SessionOf(d)'
  OBVIOUS
<1>1. /\ Inv /\ cmd \in Commands /\ HandleCommand(cmd)
      /\ call' = call
      /\ phase[d] # "waiting"
      /\ phase'[d] = phase[d] /\ sent'[d] = sent[d] /\ answer'[d] = answer[d]
      /\ sent[d] # 0 =>
           meanwhile'[d] = meanwhile[d] \union (CommandEvents(cmd) \union EndEvents)
  BY SendEffect
<1> HIDE DEF cmd
<1>2. /\ meanwhile'[d] = meanwhile[d] \union (CommandEvents(cmd) \union EndEvents)
      /\ Engaged(d)
  <2>1. Engaged(d) /\ sent[d] > 0 /\ sent[d] \in Nat
    BY <1>1 DEF Engaged, Signing, Progressing, TypeInv, SystemTypeOK
  <2> QED
    BY <1>1, <2>1
<1>3. SessionOf(d)
  BY <1>2 DEF SessionInv
<1>4. OwnPath(d)' = OwnPath(d) /\ SoFar(d)' = SoFar(d)
  BY <1>1 DEF OwnPath, SoFar
<1>5. \/ cmd.ins = SIGN_TX /\ "signing" \in meanwhile'[d]
      \/ cmd.ins = GET_PUBLIC_KEY /\ "key" \in meanwhile'[d]
         /\ (ctx' = ctx \/ ctx'.req_type = "CONFIRM_ADDRESS")
      \/ ctx' = ctx
  <2>1. CASE cmd.ins = SIGN_TX
    BY <1>2, <2>1 DEF CommandEvents, SIGN_TX, GET_PUBLIC_KEY
  <2>2. CASE cmd.ins = GET_PUBLIC_KEY
    BY <1>1, <1>2, <2>2, KeyCommand DEF CommandEvents, SIGN_TX, GET_PUBLIC_KEY
  <2>3. CASE cmd.ins \notin {SIGN_TX, GET_PUBLIC_KEY}
    BY <1>1, <2>3, OtherCommand
  <2> QED
    BY <2>1, <2>2, <2>3
<1>6. "signing" \notin meanwhile'[d] /\ ctx'.req_type = "CONFIRM_TRANSACTION" =>
        ctx'.bip32 = OwnPath(d)' /\ ctx'.raw_tx = SoFar(d)'
  BY <1>2, <1>3, <1>4, <1>5 DEF SessionOf
<1>7. Undisturbed(d)' => Running' /\ ctx'.req_type = "CONFIRM_TRANSACTION"
  <2> SUFFICES ASSUME meanwhile'[d] = {}
               PROVE  Running' /\ ctx'.req_type = "CONFIRM_TRANSACTION"
    BY DEF Undisturbed
  <2>1. ctx' = ctx /\ meanwhile[d] = {} /\ EndEvents = {}
    BY <1>2, <1>5
  <2> QED
    BY <1>3, <2>1 DEF SessionOf, Undisturbed, EndEvents, Running
<1> QED
  BY <1>1, <1>6, <1>7 DEF SessionOf

(* The device's own steps change no path, no bytes and, but for the launch *)
(* of the app, no kind of request.                                         *)
LEMMA DeviceKeepsSessions ==
  ASSUME TypeInv, SessionInv, Device, NEW d \in Clients
  PROVE  (Engaged(d) => SessionOf(d))'
<1> SUFFICES ASSUME Engaged(d)'
             PROVE  SessionOf(d)'
  OBVIOUS
<1>1. /\ phase'[d] = IF phase[d] = "waiting" THEN "answered" ELSE phase[d]
      /\ answer'[d] = IF phase[d] = "waiting" THEN reply' ELSE answer[d]
      /\ call'[d] = call[d] /\ sent'[d] = sent[d]
      /\ phase'[d] # "waiting"
  BY NobodyWaitsAfterDevice
<1>2. Engaged(d) /\ sent[d] # 0
  BY <1>1 DEF Engaged, Signing, Progressing, TypeInv, SystemTypeOK
<1>3. SessionOf(d)
  BY <1>2 DEF SessionInv
<1>4. meanwhile'[d] = meanwhile[d] \union EndEvents
  BY <1>2 DEF Device, Happens
<1>5. OwnPath(d)' = OwnPath(d) /\ SoFar(d)' = SoFar(d)
  BY <1>1 DEF OwnPath, SoFar
<1>6. \/ ~Running /\ ctx'.req_type = "CONFIRM_ADDRESS"
      \/ /\ ctx'.req_type = ctx.req_type /\ ctx'.bip32 = ctx.bip32
         /\ ctx'.raw_tx = ctx.raw_tx
  <2>1. ctx \in Context
    BY DEF TypeInv, Inv, TypeOK
  <2>2. CASE Launch
    BY <2>2 DEF Launch, ZeroContext
  <2>3. CASE Exit \/ DismissStatus
    BY <2>3 DEF Exit, DismissStatus
  <2>4. CASE UserDecides
    BY <2>1, <2>4
    DEF UserDecides, ChooseAddress, RejectTransaction, ConfirmTransaction, Context
  <2> QED
    BY <2>2, <2>3, <2>4 DEF Device, DeviceAlone
<1>7. "signing" \notin meanwhile'[d] /\ ctx'.req_type = "CONFIRM_TRANSACTION" =>
        ctx'.bip32 = OwnPath(d)' /\ ctx'.raw_tx = SoFar(d)'
  BY <1>3, <1>4, <1>5, <1>6 DEF SessionOf
<1>8. Undisturbed(d)' => Running' /\ ctx'.req_type = "CONFIRM_TRANSACTION"
  <2> SUFFICES ASSUME meanwhile'[d] = {}
               PROVE  Running' /\ ctx'.req_type = "CONFIRM_TRANSACTION"
    BY DEF Undisturbed
  <2>1. meanwhile[d] = {} /\ EndEvents = {}
    BY <1>4
  <2>2. Running /\ ctx.req_type = "CONFIRM_TRANSACTION"
    BY <1>3, <2>1 DEF SessionOf, Undisturbed
  <2> QED
    BY <1>6, <2>1, <2>2 DEF EndEvents, Running
<1> QED
  BY <1>1, <1>7, <1>8 DEF SessionOf

(* The rest of a program's steps leave the device as it is. *)
LEMMA QuietStepsKeepSessions ==
  ASSUME TypeInv, SessionInv, NEW c \in Clients,
         \/ \E r \in Requests : Call(c, r)
         \/ Proceed(c)
         \/ Return(c) \/ Disconnected(c) \/ Killed(c),
         NEW d \in Clients
  PROVE  (Engaged(d) => SessionOf(d))'
<1> SUFFICES ASSUME Engaged(d)'
             PROVE  SessionOf(d)'
  OBVIOUS
<1>1. UNCHANGED vars /\ phase'[c] # "waiting"
  BY QuietSteps
<1>2. /\ call'[d] = call[d] /\ sent'[d] = sent[d] /\ meanwhile'[d] = meanwhile[d]
      /\ phase'[d] = "waiting" => phase[d] = "waiting"
      /\ Engaged(d)
  <2>1. CASE d = c
    <3>1. sent'[c] # 0
      BY <2>1 DEF Engaged, Signing
    <3>2. /\ phase[c] = "answered" /\ answer[c].sw = "SW_OK"
          /\ sent'[c] = sent[c] /\ call'[c] = call[c] /\ meanwhile'[c] = meanwhile[c]
      BY <3>1, QuietSteps
    <3> QED
      BY <1>1, <2>1, <3>2 DEF Engaged, Signing, Progressing
  <2>2. CASE d # c
    <3>1. /\ call'[d] = call[d] /\ phase'[d] = phase[d] /\ sent'[d] = sent[d]
          /\ answer'[d] = answer[d] /\ meanwhile'[d] = meanwhile[d]
      BY <2>2, QuietSteps
    <3> QED
      BY <3>1 DEF Engaged, Signing, Progressing
  <2> QED
    BY <2>1, <2>2
<1>3. SessionOf(d)
  BY <1>2 DEF SessionInv
<1>4. OwnPath(d)' = OwnPath(d) /\ SoFar(d)' = SoFar(d)
  BY <1>2 DEF OwnPath, SoFar
<1>5. /\ ctx' = ctx /\ (Running' <=> Running) /\ (Undisturbed(d)' <=> Undisturbed(d))
  BY <1>1, <1>2 DEF vars, Running, Undisturbed
<1> QED
  BY <1>2, <1>3, <1>4, <1>5 DEF SessionOf

(* Whatever the programs and the device do, SessionInv stays. *)
LEMMA SystemNextKeepsSessions ==
  TypeInv /\ SessionInv /\ [SystemNext]_systemVars => SessionInv'
<1> SUFFICES ASSUME TypeInv, SessionInv, [SystemNext]_systemVars
             PROVE  SessionInv'
  OBVIOUS
<1>1. ASSUME NEW c \in Clients, Send(c)
      PROVE  SessionInv'
  BY <1>1, SendKeepsOwnSession, SendKeepsOthersSessions DEF SessionInv
<1>2. ASSUME NEW c \in Clients,
             \/ \E r \in Requests : Call(c, r)
             \/ Proceed(c)
             \/ Return(c) \/ Disconnected(c) \/ Killed(c)
      PROVE  SessionInv'
  BY <1>2, QuietStepsKeepSessions DEF SessionInv
<1>3. CASE Device
  BY <1>3, DeviceKeepsSessions DEF SessionInv
<1>4. CASE UNCHANGED systemVars
  BY <1>4
  DEF SessionInv, SessionOf, Engaged, Signing, Progressing, Undisturbed, OwnPath,
      SoFar, Running, systemVars, clientVars, vars
<1> QED
  BY <1>1, <1>2, <1>3, <1>4 DEF SystemNext, ClientStep

(* No program has a session before it calls. *)
LEMMA SystemInitSessions == SystemInit => SessionInv
BY DEF SystemInit, SessionInv, Engaged, Signing

(* Between two pieces of its transaction, a program that nothing disturbed *)
(* finds its own session, with exactly what it sent: for any number of     *)
(* programs, calls, pieces and bytes, and whatever killed, refused or      *)
(* finished calls came before (handler_sign_tx, chunk 0).                  *)
THEOREM SessionsAreTheClients == SystemSpec => []SessionIsTheClients
<1>1. SessionInv => SessionIsTheClients
  BY DEF SessionInv, SessionOf, SessionIsTheClients, Engaged, SoFar, Undisturbed
<1> QED
  BY <1>1, SystemInitSessions, SystemTypes, SystemNextKeepsSessions, PTL
  DEF SystemSpec

-----------------------------------------------------------------------------
(* Signatures.  What is signed is what the session holds when the user     *)
(* confirms; all pieces were sent when the review opened.                  *)
LEMMA DeviceAnswersOwnSignature ==
  ASSUME TypeInv, KeyInv, SessionInv, Device, NEW c \in Clients,
         phase[c] = "waiting", reply'.kind = "signature",
         "signing" \notin meanwhile[c]
  PROVE  /\ call[c].op = "sign_tx"
         /\ reply'.path = <<OwnPath(c)>>
         /\ reply'.hash = Sha3(call[c].tx)
<1>1. /\ screen.page = "transaction"
      /\ reply'.path = <<ctx.bip32>> /\ reply'.hash = ctx.m_hash
  BY DeviceAnswers
<1>2. ctx.req_type = "CONFIRM_TRANSACTION" /\ ctx.m_hash = Sha3(ctx.raw_tx)
  BY <1>1 DEF TypeInv, Inv, ReviewMatchesContext, TransactionReviewMatches
<1>3. call[c].op = "sign_tx"
  BY <1>1 DEF KeyInv, ReviewIsOwn
<1>4. call[c] \in Request /\ sent[c] \in Nat /\ sent[c] \in 1..Len(Script(call[c]))
  BY CallIsRequest DEF TypeInv, SystemTypeOK
<1>5. Engaged(c)
  BY <1>3, <1>4 DEF Engaged, Signing
<1>6. /\ ctx.bip32 = OwnPath(c) /\ ctx.raw_tx = SoFar(c)
      /\ sent[c] = Len(Script(call[c]))
  BY <1>2, <1>5 DEF SessionInv, SessionOf
<1>7. SoFar(c) = call[c].tx
  <2> DEFINE tx == call[c].tx
  <2>1. tx \in Seq(Nat)
    BY <1>4 DEF Request
  <2>2. sent[c] - 1 = Pieces(tx, MAX_APDU_LEN)
    BY <1>3, <1>4, <1>6, SignScript DEF Chunks
  <2>3. PiecesEnd(tx, MAX_APDU_LEN, Pieces(tx, MAX_APDU_LEN)) = Len(tx)
    BY <2>1, PiecesEnds
  <2>4. SubSeq(tx, 1, Len(tx)) = tx
    BY <2>1
  <2> QED
    BY <2>2, <2>3, <2>4 DEF SoFar
<1> QED
  BY <1>1, <1>2, <1>3, <1>6, <1>7

(* The commands themselves never answer a signature, and what happens to   *)
(* the device meanwhile is not forgotten before the call ends.             *)
LEMMA SystemNextKeepsSignatures ==
  /\ TypeInv /\ KeyInv /\ SessionInv /\ SignatureIsOwn
  /\ [SystemNext]_systemVars
  => SignatureIsOwn'
<1> SUFFICES ASSUME TypeInv, KeyInv, SessionInv, SignatureIsOwn,
                    [SystemNext]_systemVars,
                    NEW d \in Clients,
                    answer'[d].kind = "signature", "signing" \notin meanwhile'[d]
             PROVE  /\ call'[d].op = "sign_tx"
                    /\ answer'[d].path = <<OwnPath(d)'>>
                    /\ answer'[d].hash = Sha3(call'[d].tx)
  BY DEF SignatureIsOwn
<1> DEFINE Kept == /\ call'[d] = call[d] /\ answer'[d] = answer[d]
                   /\ "signing" \notin meanwhile[d]
<1>1. ASSUME Kept
      PROVE  /\ call'[d].op = "sign_tx"
             /\ answer'[d].path = <<OwnPath(d)'>>
             /\ answer'[d].hash = Sha3(call'[d].tx)
  BY <1>1 DEF SignatureIsOwn, OwnPath
<1>2. NoReply.kind = "none"
  BY DEF NoReply
<1>3. ASSUME NEW c \in Clients, Send(c)
      PROVE  Kept
  <2> DEFINE cmd == Script(call[c])[sent[c] + 1]
  <2>1. /\ Inv /\ cmd \in Commands /\ HandleCommand(cmd)
        /\ call' = call /\ answer'[c] = reply'
        /\ d # c => /\ answer'[d] = answer[d]
                    /\ sent[d] # 0 =>
                         meanwhile'[d] = meanwhile[d] \union (CommandEvents(cmd) \union EndEvents)
    BY <1>3, SendEffect
  <2> HIDE DEF cmd
  <2>2. reply'.kind # "signature"
    BY <2>1, KeyCommand, OtherCommand, SignCommand DEF Quiet
  <2>3. d # c /\ answer[d].kind = "signature"
    BY <2>1, <2>2
  <2>4. sent[d] # 0
    BY <1>2, <2>3 DEF TypeInv, SystemTypeOK, IdleIsFresh
  <2> QED
    BY <2>1, <2>3, <2>4
<1>4. ASSUME NEW c \in Clients,
             \/ \E r \in Requests : Call(c, r)
             \/ Proceed(c)
             \/ Return(c) \/ Disconnected(c) \/ Killed(c)
      PROVE  Kept
  BY <1>2, <1>4, QuietSteps
<1>5. ASSUME Device
      PROVE  \/ Kept
             \/ /\ call[d].op = "sign_tx" /\ call'[d] = call[d]
                /\ answer'[d].path = <<OwnPath(d)>>
                /\ answer'[d].hash = Sha3(call[d].tx)
  <2>1. sent[d] # 0
    BY <1>2, <1>5, NobodyWaitsAfterDevice DEF TypeInv, SystemTypeOK, IdleIsFresh
  <2>2. "signing" \notin meanwhile[d]
    BY <1>5, <2>1 DEF Device, Happens
  <2>3. CASE phase[d] = "waiting"
    BY <1>5, <2>2, <2>3, NobodyWaitsAfterDevice, DeviceAnswersOwnSignature
  <2>4. CASE phase[d] # "waiting"
    BY <1>5, <2>2, <2>4, NobodyWaitsAfterDevice
  <2> QED
    BY <2>3, <2>4
<1>6. CASE UNCHANGED systemVars
  BY <1>1, <1>6 DEF systemVars, clientVars
<1>7. CASE Device
  BY <1>1, <1>5, <1>7 DEF OwnPath
<1> QED
  BY <1>1, <1>3, <1>4, <1>6, <1>7 DEF SystemNext, ClientStep

(* A program that gets a signature gets one over the transaction and with  *)
(* the path it called sign_tx with, unless another program signed during   *)
(* the call: for any number of programs, and whatever the device went      *)
(* through before and meanwhile.                                           *)
THEOREM SignaturesAreOwn == SystemSpec => []SignatureIsOwn
BY SystemInitAnswers, SystemInitSessions, SystemTypes, SystemNextKeepsKeys,
   SystemNextKeepsSessions, SystemNextKeepsSignatures, PTL
DEF SystemSpec

-----------------------------------------------------------------------------
(* Refusals.  The chunk index has room for the pieces of a transaction: on *)
(* the device, 306 <= 3 * 255.                                             *)
FewPieces == TX_LEN <= P1_MAX * MAX_APDU_LEN

(* No piece is empty, and a transaction has no more pieces than indices.   *)
LEMMA PiecesAreProper ==
  ASSUME NEW tx \in Seq(Nat), NEW n \in 1..Pieces(tx, MAX_APDU_LEN)
  PROVE  /\ split_message(tx, MAX_APDU_LEN)[n] # <<>>
         /\ Len(tx) = TX_LEN /\ FewPieces => n <= P1_MAX
<1> DEFINE L == Len(tx)
           M == MAX_APDU_LEN
           p == Pieces(tx, M)
           before == (n - 1) * M
           a == PiecesEnd(tx, M, n - 1)
           b == PiecesEnd(tx, M, n)
<1>1. L \in Nat /\ M \in Nat \ {0} /\ p \in Nat /\ n \in Nat \ {0} /\ n <= p
  BY ClientAssumption, PiecesType
<1>2. p * M <= L + M - 1
  <2>1. \A x \in Nat, m \in Nat \ {0} : (x \div m) * m <= x
    OBVIOUS
  <2>2. p = (L + M - 1) \div M /\ L + M - 1 \in Nat
    BY <1>1 DEF Pieces
  <2> HIDE DEF L, M, p
  <2> QED
    BY <1>1, <2>1, <2>2
<1>3. before \in Nat /\ before < L
  <2>1. \A x, y \in Nat, m \in Nat : x <= y => x * m <= y * m
    OBVIOUS
  <2>2. n * M = before + M /\ before \in Nat /\ n * M \in Nat /\ p * M \in Nat
    <3> HIDE DEF L, M, p
    <3> QED
      BY <1>1
  <2>3. n * M <= p * M
    <3> HIDE DEF L, M, p
    <3> QED
      BY <1>1, <2>1
  <2> HIDE DEF L, M, p, before
  <2> QED
    BY <1>1, <1>2, <2>2, <2>3
<1>4. split_message(tx, M)[n] # <<>>
  <2>1. split_message(tx, M)[n] = SubSeq(tx, a + 1, b)
    BY DEF split_message
  <2>2. a = before
    BY <1>3 DEF PiecesEnd
  <2>3. n * M = before + M /\ n * M \in Nat
    <3> HIDE DEF L, M, p
    <3> QED
      BY <1>1
  <2>4. b > before /\ b \in 0..L
    <3>1. b = IF n * M < L THEN n * M ELSE L
      BY DEF PiecesEnd
    <3> HIDE DEF b, L, M, p, before
    <3> QED
      BY <1>1, <1>3, <2>3, <3>1
  <2>5. \A i, j \in Nat : i \in 1..j /\ j <= Len(tx) => SubSeq(tx, i, j) # <<>>
    BY SubSeqProperties
  <2> HIDE DEF a, b, M, before
  <2>6. a + 1 \in 1..b /\ a + 1 \in Nat /\ b \in Nat /\ b <= Len(tx)
    BY <1>1, <1>3, <2>2, <2>4 DEF L
  <2> QED
    BY <2>1, <2>5, <2>6
<1>5. L = TX_LEN /\ FewPieces => n <= P1_MAX
  <2> SUFFICES ASSUME L <= 3 * M, n >= 4
               PROVE  FALSE
    BY <1>1 DEF FewPieces, P1_MAX
  <2>1. \A x \in Nat, m \in Nat : x >= 4 => (x - 1) * m >= 3 * m /\ (x - 1) * m \in Int
    OBVIOUS
  <2> HIDE DEF L, M, p
  <2>2. before >= 3 * M
    BY <1>1, <2>1
  <2> QED
    BY <1>1, <1>3, <2>2
<1> QED
  BY <1>4, <1>5 DEF L, M

(* The status words of a failure of the library, of the user and of no     *)
(* failure at all are not refusals.                                        *)
LEMMA NotRefusals ==
  /\ NoReply.sw \notin Refusals
  /\ \A sw, kind : Answer(sw, kind).sw = sw
  /\ \A c : Signature(c).sw = "SW_OK" /\ PublicKey(c).sw = "SW_OK"
  /\ {"SW_OK", "SW_DENY", "SW_SIGNATURE_FAIL", "SW_TX_HASH_FAIL",
      "SW_DISPLAY_AMOUNT_FAIL", "SW_DISPLAY_ADDRESS_FAIL",
      "SW_DISPLAY_HASH_FAIL"} \intersect Refusals = {}
<1>1. NoReply.sw = "none"
  BY DEF NoReply
<1>2. \A sw, kind : Answer(sw, kind).sw = sw
  BY DEF Answer, NoReply
<1>3. \A c : Signature(c).sw = "SW_OK" /\ PublicKey(c).sw = "SW_OK"
  BY DEF Signature, PublicKey, Answer, NoReply
<1> QED
  BY <1>1, <1>2, <1>3 DEF Refusals

(* A handler that answers a status word that is no refusal does not refuse. *)
LEMMA StatusNotRefused ==
  ASSUME NEW sw \in {"SW_OK", "SW_DENY", "SW_SIGNATURE_FAIL", "SW_TX_HASH_FAIL",
                     "SW_DISPLAY_AMOUNT_FAIL", "SW_DISPLAY_ADDRESS_FAIL",
                     "SW_DISPLAY_HASH_FAIL"},
         HandlerReplies(Status(sw))
  PROVE  reply'.sw \notin Refusals
<1>1. Status(sw).sw = sw
  BY NotRefusals DEF Status
<1> QED
  BY <1>1, NotRefusals DEF HandlerReplies

(* A transaction of a known type is shown unless the library fails. *)
LEMMA DisplayNotRefused ==
  ASSUME NEW c, BlockType(c) \in SendTypes \union ReceiveTypes,
         DisplayTransaction(c)
  PROVE  reply'.sw \notin Refusals
<1>1. ASSUME NEW amount \in Outcome("bigint_format", "SW_DISPLAY_AMOUNT_FAIL"),
             amount # "SW_OK", HandlerReplies(Status(amount))
      PROVE  reply'.sw \notin Refusals
  BY <1>1, StatusNotRefused DEF Outcome
<1>2. ASSUME NEW address \in Outcome("address_encode", "SW_DISPLAY_ADDRESS_FAIL"),
             address # "SW_OK", HandlerReplies(Status(address))
      PROVE  reply'.sw \notin Refusals
  BY <1>2, StatusNotRefused DEF Outcome
<1>3. ASSUME NEW hash \in Outcome("format_hex", "SW_DISPLAY_HASH_FAIL"),
             hash # "SW_OK", HandlerReplies(Status(hash))
      PROVE  reply'.sw \notin Refusals
  BY <1>3, StatusNotRefused DEF Outcome
<1>4. ASSUME NEW page, Review(page)
      PROVE  reply'.sw \notin Refusals
  BY <1>4, NotRefusals DEF Review
<1> QED
  BY <1>1, <1>2, <1>3, <1>4 DEF DisplayTransaction

(* A command of SIGN_TX as sign_tx makes them passes the dispatcher. *)
LEMMA ProperCommandDispatched ==
  ASSUME NEW p1 \in Nat, NEW p2 \in {P2_LAST, P2_MORE}, NEW data,
         data # <<>>, p1 <= P1_MAX, p1 = P1_START => p2 = P2_MORE
  PROVE  Verdict(APDU(SIGN_TX, p1, p2, data)) = "SW_OK"
<1> DEFINE cmd == APDU(SIGN_TX, p1, p2, data)
<1>1. /\ cmd.cla = CLA /\ cmd.ins = SIGN_TX /\ cmd.p1 = p1 /\ cmd.p2 = p2
      /\ cmd.data = data
  BY DEF APDU
<1> HIDE DEF cmd
<1>2. ~BadP1P2(cmd)
  BY <1>1
  DEF BadP1P2, GET_VERSION, GET_APP_NAME, GET_PUBLIC_KEY, SIGN_TX, P1_MAX
<1>3. Verdict(cmd) = "SW_OK"
  BY <1>1, <1>2 DEF Verdict
<1> QED
  BY <1>3 DEF cmd

(* Chunk 0 with a path of a proper length is accepted. *)
LEMMA ProperStart ==
  ASSUME NEW path \in Seq(Nat), Len(path) \in 1..MAX_BIP32_PATH,
         HandleCommand(APDU(SIGN_TX, P1_START, P2_MORE, pack_derivation_path(path)))
  PROVE  reply'.sw \notin Refusals
<1> DEFINE data == pack_derivation_path(path)
           cmd == APDU(SIGN_TX, P1_START, P2_MORE, data)
<1>1. data # <<>> /\ data[1] = Len(path) /\ Len(data) = Len(path) + 1
  BY DEF pack_derivation_path
<1>2. PathOK(data)
  <2>1. Len(path) \in Nat
    OBVIOUS
  <2> HIDE DEF data
  <2> QED
    BY <1>1, <2>1 DEF PathOK, PathLenOK
<1> HIDE DEF data
<1>3. /\ cmd.ins = SIGN_TX /\ cmd.p1 = P1_START /\ cmd.data = data
  BY DEF APDU
<1>4. Verdict(cmd) = "SW_OK"
  BY <1>1, ProperCommandDispatched DEF P1_START, P1_MAX
<1>5. HandleCommand(cmd)
  BY DEF data
<1> HIDE DEF cmd
<1>6. SignStart(cmd)
  BY <1>3, <1>4, <1>5
  DEF HandleCommand, RefuseCommand, HandlerGetVersion, HandlerGetAppName,
      HandlerGetPublicKey, SignChunkRefused, SignChunkMore, SignChunkLast, Chunk,
      Dispatched, GET_PUBLIC_KEY, GET_VERSION, GET_APP_NAME, SIGN_TX
<1>7. HandlerReplies(Status("SW_OK"))
  BY <1>2, <1>3, <1>6 DEF SignStart
<1> QED
  BY <1>7, StatusNotRefused

(* So is a piece that fits the session; the last one, if it completes a    *)
(* transaction of a known type.                                            *)
LEMMA ProperChunk ==
  ASSUME Inv, NEW n \in 1..P1_MAX, NEW p2 \in {P2_LAST, P2_MORE},
         NEW data \in Seq(Nat), data # <<>>,
         HandleCommand(APDU(SIGN_TX, n, p2, data)),
         ctx.req_type = "CONFIRM_TRANSACTION",
         Len(ctx.raw_tx \o data) <= TRANSACTION_LEN,
         p2 = P2_LAST =>
           /\ Len(ctx.raw_tx \o data) = TX_LEN
           /\ (ctx.raw_tx \o data)[BLOCK_TYPE_AT] \in SendTypes \union ReceiveTypes
  PROVE  reply'.sw \notin Refusals
<1> DEFINE cmd == APDU(SIGN_TX, n, p2, data)
           loaded == Appended(ctx, data)
<1>1. cmd.ins = SIGN_TX /\ cmd.p1 = n /\ cmd.p2 = p2 /\ cmd.data = data
  BY DEF APDU
<1>2. Verdict(cmd) = "SW_OK" /\ n # P1_START /\ HandleCommand(cmd)
  BY ProperCommandDispatched DEF P1_START, P1_MAX
<1>3. ctx \in Context /\ ctx.raw_tx \in Seq(Nat)
  BY DEF Inv, TypeOK, Context
<1>4. ChunkVerdict(cmd) = "SW_OK"
  <2>1. Len(ctx.raw_tx \o data) = Len(ctx.raw_tx) + Len(data)
    BY <1>3
  <2>2. Len(ctx.raw_tx) \in Nat /\ Len(data) \in Nat /\ TRANSACTION_LEN \in Nat
    BY <1>3, ProtocolAssumption
  <2> HIDE DEF cmd
  <2> QED
    BY <1>1, <2>1, <2>2 DEF ChunkVerdict
<1> HIDE DEF cmd
<1>5. SignChunkMore(cmd) \/ SignChunkLast(cmd)
  <2>1. ~ (HandlerGetVersion(cmd) \/ HandlerGetAppName(cmd) \/ HandlerGetPublicKey(cmd))
    BY <1>1 DEF HandlerGetVersion, HandlerGetAppName, HandlerGetPublicKey, Dispatched,
                GET_PUBLIC_KEY, GET_VERSION, GET_APP_NAME, SIGN_TX
  <2> QED
    BY <1>1, <1>2, <1>4, <2>1
    DEF HandleCommand, RefuseCommand, SignStart, SignChunkRefused
<1>6. CASE SignChunkMore(cmd)
  BY <1>6, StatusNotRefused DEF SignChunkMore
<1>7. CASE SignChunkLast(cmd)
  <2>1. /\ loaded \in Context /\ loaded.raw_tx = ctx.raw_tx \o data
        /\ Hashed(loaded).raw_tx = loaded.raw_tx
    BY <1>3, ChunkContexts
  <2> HIDE DEF loaded
  <2>2. Complete(loaded) /\ BlockType(Hashed(loaded)) \in SendTypes \union ReceiveTypes
    BY <1>1, <1>7, <2>1 DEF SignChunkLast, Complete, BlockType
  <2>3. HandlerReplies(Status("SW_TX_HASH_FAIL")) \/ DisplayTransaction(Hashed(loaded))
    BY <1>1, <1>7, <2>2 DEF SignChunkLast, loaded
  <2> QED
    BY <2>2, <2>3, StatusNotRefused, DisplayNotRefused
<1> QED
  BY <1>5, <1>6, <1>7

(* A proper call that finds its own session sends a command that is not    *)
(* refused.                                                                *)
LEMMA SendNotRefused ==
  ASSUME TypeInv, SessionInv, FewPieces, NEW c \in Clients, Send(c),
         ProperTransaction(call[c]), Undisturbed(c)
  PROVE  reply'.sw \notin Refusals
<1> DEFINE cmd == Script(call[c])[sent[c] + 1]
           n == sent[c]
           tx == call[c].tx
           last == IF n + 1 = Chunks(call[c]) + 1 THEN P2_LAST ELSE P2_MORE
           piece == split_message(tx, MAX_APDU_LEN)[n]
<1>1. /\ Inv /\ phase[c] = "ready" /\ call[c] \in Request
      /\ n \in Nat /\ n + 1 \in 1..Len(Script(call[c]))
      /\ HandleCommand(cmd)
  BY SendEffect
<1>2. /\ call[c].op = "sign_tx" /\ tx \in Seq(Nat) /\ call[c].path \in Seq(Nat)
      /\ Len(call[c].path) \in 1..MAX_BIP32_PATH /\ Len(tx) = TX_LEN
      /\ tx[BLOCK_TYPE_AT] \in SendTypes \union ReceiveTypes
  BY <1>1 DEF ProperTransaction, Request
<1>3. CASE n = 0
  <2>1. cmd = APDU(SIGN_TX, P1_START, P2_MORE, pack_derivation_path(call[c].path))
    BY <1>1, <1>2, <1>3, SignScript
  <2> HIDE DEF cmd
  <2> QED
    BY <1>1, <1>2, <2>1, ProperStart
<1>4. CASE n # 0
  <2>1. Chunks(call[c]) \in Nat /\ Len(Script(call[c])) = Chunks(call[c]) + 1
    BY <1>1, <1>2, SignScript
  <2>2. /\ n \in 1..Pieces(tx, MAX_APDU_LEN) /\ n + 1 \in 2..Chunks(call[c]) + 1
        /\ (n + 1) - 1 = n
    BY <1>1, <1>4, <2>1 DEF Chunks
  <2>3. cmd = APDU(SIGN_TX, n, last, piece)
    BY <1>1, <1>2, <2>2, SignScript
  <2>4. n \in 1..P1_MAX /\ piece # <<>>
    <3>1. piece # <<>> /\ n <= P1_MAX
      <4> HIDE DEF n, tx, piece
      <4> QED
        BY <1>2, <2>2, PiecesAreProper DEF piece
    <3> HIDE DEF n, piece
    <3> QED
      BY <1>1, <1>4, <3>1 DEF P1_MAX
  <2>5. ctx.req_type = "CONFIRM_TRANSACTION" /\ ctx.raw_tx = SoFar(c)
    <3>1. Engaged(c)
      BY <1>1, <1>2, <1>4 DEF Engaged, Signing, Progressing
    <3> QED
      BY <3>1 DEF SessionInv, SessionOf, Undisturbed
  <2>6. /\ piece \in Seq(Nat)
        /\ ctx.raw_tx \o piece = SubSeq(tx, 1, PiecesEnd(tx, MAX_APDU_LEN, n))
    BY <1>2, <2>2, <2>5, NextPiece DEF SoFar
  <2>7. PiecesEnd(tx, MAX_APDU_LEN, n) \in 0..TX_LEN
    BY <1>1, <1>2, PiecesEnds
  <2>8. Len(ctx.raw_tx \o piece) <= TRANSACTION_LEN
    <3>1. Len(SubSeq(tx, 1, PiecesEnd(tx, MAX_APDU_LEN, n)))
            = PiecesEnd(tx, MAX_APDU_LEN, n)
      BY <1>2, <2>7, SubSeqProperties
    <3> QED
      BY <2>6, <2>7, <3>1, ProtocolAssumption
  <2>9. last = P2_LAST => ctx.raw_tx \o piece = tx
    <3>1. last = P2_LAST => n = Pieces(tx, MAX_APDU_LEN)
      BY <1>1, <2>1 DEF P2_LAST, P2_MORE, Chunks
    <3>2. SubSeq(tx, 1, Len(tx)) = tx
      BY <1>2
    <3> QED
      BY <1>2, <2>6, <3>1, <3>2, PiecesEnds
  <2>10. last \in {P2_LAST, P2_MORE}
    OBVIOUS
  <2> HIDE DEF cmd, last, piece, n, tx
  <2> QED
    BY <1>1, <1>2, <2>3, <2>4, <2>5, <2>6, <2>8, <2>9, <2>10, ProperChunk
<1> QED
  BY <1>3, <1>4

(* Nor does the device refuse on its own: a review ends in what was asked  *)
(* for, in the user's rejection, in a failure to sign or with the app.     *)
LEMMA DeviceNotRefused ==
  ASSUME TypeInv, Device, NEW c \in Clients, phase[c] = "waiting"
  PROVE  reply'.sw \notin Refusals
<1>1. Inv /\ awaiting /\ Reviewing
  BY DEF TypeInv, OneWaits, Inv, AwaitingIffReview
<1>2. UserDecides \/ Exit
  BY <1>1 DEF Device, DeviceAlone, Launch, DismissStatus, Reviewing, Running, StatusPages
<1>3. reply' \in {NoReply, Status("SW_DENY"), Status("SW_SIGNATURE_FAIL"),
                  PublicKey(ctx), Signature(ctx)}
  BY <1>2
  DEF UserDecides, Exit, ChooseAddress, RejectTransaction, ConfirmTransaction,
      CallbackReplies
<1> QED
  BY <1>3, NotRefusals DEF Status

(* Whatever the programs and the device do, no proper call is refused. *)
LEMMA SystemNextRefusesNone ==
  ASSUME FewPieces
  PROVE  TypeInv /\ SessionInv /\ ProperCallNotRefused /\ [SystemNext]_systemVars
         => ProperCallNotRefused'
<1> SUFFICES ASSUME TypeInv, SessionInv, ProperCallNotRefused,
                    [SystemNext]_systemVars,
                    NEW d \in Clients,
                    ProperTransaction(call'[d]), meanwhile'[d] = {},
                    answer'[d].sw \in Refusals
             PROVE  FALSE
  BY DEF ProperCallNotRefused, ProperTransaction, Undisturbed
<1>1. ~ (/\ call'[d] = call[d] /\ answer'[d] = answer[d] /\ meanwhile[d] = {})
  BY DEF ProperCallNotRefused, ProperTransaction, Undisturbed
<1>2. answer'[d] # NoReply /\ (answer'[d] = answer[d] => sent[d] # 0)
  BY NotRefusals DEF TypeInv, SystemTypeOK, IdleIsFresh
<1>3. ASSUME NEW c \in Clients, Send(c)
      PROVE  FALSE
  <2>1. /\ call' = call
        /\ answer'[c] = reply' /\ meanwhile'[c] = meanwhile[c]
        /\ d # c => /\ answer'[d] = answer[d]
                    /\ sent[d] # 0 =>
                         meanwhile[d] \subseteq meanwhile'[d]
    BY <1>3, SendEffect
  <2>2. CASE d = c
    BY <1>3, <2>1, <2>2, SendNotRefused DEF Undisturbed
  <2>3. CASE d # c
    BY <1>1, <1>2, <2>1, <2>3
  <2> QED
    BY <2>2, <2>3
<1>4. ASSUME NEW c \in Clients,
             \/ \E r \in Requests : Call(c, r)
             \/ Proceed(c)
             \/ Return(c) \/ Disconnected(c) \/ Killed(c)
      PROVE  FALSE
  BY <1>1, <1>2, <1>4, QuietSteps
<1>5. CASE Device
  <2>1. CASE phase[d] = "waiting"
    BY <1>5, <2>1, NobodyWaitsAfterDevice, DeviceNotRefused
  <2>2. CASE phase[d] # "waiting"
    <3>1. call'[d] = call[d] /\ answer'[d] = answer[d]
      BY <1>5, <2>2, NobodyWaitsAfterDevice
    <3>2. meanwhile[d] = {}
      BY <1>2, <1>5, <3>1 DEF Device, Happens
    <3> QED
      BY <1>1, <3>1, <3>2
  <2> QED
    BY <2>1, <2>2
<1>6. CASE UNCHANGED systemVars
  BY <1>1, <1>6 DEF systemVars, clientVars
<1> QED
  BY <1>3, <1>4, <1>5, <1>6 DEF SystemNext, ClientStep

(* A proper call that nothing disturbs is not refused, if its pieces are   *)
(* few enough for the chunk index (split_message of the client and P1_MAX  *)
(* of the dispatcher): for any transaction length, any piece length with   *)
(* that relation, and whatever the device went through before.             *)
THEOREM ProperCallsAreServed ==
  ASSUME FewPieces
  PROVE  SystemSpec => []ProperCallNotRefused
<1>1. SystemInit => ProperCallNotRefused
  BY NotRefusals DEF SystemInit, ProperCallNotRefused
<1>2. TypeInv /\ SessionInv /\ ProperCallNotRefused /\ [SystemNext]_systemVars
      => ProperCallNotRefused'
  BY SystemNextRefusesNone
<1> QED
  BY <1>1, <1>2, SystemInitSessions, SystemTypes, SystemNextKeepsSessions, PTL
  DEF SystemSpec
=============================================================================
