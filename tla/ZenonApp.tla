------------------------------ MODULE ZenonApp ------------------------------
(***************************************************************************)
(* The running app: the command loop of app_main, the dispatcher, the four *)
(* handlers, the two review flows and the callbacks the user's choice      *)
(* triggers.                                                               *)
(*                                                                         *)
(* The app is single threaded.  UI callbacks run only while app_main waits *)
(* inside io_recv_command, so receiving, dispatching and handling one      *)
(* command is one step, and so is one callback.  The transport delivers no *)
(* command while the previous one is unanswered (see the README), hence    *)
(* the guard ~awaiting of every command.                                   *)
(*                                                                         *)
(* Operators commented as faulty variants are not part of the model: each  *)
(* shows that a property would catch the fault (see the README).           *)
(***************************************************************************)
EXTENDS ZenonProtocol

CONSTANTS
  Commands,   \* the commands hosts send
  MayFail     \* the library calls that may fail, a subset of LibraryCalls

LibraryCalls ==
  {"io_send_response", "bip32_derive_get_pubkey", "bip32_path_format",
   "address_from_pubkey", "cx_hash", "bigint_format", "address_encode",
   "format_hex", "bip32_derive_sign_hash"}

ASSUME AppAssumption ==
  /\ Commands \subseteq Command
  /\ MayFail \subseteq LibraryCalls

VARIABLES
  ctx,         \* G_context
  screen,      \* what the device displays
  awaiting,    \* a received command still has to be answered; an answer that
               \* could not be sent counts, the app does not try again
  reply,       \* the answer to the last command, NoReply while it is owed
  initialized  \* the flag of N_storage, in non-volatile memory

vars == <<ctx, screen, awaiting, reply, initialized>>

-----------------------------------------------------------------------------
(* Screens.  A page shows at most a path, a key (the address is computed   *)
(* from it), the fields of a send or the hash of a receive.                *)
StatusPages ==
  {"ADDRESS_VERIFIED", "ADDRESS_REJECTED",
   "TRANSACTION_SIGNED", "TRANSACTION_REJECTED"}
Pages == {"dashboard", "home", "address", "transaction"} \union StatusPages

Screen ==
  [page : Pages, blind : BOOLEAN, path : Seq(Path), key : Key,
   fields : Seq(Nat), hash : Hash]

Plain(page) ==
  [page |-> page, blind |-> FALSE, path |-> <<>>, key |-> <<>>,
   fields |-> <<>>, hash |-> <<>>]

(* The app is not running: the device shows its dashboard. *)
Dashboard == Plain("dashboard")
Home == Plain("home")

(* Answers.  A signature is the pair of the signing path and the digest.   *)
Kinds == {"none", "status", "version", "app_name", "public_key", "signature"}
StatusWords ==
  {"SW_OK", "SW_DENY", "SW_WRONG_P1P2", "SW_WRONG_DATA_LENGTH",
   "SW_INS_NOT_SUPPORTED", "SW_CLA_NOT_SUPPORTED", "SW_DISPLAY_BIP32_PATH_FAIL",
   "SW_DISPLAY_ADDRESS_FAIL", "SW_DISPLAY_AMOUNT_FAIL", "SW_DISPLAY_HASH_FAIL",
   "SW_WRONG_TX_LENGTH", "SW_TX_PARSING_FAIL", "SW_TX_HASH_FAIL", "SW_BAD_STATE",
   "SW_SIGNATURE_FAIL", "cx_error"}

Reply ==
  [sw : StatusWords \union {"none"}, kind : Kinds, path : Seq(Path),
   key : Key, hash : Hash]

NoReply ==
  [sw |-> "none", kind |-> "none", path |-> <<>>, key |-> <<>>, hash |-> <<>>]
Answer(sw, kind) == [NoReply EXCEPT !.sw = sw, !.kind = kind]
Status(sw) == Answer(sw, "status")
PublicKey(c) == [Answer("SW_OK", "public_key") EXCEPT !.key = c.public_key]
Signature(c) ==
  [Answer("SW_OK", "signature") EXCEPT !.path = <<c.bip32>>, !.hash = c.m_hash]

-----------------------------------------------------------------------------
Running == screen.page # "dashboard"
Reviewing == screen.page \in {"address", "transaction"}

(* The status words a library call can lead to. *)
Outcome(call, failure) ==
  {"SW_OK"} \union (IF call \in MayFail THEN {failure} ELSE {})

(* A handler's answer.  When it cannot be sent the handler returns a       *)
(* negative value and app_main returns: the app ends.                      *)
HandlerReplies(answer) ==
  /\ awaiting' = FALSE
  /\ \/ reply' = answer /\ screen' = screen
     \/ /\ "io_send_response" \in MayFail
        /\ reply' = NoReply /\ screen' = Dashboard

(* A callback's answer, followed by its status page.  The result of        *)
(* sending it is ignored.                                                  *)
CallbackReplies(answer, page) ==
  /\ awaiting' = FALSE
  /\ screen' = Plain(page)
  /\ \/ reply' = answer
     \/ "io_send_response" \in MayFail /\ reply' = NoReply

(* A handler that opened a review returns 0 without answering. *)
Review(page) ==
  /\ screen' = page
  /\ awaiting' = TRUE
  /\ reply' = NoReply

-----------------------------------------------------------------------------
(* app_main from its entry to the loop.  The leftovers of an earlier life  *)
(* of the app are wiped, and the storage is initialised once.              *)
Launch ==
  /\ ~Running
  /\ screen' = Home
  /\ ctx' = ZeroContext
  /\ initialized' = TRUE
  /\ UNCHANGED <<awaiting, reply>>

(* io_recv_command fails, the user leaves from the home page, or the       *)
(* device loses power: the app ends and an owed answer is lost.  RAM       *)
(* keeps what it held, as far as the next launch is concerned.             *)
Exit ==
  /\ Running
  /\ screen' = Dashboard
  /\ awaiting' = FALSE
  /\ reply' = NoReply
  /\ UNCHANGED <<ctx, initialized>>

(* apdu_parser refuses the bytes received; whether the answer can be sent  *)
(* is not looked at.                                                       *)
ReceiveMalformed ==
  /\ Running /\ ~awaiting
  /\ \/ reply' = Status("SW_WRONG_DATA_LENGTH")
     \/ "io_send_response" \in MayFail /\ reply' = NoReply
  /\ UNCHANGED <<ctx, screen, awaiting, initialized>>

(* A command reaches the dispatcher. *)
Received(cmd) == Running /\ ~awaiting /\ UNCHANGED initialized

RefuseCommand(cmd) ==
  /\ Received(cmd)
  /\ Verdict(cmd) # "SW_OK"
  /\ HandlerReplies(Status(Verdict(cmd)))
  /\ UNCHANGED ctx

HandlerGetVersion(cmd) ==
  /\ Received(cmd) /\ Dispatched(cmd, GET_VERSION)
  /\ HandlerReplies(Answer("SW_OK", "version"))
  /\ UNCHANGED ctx

HandlerGetAppName(cmd) ==
  /\ Received(cmd) /\ Dispatched(cmd, GET_APP_NAME)
  /\ HandlerReplies(Answer("SW_OK", "app_name"))
  /\ UNCHANGED ctx

-----------------------------------------------------------------------------
(* ui_display_address.  Its check of the request type and the state always *)
(* passes: it is only called with what DerivedContext builds.              *)
AddressReview(c) ==
  [Plain("address") EXCEPT !.path = <<c.bip32>>, !.key = c.public_key]

DisplayAddress(c) ==
  \E formatted \in Outcome("bip32_path_format", "SW_DISPLAY_BIP32_PATH_FAIL"),
     encoded \in Outcome("address_from_pubkey", "SW_DISPLAY_ADDRESS_FAIL") :
    IF formatted # "SW_OK" THEN HandlerReplies(Status(formatted))
    ELSE IF encoded # "SW_OK" THEN HandlerReplies(Status(encoded))
    ELSE Review(AddressReview(c))

(* handler_get_public_key up to the derivation, and after it. *)
AddressContext(data) == [ZeroContext EXCEPT !.bip32 = PathRead(data)]
(* Faulty variant: the key is derived before the path is stored. *)
DerivedContextTooEarly(data) ==
  [AddressContext(data) EXCEPT !.member = "public_key",
                               !.public_key = KeyOf(ctx.bip32)]

DerivedContext(data) ==
  [AddressContext(data) EXCEPT !.member = "public_key",
                               !.public_key = KeyOf(PathRead(data))]

HandlerGetPublicKey(cmd) ==
  /\ Received(cmd) /\ Dispatched(cmd, GET_PUBLIC_KEY)
  /\ \/ /\ ~PathOK(cmd.data)
        /\ ctx' = AddressContext(cmd.data)
        /\ HandlerReplies(Status("SW_WRONG_DATA_LENGTH"))
     \/ /\ PathOK(cmd.data)
        /\ "bip32_derive_get_pubkey" \in MayFail
        /\ ctx' = AddressContext(cmd.data)
        /\ HandlerReplies(Status("cx_error"))
     \/ /\ PathOK(cmd.data)
        /\ ctx' = DerivedContext(cmd.data)
        /\ IF cmd.p1 = 1 THEN DisplayAddress(DerivedContext(cmd.data))
                         ELSE HandlerReplies(PublicKey(DerivedContext(cmd.data)))

(* Faulty variant: a rejection only turns the page. *)
ChooseAddressSilently(confirm) ==
  /\ screen.page = "address"
  /\ IF confirm
     THEN CallbackReplies(PublicKey(ctx), "ADDRESS_VERIFIED")
     ELSE screen' = Plain("ADDRESS_REJECTED") /\ UNCHANGED <<awaiting, reply>>
  /\ UNCHANGED <<ctx, initialized>>

(* The address review's choice: validate_pubkey and the status page. *)
ChooseAddress(confirm) ==
  /\ screen.page = "address"
  /\ IF confirm
     THEN CallbackReplies(PublicKey(ctx), "ADDRESS_VERIFIED")
     ELSE CallbackReplies(Status("SW_DENY"), "ADDRESS_REJECTED")
  /\ UNCHANGED <<ctx, initialized>>

-----------------------------------------------------------------------------
(* Faulty variant: chunk 0 does not clear the context. *)
SigningContextUncleared(data) ==
  [ctx EXCEPT !.req_type = "CONFIRM_TRANSACTION", !.state = "STATE_NONE",
              !.bip32 = PathRead(data)]

(* handler_sign_tx, chunk 0.  The request type is set before the path is   *)
(* read, and stays when it cannot be.                                      *)
SigningContext(data) ==
  [ZeroContext EXCEPT !.req_type = "CONFIRM_TRANSACTION",
                      !.bip32 = PathRead(data)]

SignStart(cmd) ==
  /\ Received(cmd) /\ Dispatched(cmd, SIGN_TX) /\ cmd.p1 = P1_START
  /\ ctx' = SigningContext(cmd.data)
  /\ HandlerReplies(Status(IF PathOK(cmd.data) THEN "SW_OK"
                                               ELSE "SW_WRONG_DATA_LENGTH"))

(* Any later chunk index: the index itself is not compared with anything.  *)
Chunk(cmd) == Received(cmd) /\ Dispatched(cmd, SIGN_TX) /\ cmd.p1 # P1_START

(* Faulty variant: the length check forgets the chunk. *)
ChunkVerdictTooLate(cmd) ==
  IF ctx.req_type # "CONFIRM_TRANSACTION" THEN "SW_BAD_STATE"
  ELSE IF Len(ctx.raw_tx) >= TRANSACTION_LEN THEN "SW_WRONG_TX_LENGTH"
  ELSE "SW_OK"

(* Faulty variant: a chunk that fits exactly is refused. *)
ChunkVerdictTooSoon(cmd) ==
  IF ctx.req_type # "CONFIRM_TRANSACTION" THEN "SW_BAD_STATE"
  ELSE IF Len(ctx.raw_tx) + Len(cmd.data) >= TRANSACTION_LEN
    THEN "SW_WRONG_TX_LENGTH"
  ELSE "SW_OK"

ChunkVerdict(cmd) ==
  IF ctx.req_type # "CONFIRM_TRANSACTION" THEN "SW_BAD_STATE"
  ELSE IF Len(ctx.raw_tx) + Len(cmd.data) > TRANSACTION_LEN
    THEN "SW_WRONG_TX_LENGTH"
  ELSE "SW_OK"

(* Faulty variant: the chunk goes before what is there. *)
AppendedInFront(c, data) ==
  [c EXCEPT !.raw_tx = data \o c.raw_tx, !.member = "tx_info"]

Appended(c, data) ==
  [c EXCEPT !.raw_tx = c.raw_tx \o data, !.member = "tx_info"]
Parsed(c) == [c EXCEPT !.state = "STATE_PARSED"]
(* Faulty variant: the digest misses the last byte. *)
HashedShort(c) ==
  [Parsed(c) EXCEPT !.m_hash = Sha3(SubSeq(c.raw_tx, 1, Len(c.raw_tx) - 1))]

Hashed(c) == [Parsed(c) EXCEPT !.m_hash = Sha3(c.raw_tx)]

SignChunkRefused(cmd) ==
  /\ Chunk(cmd)
  /\ ChunkVerdict(cmd) # "SW_OK"
  /\ HandlerReplies(Status(ChunkVerdict(cmd)))
  /\ UNCHANGED ctx

SignChunkMore(cmd) ==
  /\ Chunk(cmd) /\ cmd.p2 = P2_MORE
  /\ ChunkVerdict(cmd) = "SW_OK"
  /\ ctx' = Appended(ctx, cmd.data)
  /\ HandlerReplies(Status("SW_OK"))

(* ui_display_transaction and ui_display_blind_signed_transaction.  Their  *)
(* check of the request type and the state always passes: they are only    *)
(* called after the chunk checks, with what Hashed builds.                 *)
SendTypes == {2, 4}
ReceiveTypes == {1, 3, 5}
BlockType(c) == c.raw_tx[BLOCK_TYPE_AT]
ShownFields(c) == [i \in 1..Len(SHOWN_AT) |-> c.raw_tx[SHOWN_AT[i]]]

(* Faulty variant: the review points one field off. *)
SendReviewOneOff(c) ==
  [Plain("transaction") EXCEPT
     !.fields = [i \in 1..Len(SHOWN_AT) |-> c.raw_tx[SHOWN_AT[i] - 1]]]

SendReview(c) == [Plain("transaction") EXCEPT !.fields = ShownFields(c)]
ReceiveReview(c) ==
  [Plain("transaction") EXCEPT !.blind = TRUE, !.hash = c.m_hash]

DisplayTransaction(c) ==
  \/ /\ BlockType(c) \in SendTypes
     /\ \E amount \in Outcome("bigint_format", "SW_DISPLAY_AMOUNT_FAIL"),
           address \in Outcome("address_encode", "SW_DISPLAY_ADDRESS_FAIL") :
          IF amount # "SW_OK" THEN HandlerReplies(Status(amount))
          ELSE IF address # "SW_OK" THEN HandlerReplies(Status(address))
          ELSE Review(SendReview(c))
  \/ /\ BlockType(c) \in ReceiveTypes
     /\ \E hash \in Outcome("format_hex", "SW_DISPLAY_HASH_FAIL") :
          IF hash # "SW_OK" THEN HandlerReplies(Status(hash))
          ELSE Review(ReceiveReview(c))
  \/ /\ BlockType(c) \notin SendTypes \union ReceiveTypes
     /\ HandlerReplies(Status("SW_BAD_STATE"))

(* The last chunk: append, deserialize, hash and open the review.  What    *)
(* was appended stays when a later step fails.                             *)
Complete(c) == Len(c.raw_tx) = TX_LEN

SignChunkLast(cmd) ==
  /\ Chunk(cmd) /\ cmd.p2 = P2_LAST
  /\ ChunkVerdict(cmd) = "SW_OK"
  /\ LET loaded == Appended(ctx, cmd.data) IN
     \/ /\ ~Complete(loaded)
        /\ ctx' = loaded
        /\ HandlerReplies(Status("SW_TX_PARSING_FAIL"))
     \/ /\ Complete(loaded) /\ "cx_hash" \in MayFail
        /\ ctx' = Parsed(loaded)
        /\ HandlerReplies(Status("SW_TX_HASH_FAIL"))
     \/ /\ Complete(loaded)
        /\ ctx' = Hashed(loaded)
        /\ DisplayTransaction(Hashed(loaded))

(* The transaction review's choice: validate_transaction and the status    *)
(* page, which is the one for a signed transaction whenever the user       *)
(* confirmed.                                                              *)
RejectTransaction ==
  /\ screen.page = "transaction"
  /\ ctx' = [ctx EXCEPT !.state = "STATE_NONE"]
  /\ CallbackReplies(Status("SW_DENY"), "TRANSACTION_REJECTED")
  /\ UNCHANGED initialized

(* Faulty variant: a signature that fails is not reported. *)
ConfirmTransactionSilently ==
  /\ screen.page = "transaction"
  /\ \/ /\ ctx' = [ctx EXCEPT !.state = "STATE_APPROVED"]
        /\ CallbackReplies(Signature(ctx), "TRANSACTION_SIGNED")
     \/ /\ "bip32_derive_sign_hash" \in MayFail
        /\ ctx' = [ctx EXCEPT !.state = "STATE_NONE"]
        /\ screen' = Plain("TRANSACTION_SIGNED")
        /\ UNCHANGED <<awaiting, reply>>
  /\ UNCHANGED initialized

ConfirmTransaction ==
  /\ screen.page = "transaction"
  /\ \/ /\ ctx' = [ctx EXCEPT !.state = "STATE_APPROVED"]
        /\ CallbackReplies(Signature(ctx), "TRANSACTION_SIGNED")
     \/ /\ "bip32_derive_sign_hash" \in MayFail
        /\ ctx' = [ctx EXCEPT !.state = "STATE_NONE"]
        /\ CallbackReplies(Status("SW_SIGNATURE_FAIL"), "TRANSACTION_SIGNED")
  /\ UNCHANGED initialized

(* A status page times out or is touched: ui_menu_main. *)
DismissStatus ==
  /\ screen.page \in StatusPages
  /\ screen' = Home
  /\ UNCHANGED <<ctx, awaiting, reply, initialized>>

-----------------------------------------------------------------------------
Init ==
  /\ ctx = ZeroContext
  /\ screen = Dashboard
  /\ awaiting = FALSE
  /\ reply = NoReply
  /\ initialized = FALSE

HandleCommand(cmd) ==
  \/ RefuseCommand(cmd)
  \/ HandlerGetVersion(cmd)
  \/ HandlerGetAppName(cmd)
  \/ HandlerGetPublicKey(cmd)
  \/ SignStart(cmd)
  \/ SignChunkRefused(cmd)
  \/ SignChunkMore(cmd)
  \/ SignChunkLast(cmd)

UserDecides ==
  \/ \E confirm \in BOOLEAN : ChooseAddress(confirm)
  \/ RejectTransaction
  \/ ConfirmTransaction

Next ==
  \/ Launch
  \/ Exit
  \/ ReceiveMalformed
  \/ \E cmd \in Commands : HandleCommand(cmd)
  \/ UserDecides
  \/ DismissStatus

Spec == Init /\ [][Next]_vars

(* The user eventually touches one of the two buttons of an open review.   *)
FairSpec == Spec /\ WF_vars(UserDecides)

-----------------------------------------------------------------------------
(* Type invariant: in particular raw_tx never outgrows its buffer.         *)
TypeOK ==
  /\ ctx \in Context /\ Len(ctx.raw_tx) <= TRANSACTION_LEN
  /\ screen \in Screen
  /\ awaiting \in BOOLEAN
  /\ reply \in Reply
  /\ initialized \in BOOLEAN

(* The device owes an answer exactly while a review is on display: no      *)
(* handler leaves a command unanswered otherwise, and no callback leaves   *)
(* a review without answering (the review flows of nbgl_display_*.c return *)
(* 0 without answering; validate.c answers later).                         *)
AwaitingIffReview == awaiting <=> Reviewing

(* While a review is on display G_context still is what it shows: the      *)
(* callbacks of validate.c run long after the handler returned and read    *)
(* the context, not the screen.                                            *)
AddressReviewMatches ==
  screen.page = "address" =>
    /\ ctx.req_type = "CONFIRM_ADDRESS" /\ ctx.state = "STATE_NONE"
    /\ ctx.member = "public_key"
    /\ ctx.public_key = KeyOf(ctx.bip32)
    /\ screen = AddressReview(ctx)

TransactionReviewMatches ==
  screen.page = "transaction" =>
    /\ ctx.req_type = "CONFIRM_TRANSACTION" /\ ctx.state = "STATE_PARSED"
    /\ ctx.member = "tx_info"
    /\ Complete(ctx)
    /\ ctx.m_hash = Sha3(ctx.raw_tx)
    /\ \/ BlockType(ctx) \in SendTypes /\ screen = SendReview(ctx)
       \/ BlockType(ctx) \in ReceiveTypes /\ screen = ReceiveReview(ctx)

ReviewMatchesContext == AddressReviewMatches /\ TransactionReviewMatches

(* A signature leaves the device only in answer to the user's consent, and *)
(* is over the bytes and the path of the transaction that was on display:  *)
(* the fields of a send, in clear, or the hash of a receive (validate.c    *)
(* signs m_hash with the context's path).                                  *)
SignedIsWhatWasShown ==
  [][reply'.kind = "signature" /\ reply' # reply =>
       /\ screen.page = "transaction"
       /\ Complete(ctx)
       /\ reply'.path = <<ctx.bip32>>
       /\ reply'.hash = Sha3(ctx.raw_tx)
       /\ IF screen.blind THEN screen.hash = reply'.hash
          ELSE BlockType(ctx) \in SendTypes /\ screen.fields = ShownFields(ctx)
    ]_vars

(* A public key answered is the one of the path last read, and when it was *)
(* reviewed, the one whose path and address were on display.               *)
AnsweredKeyIsWhatWasShown ==
  [][reply'.kind = "public_key" /\ reply' # reply =>
       /\ reply'.key = KeyOf(ctx'.bip32)
       /\ awaiting => /\ screen.page = "address"
                      /\ screen.path = <<ctx'.bip32>>
                      /\ screen.key = reply'.key
    ]_vars

(* Refinement: a session of the app is a session of SigningPromise.  A     *)
(* session whose buffer is full and not under review is spent: nothing can *)
(* be appended and only appending opens a review.                          *)
SessionOpen == Running /\ ctx.req_type = "CONFIRM_TRANSACTION"
SessionPhase ==
  IF ~SessionOpen THEN "closed"
  ELSE IF screen.page = "transaction" THEN "reviewing"
  ELSE IF Len(ctx.raw_tx) = TRANSACTION_LEN THEN "spent"
  ELSE "collecting"

SessionPath == IF SessionOpen THEN ctx.bip32 ELSE ZeroContext.bip32
SessionBytes == IF SessionOpen THEN ctx.raw_tx ELSE <<>>
SignatureAnswered ==
  IF reply.kind = "signature" THEN <<reply.path[1], reply.hash[1]>> ELSE <<>>

Promise == INSTANCE SigningPromise WITH
  N <- TRANSACTION_LEN,
  Paths <- Path,
  NoPath <- ZeroContext.bip32,
  phase <- SessionPhase,
  path <- SessionPath,
  bytes <- SessionBytes,
  signed <- SignatureAnswered

(* The app implements SigningPromise: one path and one review per session, *)
(* bytes only appended, a signature only from a review and over the        *)
(* session's own path and bytes.                                           *)
KeepsSigningPromise == Promise!Spec

(* Every command that opens a review is answered, once the user touches a  *)
(* button; or the app has ended.                                           *)
AnswerEventually == awaiting ~> (reply # NoReply \/ ~Running)
=============================================================================
