--------------------------- MODULE ZenonAppProofs ---------------------------
(***************************************************************************)
(* Proofs about ZenonApp for every value of its constants.  The inductive  *)
(* invariant is the conjunction of the type invariant, the owed-answer     *)
(* invariant and the review invariant: the first bounds raw_tx, the second *)
(* is what keeps commands away from a context under review, the third is   *)
(* what the callbacks' answers are computed from.                          *)
(***************************************************************************)
EXTENDS ZenonApp, SequenceTheorems, TLAPS

USE ProtocolAssumption, AppAssumption

(* The zeroed context and what a path is read into are well formed.        *)
LEMMA ZeroContextType == ZeroContext \in Context
BY DEF ZeroContext, Context, Path, Key, Hash

(* What a path is read into is well formed, whatever length is announced. *)
LEMMA PathReadType ==
  ASSUME NEW data \in Seq(Nat), data # <<>>
  PROVE  PathRead(data) \in Path
<1>1. data[1] \in Nat
  BY EmptySeq
<1>2. ASSUME NEW i \in 1..MAX_BIP32_PATH, i < Len(data)
      PROVE  data[i + 1] \in Nat
  BY <1>2
<1> QED
  BY <1>1, <1>2 DEF PathRead, Path, PathLenOK

(* The absent answer is well formed. *)
LEMMA NoReplyType == NoReply \in Reply
BY DEF NoReply, Reply, Key, Hash, Kinds

(* So is every answer without a payload. *)
LEMMA AnswerType ==
  ASSUME NEW sw \in StatusWords, NEW kind \in Kinds
  PROVE  Answer(sw, kind) \in Reply
BY NoReplyType DEF Answer, Reply

(* So is every page without content. *)
LEMMA PlainType ==
  ASSUME NEW page \in Pages
  PROVE  Plain(page) \in Screen
BY DEF Plain, Screen, Key, Hash

(* What HandlerReplies and CallbackReplies leave behind. *)
LEMMA HandlerRepliesEffect ==
  ASSUME TypeOK, NEW answer \in Reply, HandlerReplies(answer)
  PROVE  /\ awaiting' = FALSE
         /\ reply' \in {answer, NoReply}
         /\ reply' \in Reply
         /\ screen' \in {screen, Dashboard}
         /\ screen' \in Screen
BY NoReplyType, PlainType DEF HandlerReplies, TypeOK, Dashboard, Pages

(* A callback's answer, sent or lost, settles what was owed and turns the page. *)
LEMMA CallbackRepliesEffect ==
  ASSUME NEW answer \in Reply, NEW page \in StatusPages,
         CallbackReplies(answer, page)
  PROVE  /\ awaiting' = FALSE
         /\ reply' \in {answer, NoReply}
         /\ reply' \in Reply
         /\ screen' = Plain(page)
         /\ screen' \in Screen
BY NoReplyType, PlainType DEF CallbackReplies, Pages

-----------------------------------------------------------------------------
(* The contexts and pages the handlers build are well formed.              *)
LEMMA GetPublicKeyContexts ==
  ASSUME NEW data \in Seq(Nat), data # <<>>
  PROVE  /\ AddressContext(data) \in Context
         /\ DerivedContext(data) \in Context
         /\ DerivedContext(data).req_type = "CONFIRM_ADDRESS"
         /\ DerivedContext(data).state = "STATE_NONE"
         /\ DerivedContext(data).member = "public_key"
         /\ DerivedContext(data).public_key = KeyOf(DerivedContext(data).bip32)
         /\ AddressContext(data).raw_tx = <<>>
         /\ DerivedContext(data).raw_tx = <<>>
<1> DEFINE pth == PathRead(data)
<1>1. pth \in Path
  BY PathReadType
<1>2. <<pth>> \in Seq(Path)
  BY <1>1
<1>3. AddressContext(data) \in Context
  BY <1>1, ZeroContextType DEF AddressContext, Context
<1> QED
  BY <1>1, <1>2, <1>3, ZeroContextType
  DEF DerivedContext, AddressContext, ZeroContext, Context, Key, KeyOf

(* The context chunk 0 leaves is well formed, whether or not its path could be read. *)
LEMMA SigningContextType ==
  ASSUME NEW data \in Seq(Nat), data # <<>>
  PROVE  /\ SigningContext(data) \in Context
         /\ SigningContext(data).raw_tx = <<>>
<1>1. PathRead(data) \in Path
  BY PathReadType
<1>2. SigningContext(data).raw_tx = <<>>
  BY DEF SigningContext, ZeroContext
<1> QED
  BY <1>1, <1>2, ZeroContextType DEF SigningContext, Context

(* Appending, parsing and hashing keep the context well formed. *)
LEMMA ChunkContexts ==
  ASSUME NEW c \in Context, NEW data \in Seq(Nat)
  PROVE  /\ Appended(c, data) \in Context
         /\ Parsed(c) \in Context
         /\ Hashed(c) \in Context
         /\ Appended(c, data).raw_tx = c.raw_tx \o data
         /\ Appended(c, data).member = "tx_info"
         /\ Appended(c, data).req_type = c.req_type
         /\ Appended(c, data).bip32 = c.bip32
         /\ Parsed(c).raw_tx = c.raw_tx
         /\ Hashed(c).raw_tx = c.raw_tx
         /\ Hashed(c).member = c.member
         /\ Hashed(c).req_type = c.req_type
         /\ Hashed(c).bip32 = c.bip32
         /\ Hashed(c).state = "STATE_PARSED"
         /\ Hashed(c).m_hash = Sha3(c.raw_tx)
<1>1. c.raw_tx \in Seq(Nat) /\ c.raw_tx \o data \in Seq(Nat)
  BY DEF Context
<1>2. Sha3(c.raw_tx) \in Hash
  BY <1>1 DEF Sha3, Hash
<1>3. Appended(c, data) \in Context
  BY <1>1 DEF Appended, Context
<1>4. Parsed(c) \in Context
  BY DEF Parsed, Context
<1>5. Hashed(c) \in Context
  BY <1>2, <1>4 DEF Hashed, Context
<1> QED
  BY <1>3, <1>4, <1>5 DEF Appended, Parsed, Hashed, Context

(* The three reviews are well-formed screens. *)
LEMMA ReviewTypes ==
  ASSUME NEW c \in Context
  PROVE  /\ AddressReview(c) \in Screen
         /\ ReceiveReview(c) \in Screen
         /\ Complete(c) => SendReview(c) \in Screen
<1>0. Plain("address") \in Screen /\ Plain("transaction") \in Screen
  BY PlainType DEF Pages
<1>1. AddressReview(c) \in Screen
  <2>1. <<c.bip32>> \in Seq(Path) /\ c.public_key \in Key
    BY DEF Context
  <2> QED
    BY <1>0, <2>1 DEF AddressReview, Screen
<1>2. ReceiveReview(c) \in Screen
  <2>1. c.m_hash \in Hash
    BY DEF Context
  <2> QED
    BY <1>0, <2>1 DEF ReceiveReview, Screen
<1>3. ASSUME Complete(c)
      PROVE  SendReview(c) \in Screen
  <2>1. Len(SHOWN_AT) \in Nat
    OBVIOUS
  <2>2. \A i \in 1..Len(SHOWN_AT) : c.raw_tx[SHOWN_AT[i]] \in Nat
    BY <1>3 DEF Complete, Context
  <2>3. ShownFields(c) \in Seq(Nat)
    BY <2>1, <2>2 DEF ShownFields
  <2> QED
    BY <1>0, <2>3 DEF SendReview, Screen
<1> QED
  BY <1>1, <1>2, <1>3

-----------------------------------------------------------------------------
Inv == TypeOK /\ AwaitingIffReview /\ ReviewMatchesContext

(* A handler that answers, an answer with no key and no signature, and a   *)
(* handler that opens a review.                                            *)
Settled ==
  /\ awaiting' = FALSE
  /\ reply' \in Reply
  /\ screen' \in {screen, Dashboard}

Quiet == reply'.kind \notin {"public_key", "signature"}

Opened(page) == awaiting' = TRUE /\ screen' = page /\ reply' = NoReply

(* Answering a status word settles the command. *)
LEMMA StatusSettles ==
  ASSUME TypeOK, NEW sw \in StatusWords, HandlerReplies(Status(sw))
  PROVE  Settled /\ Quiet
<1>1. Status(sw) \in Reply
  BY AnswerType DEF Status, Kinds
<1>2. Status(sw).kind = "status" /\ NoReply.kind = "none"
  BY DEF Status, Answer, NoReply
<1> QED
  BY <1>1, <1>2, HandlerRepliesEffect DEF Settled, Quiet

(* ui_display_address answers an error or opens the address review. *)
LEMMA DisplayAddressEffect ==
  ASSUME TypeOK, NEW c \in Context, DisplayAddress(c)
  PROVE  (Settled /\ Quiet) \/ Opened(AddressReview(c))
BY StatusSettles
DEF DisplayAddress, Outcome, StatusWords, Review, Opened

(* ui_display_transaction answers an error or opens the review of its block type. *)
LEMMA DisplayTransactionEffect ==
  ASSUME TypeOK, NEW c \in Context, DisplayTransaction(c)
  PROVE  \/ Settled /\ Quiet
         \/ BlockType(c) \in SendTypes /\ Opened(SendReview(c))
         \/ BlockType(c) \in ReceiveTypes /\ Opened(ReceiveReview(c))
<1>1. CASE BlockType(c) \in SendTypes
  BY <1>1, StatusSettles
  DEF DisplayTransaction, Outcome, StatusWords, Review, Opened, SendTypes,
      ReceiveTypes
<1>2. CASE BlockType(c) \in ReceiveTypes
  BY <1>2, StatusSettles
  DEF DisplayTransaction, Outcome, StatusWords, Review, Opened, SendTypes,
      ReceiveTypes
<1>3. CASE BlockType(c) \notin SendTypes \union ReceiveTypes
  BY <1>3, StatusSettles DEF DisplayTransaction, StatusWords
<1> QED
  BY <1>1, <1>2, <1>3

(* Commands are handled only while no review is up.                        *)
LEMMA NoReviewAtCommand ==
  ASSUME Inv, NEW cmd \in Commands, Received(cmd)
  PROVE  /\ ~Reviewing /\ ~awaiting
         /\ initialized' = initialized
         /\ cmd \in Command
BY DEF Inv, AwaitingIffReview, Received

(* A settled step keeps the invariant, whatever well-formed context it     *)
(* leaves: no review is up afterwards.                                     *)
LEMMA SettledKeepsInv ==
  ASSUME TypeOK, ~Reviewing, Settled, initialized' \in BOOLEAN,
         ctx' \in Context, Len(ctx'.raw_tx) <= TRANSACTION_LEN
  PROVE  Inv'
<1>1. screen' \in Screen
  BY PlainType DEF Settled, TypeOK, Dashboard, Pages
<1>2. screen'.page \notin {"address", "transaction"}
  BY DEF Settled, Reviewing, Dashboard, Plain
<1> QED
  BY <1>1, <1>2
  DEF Inv, TypeOK, Settled, AwaitingIffReview, Reviewing,
      ReviewMatchesContext, AddressReviewMatches, TransactionReviewMatches

-----------------------------------------------------------------------------
(* Each kind of step keeps the invariant. *)
LEMMA RefuseCommandKeepsInv ==
  ASSUME Inv, NEW cmd \in Commands, RefuseCommand(cmd)
  PROVE  Inv' /\ Quiet
<1>1. Verdict(cmd) \in StatusWords
  BY DEF Verdict, StatusWords
<1>2. Settled /\ Quiet
  BY <1>1, StatusSettles DEF RefuseCommand, Inv
<1> QED
  BY <1>2, NoReviewAtCommand, SettledKeepsInv DEF RefuseCommand, Inv, TypeOK

(* GET_VERSION and GET_APP_NAME keep the invariant. *)
LEMMA InfoKeepsInv ==
  ASSUME Inv, NEW cmd \in Commands,
         HandlerGetVersion(cmd) \/ HandlerGetAppName(cmd)
  PROVE  Inv' /\ Quiet
<1>1. \A kind \in {"version", "app_name"} :
        /\ Answer("SW_OK", kind) \in Reply
        /\ Answer("SW_OK", kind).kind = kind
  BY AnswerType DEF Kinds, StatusWords, Answer, NoReply
<1>2. PICK kind \in {"version", "app_name"} :
        HandlerReplies(Answer("SW_OK", kind))
  BY DEF HandlerGetVersion, HandlerGetAppName
<1>3. Settled /\ Quiet
  <2>1. TypeOK /\ Answer("SW_OK", kind) \in Reply /\ NoReply.kind = "none"
    BY <1>1 DEF Inv, NoReply
  <2>2. Settled /\ reply' \in {Answer("SW_OK", kind), NoReply}
    BY <1>2, <2>1, HandlerRepliesEffect DEF Settled
  <2> QED
    BY <1>1, <2>1, <2>2 DEF Quiet
<1>4. Received(cmd) /\ UNCHANGED ctx
  BY DEF HandlerGetVersion, HandlerGetAppName
<1> QED
  BY <1>3, <1>4, NoReviewAtCommand, SettledKeepsInv DEF Inv, TypeOK

(* The answer that carries the context's public key is well formed. *)
LEMMA PublicKeyType ==
  ASSUME NEW c \in Context
  PROVE  /\ PublicKey(c) \in Reply
         /\ PublicKey(c).key = c.public_key
         /\ PublicKey(c).kind = "public_key"
<1>1. Answer("SW_OK", "public_key") \in Reply
  BY AnswerType DEF Kinds, StatusWords
<1>2. c.public_key \in Key
  BY DEF Context
<1> QED
  BY <1>1, <1>2 DEF PublicKey, Reply, Answer, NoReply

(* The answer that carries a signature is well formed. *)
LEMMA SignatureType ==
  ASSUME NEW c \in Context
  PROVE  /\ Signature(c) \in Reply
         /\ Signature(c).path = <<c.bip32>>
         /\ Signature(c).hash = c.m_hash
         /\ Signature(c).kind = "signature"
<1>1. Answer("SW_OK", "signature") \in Reply
  BY AnswerType DEF Kinds, StatusWords
<1>2. <<c.bip32>> \in Seq(Path) /\ c.m_hash \in Hash
  BY DEF Context
<1> QED
  BY <1>1, <1>2 DEF Signature, Reply, Answer, NoReply

(* handler_get_public_key keeps the invariant in each of its outcomes. *)
LEMMA GetPublicKeyKeepsInv ==
  ASSUME Inv, NEW cmd \in Commands, HandlerGetPublicKey(cmd)
  PROVE  /\ Inv'
         /\ reply'.kind # "signature"
         /\ reply'.kind = "public_key" => reply'.key = KeyOf(ctx'.bip32)
         /\ ctx'.req_type = "CONFIRM_ADDRESS"
<1> DEFINE data == cmd.data
           asked == AddressContext(data)
           derived == DerivedContext(data)
<1>1. /\ TypeOK /\ ~Reviewing /\ initialized' \in BOOLEAN
      /\ data \in Seq(Nat) /\ data # <<>>
  BY NoReviewAtCommand
  DEF HandlerGetPublicKey, Dispatched, Verdict, Command, Inv, TypeOK
<1>2. /\ asked \in Context /\ asked.raw_tx = <<>>
      /\ asked.req_type = "CONFIRM_ADDRESS"
      /\ derived \in Context /\ derived.raw_tx = <<>>
      /\ derived.req_type = "CONFIRM_ADDRESS" /\ derived.state = "STATE_NONE"
      /\ derived.member = "public_key"
      /\ derived.public_key = KeyOf(derived.bip32)
  BY <1>1, GetPublicKeyContexts DEF AddressContext, ZeroContext
<1>3. ASSUME Settled, ctx' \in {asked, derived}
      PROVE  Inv' /\ ctx'.req_type = "CONFIRM_ADDRESS"
  BY <1>1, <1>2, <1>3, SettledKeepsInv
<1>4. ASSUME ctx' = asked, NEW sw \in StatusWords, HandlerReplies(Status(sw))
      PROVE  Inv' /\ ctx'.req_type = "CONFIRM_ADDRESS" /\ Quiet
  <2>1. Settled /\ Quiet
    BY <1>1, <1>4, StatusSettles
  <2> QED
    BY <1>3, <1>4, <2>1
<1>5. CASE ctx' = derived /\ HandlerReplies(PublicKey(derived))
  <2>1. Settled /\ reply' \in {PublicKey(derived), NoReply}
    BY <1>1, <1>2, <1>5, PublicKeyType, HandlerRepliesEffect DEF Settled
  <2>2. NoReply.kind = "none"
    BY DEF NoReply
  <2> QED
    BY <1>2, <1>3, <1>5, <2>1, <2>2, PublicKeyType
<1>6. CASE ctx' = derived /\ DisplayAddress(derived)
  <2>1. CASE Settled /\ Quiet
    BY <1>3, <1>6, <2>1 DEF Quiet
  <2>2. CASE Opened(AddressReview(derived))
    <3>1. screen' \in Screen /\ reply' \in Reply /\ reply'.kind = "none"
      BY <1>2, <2>2, ReviewTypes, NoReplyType DEF Opened, NoReply
    <3>2. screen'.page = "address"
      BY <2>2 DEF Opened, AddressReview, Plain
    <3>3. TypeOK' /\ AwaitingIffReview'
      BY <1>1, <1>2, <1>6, <2>2, <3>1, <3>2
      DEF TypeOK, AwaitingIffReview, Reviewing, Opened
    <3>4. ReviewMatchesContext'
      BY <1>2, <1>6, <2>2, <3>2
      DEF ReviewMatchesContext, AddressReviewMatches,
          TransactionReviewMatches, Opened
    <3> QED
      BY <1>2, <1>6, <3>1, <3>3, <3>4 DEF Inv
  <2> QED
    BY <1>1, <1>2, <1>6, <2>1, <2>2, DisplayAddressEffect
<1> QED
  BY <1>4, <1>5, <1>6 DEF HandlerGetPublicKey, StatusWords, Quiet

(* Chunk 0 keeps the invariant, accepted or not. *)
LEMMA SignStartKeepsInv ==
  ASSUME Inv, NEW cmd \in Commands, SignStart(cmd)
  PROVE  Inv' /\ Quiet
<1>1. /\ TypeOK /\ ~Reviewing /\ initialized' \in BOOLEAN
      /\ cmd.data \in Seq(Nat) /\ cmd.data # <<>>
  BY NoReviewAtCommand DEF SignStart, Dispatched, Verdict, Command, Inv, TypeOK
<1>2. ctx' \in Context /\ ctx'.raw_tx = <<>>
  BY <1>1, SigningContextType DEF SignStart
<1>3. Settled /\ Quiet
  BY <1>1, StatusSettles DEF SignStart, StatusWords
<1> QED
  BY <1>1, <1>2, <1>3, SettledKeepsInv

(* A chunk that passes the checks belongs to an open session and fits. *)
LEMMA AcceptedChunk ==
  ASSUME Inv, NEW cmd \in Commands, Chunk(cmd), ChunkVerdict(cmd) = "SW_OK"
  PROVE  /\ TypeOK /\ ~Reviewing /\ initialized' \in BOOLEAN
         /\ cmd.data \in Seq(Nat) /\ cmd.data # <<>>
         /\ ctx \in Context
         /\ ctx.req_type = "CONFIRM_TRANSACTION"
         /\ Appended(ctx, cmd.data) \in Context
         /\ Appended(ctx, cmd.data).raw_tx = ctx.raw_tx \o cmd.data
         /\ Len(ctx.raw_tx \o cmd.data) = Len(ctx.raw_tx) + Len(cmd.data)
         /\ Len(ctx.raw_tx \o cmd.data) <= TRANSACTION_LEN
<1>1. /\ TypeOK /\ ~Reviewing /\ initialized' \in BOOLEAN
      /\ cmd.data \in Seq(Nat) /\ cmd.data # <<>>
  BY NoReviewAtCommand DEF Chunk, Dispatched, Verdict, Command, Inv, TypeOK,
     SIGN_TX
<1>2. ctx \in Context /\ ctx.raw_tx \in Seq(Nat)
  BY <1>1 DEF TypeOK, Context
<1>3. Len(ctx.raw_tx) \in Nat /\ Len(cmd.data) \in Nat /\ TRANSACTION_LEN \in Nat
  BY <1>1, <1>2
<1>4. /\ ctx.req_type = "CONFIRM_TRANSACTION"
      /\ ~(Len(ctx.raw_tx) + Len(cmd.data) > TRANSACTION_LEN)
  BY DEF ChunkVerdict
<1>5. /\ ctx.raw_tx \o cmd.data \in Seq(Nat)
      /\ Len(ctx.raw_tx \o cmd.data) = Len(ctx.raw_tx) + Len(cmd.data)
  BY <1>1, <1>2
<1>6. Len(ctx.raw_tx \o cmd.data) <= TRANSACTION_LEN
  <2>1. \A l, d, cap \in Nat : ~(l + d > cap) => l + d <= cap
    OBVIOUS
  <2> HIDE ProtocolAssumption
  <2> QED
    BY <1>3, <1>4, <1>5, <2>1
<1>7. /\ Appended(ctx, cmd.data) \in Context
      /\ Appended(ctx, cmd.data).raw_tx = ctx.raw_tx \o cmd.data
  BY <1>1, <1>2, ChunkContexts
<1> QED
  BY <1>1, <1>2, <1>4, <1>5, <1>6, <1>7

(* A refused chunk keeps the invariant. *)
LEMMA SignChunkRefusedKeepsInv ==
  ASSUME Inv, NEW cmd \in Commands, SignChunkRefused(cmd)
  PROVE  Inv' /\ Quiet
<1>1. ChunkVerdict(cmd) \in StatusWords
  BY DEF ChunkVerdict, StatusWords
<1>2. Settled /\ Quiet
  BY <1>1, StatusSettles DEF SignChunkRefused, Inv
<1> QED
  BY <1>2, NoReviewAtCommand, SettledKeepsInv
  DEF SignChunkRefused, Chunk, Inv, TypeOK

(* A chunk with more to follow keeps the invariant. *)
LEMMA SignChunkMoreKeepsInv ==
  ASSUME Inv, NEW cmd \in Commands, SignChunkMore(cmd)
  PROVE  Inv' /\ Quiet
<1>1. Settled /\ Quiet
  BY StatusSettles DEF SignChunkMore, StatusWords, Inv
<1> QED
  BY <1>1, AcceptedChunk, SettledKeepsInv DEF SignChunkMore

(* The last chunk keeps the invariant, wherever it stops. *)
LEMMA SignChunkLastKeepsInv ==
  ASSUME Inv, NEW cmd \in Commands, SignChunkLast(cmd)
  PROVE  Inv' /\ Quiet
<1> DEFINE loaded == Appended(ctx, cmd.data)
           parsed == Parsed(loaded)
           hashed == Hashed(loaded)
<1>0. /\ TypeOK /\ ~Reviewing /\ initialized' \in BOOLEAN
      /\ ctx \in Context /\ cmd.data \in Seq(Nat)
      /\ ctx.req_type = "CONFIRM_TRANSACTION"
      /\ loaded \in Context
      /\ Len(loaded.raw_tx) <= TRANSACTION_LEN
  BY AcceptedChunk DEF SignChunkLast
<1>1. /\ TypeOK /\ ~Reviewing /\ initialized' \in BOOLEAN
      /\ loaded \in Context /\ parsed \in Context /\ hashed \in Context
      /\ Len(loaded.raw_tx) <= TRANSACTION_LEN
      /\ parsed.raw_tx = loaded.raw_tx /\ hashed.raw_tx = loaded.raw_tx
      /\ hashed.req_type = "CONFIRM_TRANSACTION" /\ hashed.state = "STATE_PARSED"
      /\ hashed.member = "tx_info"
      /\ hashed.m_hash = Sha3(hashed.raw_tx)
  <2>1. parsed \in Context /\ parsed.raw_tx = loaded.raw_tx
    BY <1>0, ChunkContexts
  <2>2. /\ hashed \in Context
        /\ hashed.raw_tx = loaded.raw_tx
        /\ hashed.req_type = loaded.req_type /\ hashed.member = loaded.member
        /\ hashed.state = "STATE_PARSED"
        /\ hashed.m_hash = Sha3(loaded.raw_tx)
    BY <1>0, ChunkContexts
  <2>3. loaded.req_type = ctx.req_type /\ loaded.member = "tx_info"
    BY <1>0, ChunkContexts
  <2> HIDE DEF loaded, parsed, hashed
  <2> QED
    BY <1>0, <2>1, <2>2, <2>3
<1>2. ASSUME Settled, ctx' \in {loaded, parsed, hashed}
      PROVE  Inv'
  BY <1>1, <1>2, SettledKeepsInv
<1>3. ASSUME ctx' \in {loaded, parsed},
             NEW sw \in StatusWords, HandlerReplies(Status(sw))
      PROVE  Inv' /\ Quiet
  <2>1. Settled /\ Quiet
    BY <1>1, <1>3, StatusSettles
  <2> QED
    BY <1>2, <1>3, <2>1
<1>4. ASSUME Complete(loaded), ctx' = hashed, DisplayTransaction(hashed)
      PROVE  Inv' /\ Quiet
  <2>1. CASE Settled /\ Quiet
    BY <1>2, <1>4, <2>1
  <2>2. ASSUME NEW page, Opened(page),
               \/ BlockType(hashed) \in SendTypes /\ page = SendReview(hashed)
               \/ BlockType(hashed) \in ReceiveTypes /\ page = ReceiveReview(hashed)
        PROVE  Inv' /\ Quiet
    <3>1. Complete(hashed)
      BY <1>1, <1>4 DEF Complete
    <3>2. page \in Screen
      BY <1>1, <2>2, <3>1, ReviewTypes
    <3>3. page.page = "transaction"
      BY <2>2 DEF SendReview, ReceiveReview, Plain
    <3>4. TypeOK' /\ AwaitingIffReview'
      BY <1>1, <1>4, <2>2, <3>2, <3>3, NoReplyType
      DEF TypeOK, AwaitingIffReview, Reviewing, Opened
    <3>5. ReviewMatchesContext'
      BY <1>1, <1>4, <2>2, <3>1, <3>3
      DEF ReviewMatchesContext, AddressReviewMatches,
          TransactionReviewMatches, Opened
    <3>6. Quiet
      BY <2>2 DEF Opened, Quiet, NoReply
    <3> QED
      BY <3>4, <3>5, <3>6 DEF Inv
  <2>3. \/ Settled /\ Quiet
        \/ BlockType(hashed) \in SendTypes /\ Opened(SendReview(hashed))
        \/ BlockType(hashed) \in ReceiveTypes /\ Opened(ReceiveReview(hashed))
    BY <1>1, <1>4, DisplayTransactionEffect
  <2> QED
    BY <2>1, <2>2, <2>3
<1> QED
  BY <1>3, <1>4 DEF SignChunkLast, StatusWords

(* A callback takes the review down and settles what was owed. *)
LEMMA CallbackKeepsInv ==
  ASSUME Inv, NEW answer \in Reply, NEW page \in StatusPages,
         CallbackReplies(answer, page), UNCHANGED initialized,
         ctx' \in Context, ctx'.raw_tx = ctx.raw_tx
  PROVE  Inv' /\ reply' \in {answer, NoReply}
<1>1. /\ awaiting' = FALSE /\ screen' \in Screen /\ reply' \in Reply
      /\ reply' \in {answer, NoReply} /\ screen' = Plain(page)
  BY CallbackRepliesEffect
<1>2. screen'.page \notin {"address", "transaction"}
  BY <1>1 DEF Plain, StatusPages
<1>3. TypeOK'
  BY <1>1 DEF Inv, TypeOK
<1> QED
  BY <1>1, <1>2, <1>3
  DEF Inv, AwaitingIffReview, Reviewing,
      ReviewMatchesContext, AddressReviewMatches, TransactionReviewMatches

(* Both choices of the address review keep the invariant. *)
LEMMA ChooseAddressKeepsInv ==
  ASSUME Inv, NEW confirm \in BOOLEAN, ChooseAddress(confirm)
  PROVE  /\ Inv'
         /\ reply'.kind # "signature"
         /\ reply'.kind = "public_key" =>
               /\ reply'.key = KeyOf(ctx'.bip32)
               /\ screen.page = "address"
               /\ screen.path = <<ctx'.bip32>>
               /\ screen.key = reply'.key
<1>1. ctx \in Context /\ ctx' = ctx /\ UNCHANGED initialized
  BY DEF ChooseAddress, Inv, TypeOK
<1>2. /\ PublicKey(ctx) \in Reply /\ Status("SW_DENY") \in Reply
      /\ NoReply.kind = "none" /\ Status("SW_DENY").kind = "status"
      /\ PublicKey(ctx).kind = "public_key" /\ PublicKey(ctx).key = ctx.public_key
  BY <1>1, PublicKeyType, AnswerType
  DEF Status, Answer, NoReply, StatusWords, Kinds
<1>3. PICK answer \in {PublicKey(ctx), Status("SW_DENY")}, page \in StatusPages :
        CallbackReplies(answer, page)
  BY DEF ChooseAddress, StatusPages
<1>4. Inv' /\ reply' \in {PublicKey(ctx), Status("SW_DENY"), NoReply}
  BY <1>1, <1>2, <1>3, CallbackKeepsInv
<1>5. /\ screen.page = "address"
      /\ ctx.public_key = KeyOf(ctx.bip32)
      /\ screen.path = <<ctx.bip32>> /\ screen.key = ctx.public_key
  BY DEF ChooseAddress, Inv, ReviewMatchesContext, AddressReviewMatches,
         AddressReview, Plain
<1> QED
  BY <1>1, <1>2, <1>4, <1>5

(* Rejecting a transaction keeps the invariant. *)
LEMMA RejectTransactionKeepsInv ==
  ASSUME Inv, RejectTransaction
  PROVE  Inv' /\ Quiet
<1>1. Status("SW_DENY") \in Reply /\ NoReply.kind = "none"
      /\ Status("SW_DENY").kind = "status"
  BY AnswerType DEF Status, Answer, NoReply, StatusWords, Kinds
<1>2. ctx' \in Context /\ ctx'.raw_tx = ctx.raw_tx
  BY DEF RejectTransaction, Inv, TypeOK, Context
<1>3. Inv' /\ reply' \in {Status("SW_DENY"), NoReply}
  BY <1>1, <1>2, CallbackKeepsInv DEF RejectTransaction, StatusPages
<1> QED
  BY <1>1, <1>3 DEF Quiet

(* Confirming a transaction keeps the invariant, signed or not. *)
LEMMA ConfirmTransactionKeepsInv ==
  ASSUME Inv, ConfirmTransaction
  PROVE  /\ Inv'
         /\ reply' \in {Signature(ctx), Status("SW_SIGNATURE_FAIL"), NoReply}
<1>1. ctx \in Context
  BY DEF Inv, TypeOK
<1>2. Signature(ctx) \in Reply /\ Status("SW_SIGNATURE_FAIL") \in Reply
  BY <1>1, SignatureType, AnswerType DEF Status, StatusWords, Kinds
<1>3. ctx' \in Context /\ ctx'.raw_tx = ctx.raw_tx
  BY <1>1 DEF ConfirmTransaction, Context
<1>4. PICK answer \in {Signature(ctx), Status("SW_SIGNATURE_FAIL")} :
        CallbackReplies(answer, "TRANSACTION_SIGNED")
  BY DEF ConfirmTransaction
<1> QED
  BY <1>2, <1>3, <1>4, CallbackKeepsInv DEF ConfirmTransaction, StatusPages

(* Steps that handle no command and decide nothing. *)
LEMMA OtherStepsKeepInv ==
  ASSUME Inv, Launch \/ Exit \/ ReceiveMalformed \/ DismissStatus
  PROVE  Inv' /\ (Quiet \/ reply' = reply)
<1>1. Home \in Screen /\ Dashboard \in Screen
  BY PlainType DEF Home, Dashboard, Pages
<1>2. /\ Home.page \notin {"address", "transaction"}
      /\ Dashboard.page \notin {"address", "transaction"}
      /\ NoReply.kind = "none"
  BY DEF Home, Dashboard, Plain, NoReply
<1>3. CASE Launch
  <2>1. awaiting = FALSE
    BY <1>3 DEF Launch, Running, Inv, AwaitingIffReview, Reviewing, TypeOK
  <2>2. ZeroContext \in Context /\ Len(ZeroContext.raw_tx) <= TRANSACTION_LEN
    BY ZeroContextType DEF ZeroContext
  <2> QED
    BY <1>1, <1>2, <1>3, <2>1, <2>2
    DEF Launch, Inv, TypeOK, AwaitingIffReview, Reviewing,
        ReviewMatchesContext, AddressReviewMatches, TransactionReviewMatches
<1>4. CASE Exit
  BY <1>1, <1>2, <1>4, NoReplyType
  DEF Exit, Inv, TypeOK, AwaitingIffReview, Reviewing, Quiet,
      ReviewMatchesContext, AddressReviewMatches, TransactionReviewMatches
<1>5. CASE ReceiveMalformed
  <2>1. /\ Status("SW_WRONG_DATA_LENGTH") \in Reply
        /\ Status("SW_WRONG_DATA_LENGTH").kind = "status"
    BY AnswerType DEF Status, Answer, NoReply, StatusWords, Kinds
  <2>2. reply' \in {Status("SW_WRONG_DATA_LENGTH"), NoReply}
    BY <1>5 DEF ReceiveMalformed
  <2>3. UNCHANGED <<ctx, screen, awaiting, initialized>>
    BY <1>5 DEF ReceiveMalformed
  <2> QED
    BY <1>2, <2>1, <2>2, <2>3, NoReplyType
    DEF Inv, TypeOK, AwaitingIffReview, Reviewing, Quiet, SendReview,
        ReviewMatchesContext, AddressReviewMatches, TransactionReviewMatches
<1>6. CASE DismissStatus
  BY <1>1, <1>2, <1>6
  DEF DismissStatus, Inv, TypeOK, AwaitingIffReview, Reviewing, StatusPages,
      ReviewMatchesContext, AddressReviewMatches, TransactionReviewMatches
<1> QED
  BY <1>3, <1>4, <1>5, <1>6

-----------------------------------------------------------------------------
(* The invariant holds when the device is switched on. *)
LEMMA InitInv == Init => Inv
<1> SUFFICES ASSUME Init
             PROVE  Inv
  OBVIOUS
<1>1. Dashboard \in Screen /\ Dashboard.page = "dashboard"
  BY PlainType DEF Dashboard, Plain, Pages
<1>2. Len(ZeroContext.raw_tx) <= TRANSACTION_LEN
  BY DEF ZeroContext
<1>3. TypeOK
  BY <1>1, <1>2, ZeroContextType, NoReplyType DEF Init, TypeOK
<1>4. screen.page = "dashboard" /\ awaiting = FALSE
  BY <1>1 DEF Init
<1> QED
  BY <1>3, <1>4
  DEF Inv, AwaitingIffReview, Reviewing, ReviewMatchesContext,
      AddressReviewMatches, TransactionReviewMatches

(* Every command keeps the invariant. *)
LEMMA HandleCommandKeepsInv ==
  ASSUME Inv, NEW cmd \in Commands, HandleCommand(cmd)
  PROVE  Inv'
<1>1. CASE RefuseCommand(cmd)
  BY <1>1, RefuseCommandKeepsInv
<1>2. CASE HandlerGetVersion(cmd) \/ HandlerGetAppName(cmd)
  BY <1>2, InfoKeepsInv
<1>3. CASE HandlerGetPublicKey(cmd)
  BY <1>3, GetPublicKeyKeepsInv
<1>4. CASE SignStart(cmd)
  BY <1>4, SignStartKeepsInv
<1>5. CASE SignChunkRefused(cmd)
  BY <1>5, SignChunkRefusedKeepsInv
<1>6. CASE SignChunkMore(cmd)
  BY <1>6, SignChunkMoreKeepsInv
<1>7. CASE SignChunkLast(cmd)
  BY <1>7, SignChunkLastKeepsInv
<1> QED
  BY <1>1, <1>2, <1>3, <1>4, <1>5, <1>6, <1>7 DEF HandleCommand

(* Every step keeps the invariant: it is inductive. *)
LEMMA NextKeepsInv == Inv /\ [Next]_vars => Inv'
<1> SUFFICES ASSUME Inv, [Next]_vars
             PROVE  Inv'
  OBVIOUS
<1>1. CASE Launch \/ Exit \/ ReceiveMalformed \/ DismissStatus
  BY <1>1, OtherStepsKeepInv
<1>2. ASSUME NEW cmd \in Commands, HandleCommand(cmd)
      PROVE  Inv'
  BY <1>2, HandleCommandKeepsInv
<1>3. ASSUME NEW confirm \in BOOLEAN, ChooseAddress(confirm)
      PROVE  Inv'
  BY <1>3, ChooseAddressKeepsInv
<1>4. CASE RejectTransaction
  BY <1>4, RejectTransactionKeepsInv
<1>5. CASE ConfirmTransaction
  BY <1>5, ConfirmTransactionKeepsInv
<1>6. CASE UNCHANGED vars
  BY <1>6
  DEF vars, Inv, TypeOK, AwaitingIffReview, Reviewing, ReviewMatchesContext,
      AddressReviewMatches, TransactionReviewMatches
<1> QED
  BY <1>1, <1>2, <1>3, <1>4, <1>5, <1>6 DEF Next, UserDecides

(* The inductive invariant holds in every state the app reaches: any        *)
(* number of commands, any paths, transactions of any length.              *)
THEOREM Invariance == Spec => []Inv
BY InitInv, NextKeepsInv, PTL DEF Spec

(* The context and everything the host and the user see are well formed,   *)
(* and raw_tx stays inside its buffer, for any number of commands.         *)
THEOREM TypeCorrect == Spec => []TypeOK
<1>1. Inv => TypeOK
  BY DEF Inv
<1> QED
  BY <1>1, Invariance, PTL

(* An answer is owed exactly while a review is on display. *)
THEOREM AnswerOwedIffReview == Spec => []AwaitingIffReview
<1>1. Inv => AwaitingIffReview
  BY DEF Inv
<1> QED
  BY <1>1, Invariance, PTL

(* Whatever commands came before, the context the user's choice will act   *)
(* on is the one on display.                                               *)
THEOREM ContextIsWhatIsShown == Spec => []ReviewMatchesContext
<1>1. Inv => ReviewMatchesContext
  BY DEF Inv
<1> QED
  BY <1>1, Invariance, PTL

-----------------------------------------------------------------------------
(* The body of SignedIsWhatWasShown. *)
SignedShown ==
  reply'.kind = "signature" /\ reply' # reply =>
    /\ screen.page = "transaction"
    /\ Complete(ctx)
    /\ reply'.path = <<ctx.bip32>>
    /\ reply'.hash = Sha3(ctx.raw_tx)
    /\ IF screen.blind THEN screen.hash = reply'.hash
       ELSE BlockType(ctx) \in SendTypes /\ screen.fields = ShownFields(ctx)

(* From a state of the invariant, a step answers a signature only over what is shown. *)
LEMMA StepSignsOnlyWhatIsShown == Inv /\ [Next]_vars => SignedShown
<1> SUFFICES ASSUME Inv, [Next]_vars, reply'.kind = "signature", reply' # reply
             PROVE  SignedShown
  BY DEF SignedShown
<1>1. CASE Launch \/ Exit \/ ReceiveMalformed \/ DismissStatus
  BY <1>1, OtherStepsKeepInv DEF Quiet
<1>2. ASSUME NEW cmd \in Commands, HandleCommand(cmd)
      PROVE  FALSE
  BY <1>2, RefuseCommandKeepsInv, InfoKeepsInv, GetPublicKeyKeepsInv,
     SignStartKeepsInv, SignChunkRefusedKeepsInv, SignChunkMoreKeepsInv,
     SignChunkLastKeepsInv DEF HandleCommand, Quiet
<1>3. ASSUME NEW confirm \in BOOLEAN, ChooseAddress(confirm)
      PROVE  FALSE
  BY <1>3, ChooseAddressKeepsInv
<1>4. CASE RejectTransaction
  BY <1>4, RejectTransactionKeepsInv DEF Quiet
<1>5. CASE ConfirmTransaction
  <2>1. reply' = Signature(ctx)
    <3>1. Status("SW_SIGNATURE_FAIL").kind = "status" /\ NoReply.kind = "none"
      BY DEF Status, Answer, NoReply
    <3> QED
      BY <1>5, <3>1, ConfirmTransactionKeepsInv
  <2>2. reply'.path = <<ctx.bip32>> /\ reply'.hash = ctx.m_hash
    BY <2>1, SignatureType DEF Inv, TypeOK
  <2>3. screen.page = "transaction"
    BY <1>5 DEF ConfirmTransaction
  <2>4. /\ Complete(ctx) /\ ctx.m_hash = Sha3(ctx.raw_tx)
        /\ \/ BlockType(ctx) \in SendTypes /\ screen = SendReview(ctx)
           \/ screen = ReceiveReview(ctx)
    BY <2>3 DEF Inv, ReviewMatchesContext, TransactionReviewMatches
  <2>5. CASE BlockType(ctx) \in SendTypes /\ screen = SendReview(ctx)
    <3>1. ~screen.blind /\ screen.fields = ShownFields(ctx)
      BY <2>5 DEF SendReview, Plain
    <3> QED
      BY <2>2, <2>3, <2>4, <2>5, <3>1 DEF SignedShown
  <2>6. CASE screen = ReceiveReview(ctx)
    <3>1. screen.blind /\ screen.hash = ctx.m_hash
      BY <2>6 DEF ReceiveReview, Plain
    <3> QED
      BY <2>2, <2>3, <2>4, <3>1 DEF SignedShown
  <2> QED
    BY <2>4, <2>5, <2>6
<1>6. CASE UNCHANGED vars
  BY <1>6 DEF vars
<1> QED
  BY <1>1, <1>2, <1>3, <1>4, <1>5, <1>6 DEF Next, UserDecides

(* A signature is only ever answered to the user's consent, over the bytes *)
(* and the path whose review was on display when it was given.             *)
THEOREM SigningNeedsConsent == Spec => SignedIsWhatWasShown
<1>1. Spec => [][SignedShown]_vars
  BY Invariance, StepSignsOnlyWhatIsShown, PTL DEF Spec
<1> QED
  BY <1>1 DEF SignedIsWhatWasShown, SignedShown

(* The body of AnsweredKeyIsWhatWasShown. *)
KeyShown ==
  reply'.kind = "public_key" /\ reply' # reply =>
    /\ reply'.key = KeyOf(ctx'.bip32)
    /\ awaiting => /\ screen.page = "address"
                   /\ screen.path = <<ctx'.bip32>>
                   /\ screen.key = reply'.key

(* From a state of the invariant, a step answers only the key last derived. *)
LEMMA StepAnswersOnlyTheKeyShown == Inv /\ [Next]_vars => KeyShown
<1> SUFFICES ASSUME Inv, [Next]_vars, reply'.kind = "public_key", reply' # reply
             PROVE  KeyShown
  BY DEF KeyShown
<1>1. CASE Launch \/ Exit \/ ReceiveMalformed \/ DismissStatus
  BY <1>1, OtherStepsKeepInv DEF Quiet
<1>2. ASSUME NEW cmd \in Commands, HandleCommand(cmd)
      PROVE  KeyShown
  <2>1. CASE HandlerGetPublicKey(cmd)
    <3>1. ~awaiting
      BY <2>1 DEF HandlerGetPublicKey, Received
    <3> QED
      BY <2>1, <3>1, GetPublicKeyKeepsInv DEF KeyShown
  <2>2. CASE ~HandlerGetPublicKey(cmd)
    BY <1>2, <2>2, RefuseCommandKeepsInv, InfoKeepsInv,
       SignStartKeepsInv, SignChunkRefusedKeepsInv, SignChunkMoreKeepsInv,
       SignChunkLastKeepsInv DEF HandleCommand, Quiet
  <2> QED
    BY <2>1, <2>2
<1>3. ASSUME NEW confirm \in BOOLEAN, ChooseAddress(confirm)
      PROVE  KeyShown
  BY <1>3, ChooseAddressKeepsInv DEF KeyShown
<1>4. CASE RejectTransaction
  BY <1>4, RejectTransactionKeepsInv DEF Quiet
<1>5. CASE ConfirmTransaction
  <2>1. /\ Signature(ctx).kind = "signature" /\ NoReply.kind = "none"
        /\ Status("SW_SIGNATURE_FAIL").kind = "status"
    BY SignatureType DEF Status, Answer, NoReply, Inv, TypeOK
  <2> QED
    BY <1>5, <2>1, ConfirmTransactionKeepsInv
<1>6. CASE UNCHANGED vars
  BY <1>6 DEF vars
<1> QED
  BY <1>1, <1>2, <1>3, <1>4, <1>5, <1>6 DEF Next, UserDecides

(* A public key answered is the one derived for the path just read, and    *)
(* one the user confirmed is the one that was on display.                  *)
THEOREM ConfirmedKeyWasShown == Spec => AnsweredKeyIsWhatWasShown
<1>1. Spec => [][KeyShown]_vars
  BY Invariance, StepAnswersOnlyTheKeyShown, PTL DEF Spec
<1> QED
  BY <1>1 DEF AnsweredKeyIsWhatWasShown, KeyShown
=============================================================================
