---------------------- MODULE ZenonAppRefinementProofs ----------------------
(***************************************************************************)
(* Proof that ZenonApp implements SigningPromise under the mapping of      *)
(* ZenonApp: every step, in a state of the inductive invariant, is a step  *)
(* of the promise or a stutter.                                            *)
(***************************************************************************)
EXTENDS ZenonAppProofs

MappedStep == [Promise!Next]_(Promise!vars)

(* No review is up: the session is not being reviewed. *)
LEMMA NotReviewing ==
  ASSUME ~Reviewing
  PROVE  SessionPhase # "reviewing"
BY DEF SessionPhase, Reviewing

(* An answer that is not a signature maps to no signature. *)
LEMMA QuietSignsNothing ==
  ASSUME reply'.kind # "signature"
  PROVE  SignatureAnswered' = <<>>
BY DEF SignatureAnswered

(* The app ended, or the context belongs to an address request. *)
LEMMA SessionClosed ==
  ASSUME screen' = Dashboard \/ ctx'.req_type = "CONFIRM_ADDRESS",
         reply'.kind # "signature"
  PROVE  MappedStep
<1>1. ~SessionOpen'
  BY DEF SessionOpen, Running, Dashboard, Plain
<1>2. Promise!Close
  BY <1>1, QuietSignsNothing
  DEF Promise!Close, SessionPhase, SessionPath, SessionBytes
<1> QED
  BY <1>2 DEF MappedStep, Promise!Next

(* An answer that leaves the context alone. *)
LEMMA ContextKept ==
  ASSUME ~Reviewing, Settled, ctx' = ctx, reply'.kind # "signature"
  PROVE  MappedStep
<1>1. CASE screen' = screen
  <2>1. SessionOpen' = SessionOpen
    BY <1>1 DEF SessionOpen, Running
  <2>2. /\ SessionPhase' = SessionPhase
        /\ SessionPath' = SessionPath
        /\ SessionBytes' = SessionBytes
    BY <1>1, <2>1 DEF SessionPhase, SessionPath, SessionBytes
  <2>3. Promise!AnswerOther
    BY <2>2, NotReviewing, QuietSignsNothing DEF Promise!AnswerOther
  <2> QED
    BY <2>3 DEF MappedStep, Promise!Next
<1>2. CASE screen' = Dashboard
  BY <1>2, SessionClosed
<1> QED
  BY <1>1, <1>2 DEF Settled

(* Chunk 0 opens a session. *)
LEMMA StartOpens ==
  ASSUME Inv, NEW cmd \in Commands, SignStart(cmd)
  PROVE  MappedStep
<1>1. /\ TypeOK /\ ~Reviewing /\ Running
      /\ cmd.data \in Seq(Nat) /\ cmd.data # <<>>
  BY NoReviewAtCommand
  DEF SignStart, Received, Dispatched, Verdict, Command, Inv
<1>2. /\ Settled /\ Quiet
  BY <1>1, StatusSettles DEF SignStart, StatusWords
<1>3. /\ ctx'.bip32 \in Path /\ ctx'.raw_tx = <<>>
      /\ ctx'.req_type = "CONFIRM_TRANSACTION"
  BY <1>1, PathReadType DEF SignStart, SigningContext, ZeroContext
<1>4. CASE screen' = screen
  <2>1. SessionOpen' /\ screen'.page # "transaction"
    BY <1>1, <1>3, <1>4 DEF SessionOpen, Running, Reviewing
  <2>2. SessionPhase' = "collecting"
    <3>1. Len(ctx'.raw_tx) = 0 /\ TRANSACTION_LEN # 0
      BY <1>3, ProtocolAssumption
    <3> QED
      BY <2>1, <3>1 DEF SessionPhase
  <2>3. SessionPath' \in Path /\ SessionBytes' = <<>>
    BY <1>3, <2>1 DEF SessionPath, SessionBytes
  <2>4. Promise!Open
    BY <1>1, <1>2, <2>2, <2>3, NotReviewing, QuietSignsNothing
    DEF Promise!Open, Quiet
  <2> QED
    BY <2>4 DEF MappedStep, Promise!Next
<1>5. CASE screen' = Dashboard
  BY <1>2, <1>5, SessionClosed DEF Quiet
<1> QED
  BY <1>2, <1>4, <1>5 DEF Settled

(* A sequence and its extension. *)
LEMMA ExtensionFacts ==
  ASSUME NEW s \in Seq(Nat), NEW t \in Seq(Nat), t # <<>>,
         NEW cap \in Nat, Len(s \o t) <= cap
  PROVE  /\ Len(s) < Len(s \o t)
         /\ Len(s) # cap
         /\ SubSeq(s \o t, 1, Len(s)) = s
<1>1. Len(s) \in Nat /\ Len(t) \in Nat /\ Len(t) # 0
  BY EmptySeq
<1>2. Len(s \o t) = Len(s) + Len(t)
  OBVIOUS
<1>3. SubSeq(s \o t, 1, Len(s)) = s
  <2>1. CASE Len(s) = 0
    BY <2>1, SubSeqEmpty, EmptySeq
  <2>2. CASE Len(s) # 0
    <3>1. 1 \in 1..Len(s) /\ Len(s) \in 1..Len(s)
      BY <1>1, <2>2
    <3> QED
      BY <3>1, SubSeqOfConcat1, SubSeqFull
  <2> QED
    BY <2>1, <2>2
<1>4. Len(s) + Len(t) <= cap
  BY <1>2
<1>5. Len(s) < Len(s) + Len(t) /\ Len(s) # cap
  BY <1>1, <1>4
<1> QED
  BY <1>2, <1>3, <1>5

(* The shape every accepted chunk gives the mapped state. *)
LEMMA AppendCollects ==
  ASSUME Inv, NEW cmd \in Commands, Chunk(cmd), ChunkVerdict(cmd) = "SW_OK",
         ctx'.raw_tx = ctx.raw_tx \o cmd.data,
         ctx'.req_type = ctx.req_type, ctx'.bip32 = ctx.bip32,
         screen'.page # "dashboard", reply'.kind # "signature",
         screen'.page = "transaction" => Complete(ctx')
  PROVE  MappedStep
<1>1. /\ ~Reviewing /\ Running /\ SessionOpen
      /\ ctx.raw_tx \in Seq(Nat) /\ cmd.data \in Seq(Nat) /\ cmd.data # <<>>
      /\ ctx'.raw_tx \in Seq(Nat)
      /\ Len(ctx'.raw_tx) <= TRANSACTION_LEN
      /\ Len(ctx'.raw_tx) = Len(ctx.raw_tx) + Len(cmd.data)
  BY AcceptedChunk DEF Chunk, Received, SessionOpen, TypeOK, Context
<1>2. /\ Len(ctx.raw_tx) < Len(ctx'.raw_tx)
      /\ Len(ctx.raw_tx) # TRANSACTION_LEN
      /\ SubSeq(ctx'.raw_tx, 1, Len(ctx.raw_tx)) = ctx.raw_tx
      /\ Len(ctx'.raw_tx) \in Nat /\ Len(ctx.raw_tx) \in Nat
  <2>1. /\ TRANSACTION_LEN \in Nat
        /\ ctx'.raw_tx = ctx.raw_tx \o cmd.data
        /\ Len(ctx.raw_tx \o cmd.data) <= TRANSACTION_LEN
    BY <1>1, ProtocolAssumption
  <2>2. /\ Len(ctx.raw_tx) < Len(ctx.raw_tx \o cmd.data)
        /\ Len(ctx.raw_tx) # TRANSACTION_LEN
        /\ SubSeq(ctx.raw_tx \o cmd.data, 1, Len(ctx.raw_tx)) = ctx.raw_tx
    BY <1>1, <2>1, ExtensionFacts
  <2>3. Len(ctx'.raw_tx) \in Nat /\ Len(ctx.raw_tx) \in Nat
    BY <1>1, LenProperties
  <2> QED
    BY <2>1, <2>2, <2>3
<1>3. SessionOpen' /\ SessionBytes = ctx.raw_tx /\ SessionBytes' = ctx'.raw_tx
      /\ SessionPath' = SessionPath
  BY <1>1 DEF SessionOpen, SessionBytes, SessionPath, Running
<1>4. SessionPhase = "collecting"
  BY <1>1, <1>2 DEF SessionPhase, Reviewing
<1>6. Len(SessionBytes') > Len(SessionBytes) /\ Len(SessionBytes') <= TRANSACTION_LEN
  BY <1>1, <1>2, <1>3
<1>7. SessionPhase' \in IF Len(SessionBytes') = TRANSACTION_LEN
                        THEN {"reviewing", "spent"} ELSE {"collecting"}
  BY <1>3, ProtocolAssumption DEF SessionPhase, Complete
<1>8. Promise!Collect
  BY <1>2, <1>3, <1>4, <1>6, <1>7, QuietSignsNothing DEF Promise!Collect
<1> QED
  BY <1>8 DEF MappedStep, Promise!Next

(* A chunk with more to follow collects. *)
LEMMA MoreCollects ==
  ASSUME Inv, NEW cmd \in Commands, SignChunkMore(cmd)
  PROVE  MappedStep
<1>1. Settled /\ Quiet
  BY StatusSettles DEF SignChunkMore, StatusWords, Inv
<1>2. /\ Chunk(cmd) /\ ChunkVerdict(cmd) = "SW_OK" /\ Running /\ ~Reviewing
      /\ ctx \in Context /\ cmd.data \in Seq(Nat)
  BY AcceptedChunk DEF SignChunkMore, Chunk, Received
<1>3. /\ ctx'.raw_tx = ctx.raw_tx \o cmd.data
      /\ ctx'.req_type = ctx.req_type /\ ctx'.bip32 = ctx.bip32
  BY <1>2, ChunkContexts DEF SignChunkMore
<1>4. CASE screen' = screen
  BY <1>1, <1>2, <1>3, <1>4, AppendCollects DEF Quiet, Running, Reviewing
<1>5. CASE screen' = Dashboard
  BY <1>1, <1>5, SessionClosed DEF Quiet
<1> QED
  BY <1>1, <1>4, <1>5 DEF Settled

(* So does the last chunk, wherever it stops. *)
LEMMA LastCollects ==
  ASSUME Inv, NEW cmd \in Commands, SignChunkLast(cmd)
  PROVE  MappedStep
<1> DEFINE loaded == Appended(ctx, cmd.data)
<1>1. Quiet
  BY SignChunkLastKeepsInv
<1>2. /\ Chunk(cmd) /\ ChunkVerdict(cmd) = "SW_OK" /\ Running /\ ~Reviewing
      /\ TypeOK /\ loaded \in Context /\ cmd.data \in Seq(Nat)
      /\ loaded.raw_tx = ctx.raw_tx \o cmd.data
  BY AcceptedChunk DEF SignChunkLast, Chunk, Received
<1>3. loaded.req_type = ctx.req_type /\ loaded.bip32 = ctx.bip32
  BY AcceptedChunk, ChunkContexts DEF SignChunkLast
<1>4. ctx' \in {loaded, Parsed(loaded), Hashed(loaded)}
  BY DEF SignChunkLast
<1>5. /\ ctx'.raw_tx = ctx.raw_tx \o cmd.data
      /\ ctx'.req_type = ctx.req_type /\ ctx'.bip32 = ctx.bip32
  BY <1>2, <1>3, <1>4 DEF Parsed, Hashed, Context
<1>6. \/ Settled
      \/ Complete(loaded) /\ screen'.page = "transaction"
  <2>1. CASE \E sw \in StatusWords : HandlerReplies(Status(sw))
    BY <1>2, <2>1, StatusSettles
  <2>2. CASE Complete(loaded) /\ DisplayTransaction(Hashed(loaded))
    <3>1. Hashed(loaded) \in Context
      BY <1>2, ChunkContexts
    <3>2. \/ Settled
          \/ Opened(SendReview(Hashed(loaded)))
          \/ Opened(ReceiveReview(Hashed(loaded)))
      BY <1>2, <2>2, <3>1, DisplayTransactionEffect
    <3>3. /\ SendReview(Hashed(loaded)).page = "transaction"
          /\ ReceiveReview(Hashed(loaded)).page = "transaction"
      BY DEF SendReview, ReceiveReview, Plain
    <3> QED
      BY <2>2, <3>2, <3>3 DEF Opened
  <2> QED
    BY <2>1, <2>2 DEF SignChunkLast, StatusWords
<1>7. CASE screen' = Dashboard
  BY <1>1, <1>7, SessionClosed DEF Quiet
<1>8. CASE screen' = screen
  BY <1>1, <1>2, <1>5, <1>8, AppendCollects DEF Quiet, Running, Reviewing
<1>9. CASE Complete(loaded) /\ screen'.page = "transaction"
  <2>1. Complete(ctx')
    BY <1>2, <1>5, <1>9 DEF Complete
  <2> QED
    BY <1>1, <1>2, <1>5, <1>9, <2>1, AppendCollects DEF Quiet
<1> QED
  BY <1>6, <1>7, <1>8, <1>9 DEF Settled

(* Every command maps to a step of the promise or a stutter. *)
LEMMA CommandRefines ==
  ASSUME Inv, NEW cmd \in Commands, HandleCommand(cmd)
  PROVE  MappedStep
<1>1. CASE RefuseCommand(cmd) \/ SignChunkRefused(cmd)
  <2>1. Settled /\ Quiet /\ ctx' = ctx /\ ~Reviewing
    <3>1. PICK sw \in StatusWords : HandlerReplies(Status(sw))
      BY <1>1 DEF RefuseCommand, SignChunkRefused, Verdict, ChunkVerdict, StatusWords
    <3>2. ctx' = ctx /\ Received(cmd)
      BY <1>1 DEF RefuseCommand, SignChunkRefused, Chunk
    <3> QED
      BY <3>1, <3>2, StatusSettles, NoReviewAtCommand DEF Inv
  <2> QED
    BY <2>1, ContextKept DEF Quiet
<1>2. CASE HandlerGetVersion(cmd) \/ HandlerGetAppName(cmd)
  <2>1. PICK kind \in {"version", "app_name"} :
          HandlerReplies(Answer("SW_OK", kind))
    BY <1>2 DEF HandlerGetVersion, HandlerGetAppName
  <2>2. Answer("SW_OK", kind) \in Reply
    BY AnswerType DEF StatusWords, Kinds
  <2>3. Settled
    BY <2>1, <2>2, HandlerRepliesEffect DEF Settled, Inv
  <2>4. Quiet /\ ctx' = ctx /\ Received(cmd)
    BY <1>2, InfoKeepsInv DEF HandlerGetVersion, HandlerGetAppName
  <2> QED
    BY <2>3, <2>4, NoReviewAtCommand, ContextKept DEF Quiet
<1>3. CASE HandlerGetPublicKey(cmd)
  BY <1>3, GetPublicKeyKeepsInv, SessionClosed
<1>4. CASE SignStart(cmd)
  BY <1>4, StartOpens
<1>5. CASE SignChunkMore(cmd)
  BY <1>5, MoreCollects
<1>6. CASE SignChunkLast(cmd)
  BY <1>6, LastCollects
<1> QED
  BY <1>1, <1>2, <1>3, <1>4, <1>5, <1>6 DEF HandleCommand

(* The address review's choices do not touch a session. *)
LEMMA ChooseAddressRefines ==
  ASSUME Inv, NEW confirm \in BOOLEAN, ChooseAddress(confirm)
  PROVE  MappedStep
<1>1. ctx'.req_type = "CONFIRM_ADDRESS"
  BY DEF ChooseAddress, Inv, ReviewMatchesContext, AddressReviewMatches
<1> QED
  BY <1>1, ChooseAddressKeepsInv, SessionClosed

(* What the transaction review's two outcomes have in common. *)
LEMMA ReviewEnds ==
  ASSUME Inv, screen.page = "transaction", screen'.page \in StatusPages,
         ctx'.req_type = ctx.req_type, ctx'.bip32 = ctx.bip32,
         ctx'.raw_tx = ctx.raw_tx
  PROVE  /\ SessionPhase = "reviewing" /\ SessionPhase' = "spent"
         /\ SessionPath = ctx.bip32 /\ SessionPath' = SessionPath
         /\ SessionBytes = ctx.raw_tx /\ SessionBytes' = SessionBytes
<1>1. SessionOpen /\ SessionOpen'
  BY DEF SessionOpen, Running, StatusPages, Inv, ReviewMatchesContext,
         TransactionReviewMatches
<1>2. Len(ctx.raw_tx) = TRANSACTION_LEN
  BY ProtocolAssumption
  DEF Inv, ReviewMatchesContext, TransactionReviewMatches, Complete
<1> QED
  BY <1>1, <1>2 DEF SessionPhase, SessionPath, SessionBytes, StatusPages

(* The user's choices map to Sign, Withhold or a step of a closed session. *)
LEMMA UserDecidesRefines ==
  ASSUME Inv, RejectTransaction \/ ConfirmTransaction
  PROVE  MappedStep
<1>1. /\ ctx'.req_type = ctx.req_type /\ ctx'.bip32 = ctx.bip32
      /\ ctx'.raw_tx = ctx.raw_tx
      /\ screen.page = "transaction" /\ screen'.page \in StatusPages
  BY DEF RejectTransaction, ConfirmTransaction, CallbackReplies, Plain,
         StatusPages, Inv, TypeOK, Context
<1>2. CASE reply'.kind # "signature"
  <2>1. Promise!Withhold
    BY <1>1, <1>2, ReviewEnds, QuietSignsNothing DEF Promise!Withhold
  <2> QED
    BY <2>1 DEF MappedStep, Promise!Next
<1>3. CASE reply'.kind = "signature"
  <2>1. reply' = Signature(ctx)
    <3>1. Status("SW_SIGNATURE_FAIL").kind = "status" /\ NoReply.kind = "none"
      BY DEF Status, Answer, NoReply
    <3> QED
      BY <1>3, <3>1, RejectTransactionKeepsInv, ConfirmTransactionKeepsInv
      DEF Quiet
  <2>2. reply'.path = <<ctx.bip32>> /\ reply'.hash = <<ctx.raw_tx>>
    BY <1>1, <2>1, SignatureType
    DEF Inv, TypeOK, ReviewMatchesContext, TransactionReviewMatches, Sha3
  <2>3. SignatureAnswered' = <<ctx.bip32, ctx.raw_tx>>
    BY <1>3, <2>2 DEF SignatureAnswered
  <2>4. Promise!Sign
    BY <1>1, <2>3, ReviewEnds DEF Promise!Sign
  <2> QED
    BY <2>4 DEF MappedStep, Promise!Next
<1> QED
  BY <1>2, <1>3

(* Launching, ending, malformed bytes and leaving a status page refine. *)
LEMMA OtherStepsRefine ==
  ASSUME Inv, Launch \/ Exit \/ ReceiveMalformed \/ DismissStatus
  PROVE  MappedStep
<1>1. NoReply.kind = "none" /\ Home.page = "home"
  BY DEF NoReply, Home, Plain
<1>2. CASE Launch
  <2>1. ~SessionOpen /\ ~SessionOpen'
    BY <1>2 DEF Launch, SessionOpen, ZeroContext
  <2> QED
    BY <1>2, <2>1
    DEF MappedStep, Promise!vars, Launch, SessionPhase, SessionPath,
        SessionBytes, SignatureAnswered
<1>3. CASE Exit
  BY <1>1, <1>3, SessionClosed DEF Exit
<1>4. CASE ReceiveMalformed
  <2>1. /\ Status("SW_WRONG_DATA_LENGTH") \in Reply
        /\ Status("SW_WRONG_DATA_LENGTH").kind = "status"
    BY AnswerType DEF Status, Answer, NoReply, StatusWords, Kinds
  <2>2. ~Reviewing /\ Settled /\ ctx' = ctx /\ reply'.kind # "signature"
    BY <1>1, <1>4, <2>1, NoReplyType
    DEF ReceiveMalformed, Settled, Inv, TypeOK, AwaitingIffReview
  <2> QED
    BY <2>2, ContextKept
<1>5. CASE DismissStatus
  <2>1. SessionOpen' = SessionOpen
    BY <1>1, <1>5 DEF DismissStatus, SessionOpen, Running, StatusPages
  <2>2. screen.page # "transaction" /\ screen'.page # "transaction"
    BY <1>1, <1>5 DEF DismissStatus, StatusPages
  <2> QED
    BY <1>5, <2>1, <2>2
    DEF MappedStep, Promise!vars, DismissStatus, SessionPhase, SessionPath,
        SessionBytes, SignatureAnswered
<1> QED
  BY <1>2, <1>3, <1>4, <1>5

(* The initial state maps to the promise's. *)
LEMMA InitRefines == Init => Promise!Init
<1> SUFFICES ASSUME Init
             PROVE  Promise!Init
  OBVIOUS
<1>1. ~SessionOpen
  BY DEF Init, SessionOpen, Running, Dashboard, Plain
<1>2. reply.kind = "none"
  BY DEF Init, NoReply
<1> QED
  BY <1>1, <1>2
  DEF Promise!Init, SessionPhase, SessionPath, SessionBytes, SignatureAnswered

(* From a state of the invariant every step maps to a step or a stutter. *)
LEMMA NextRefines == Inv /\ [Next]_vars => MappedStep
<1> SUFFICES ASSUME Inv, [Next]_vars
             PROVE  MappedStep
  OBVIOUS
<1>1. CASE UNCHANGED vars
  BY <1>1
  DEF vars, MappedStep, Promise!vars, SessionPhase, SessionPath, SessionBytes,
      SessionOpen, Running, SignatureAnswered
<1> QED
  BY <1>1, CommandRefines, ChooseAddressRefines, UserDecidesRefines,
     OtherStepsRefine DEF Next, UserDecides

(* Every behaviour of the app is one SigningPromise allows: a session has  *)
(* one path, its bytes are only appended to, it is reviewed at most once   *)
(* and only when complete, and only that review yields a signature, over   *)
(* those bytes and that path.                                              *)
THEOREM AppKeepsPromise == Spec => KeepsSigningPromise
<1>1. Spec => Promise!Init /\ [][Promise!Next]_(Promise!vars)
  BY Invariance, InitRefines, NextRefines, PTL DEF Spec, MappedStep
<1> QED
  BY <1>1 DEF KeepsSigningPromise, Promise!Spec
=============================================================================
