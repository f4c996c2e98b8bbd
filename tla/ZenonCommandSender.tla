------------------------- MODULE ZenonCommandSender -------------------------
(***************************************************************************)
(* Host programs that use the client of tests/application_client, and the  *)
(* device they share.  A call of the client is a script of commands: each  *)
(* is sent when the answer to the one before it was SW_OK, any other       *)
(* answer, or none, raises and ends the call.  A caller may call again,    *)
(* with the same arguments or others, and may be killed between two        *)
(* exchanges.                                                              *)
(*                                                                         *)
(* An exchange with a handler is one step of ZenonApp.  The answer waits   *)
(* for the program that sent the command, which uses it in a later step:   *)
(* the commands of other programs, reviews and restarts come in between.   *)
(***************************************************************************)
EXTENDS ZenonApp

CONSTANTS
  Clients,      \* the host programs
  Requests,     \* the calls they make
  MAX_APDU_LEN  \* what one command carries

Operations ==
  {"get_version", "get_app_name", "get_public_key",
   "get_public_key_with_confirmation", "sign_tx"}

(* path: a list of components; tx: the transaction of sign_tx. *)
Request == [op : Operations, path : Seq(Nat), tx : Seq(Nat)]
NoCall == [op |-> "none", path |-> <<>>, tx |-> <<>>]

-----------------------------------------------------------------------------
(* The calls. *)
APDU(ins, p1, p2, data) ==
  [cla |-> CLA, ins |-> ins, p1 |-> p1, p2 |-> p2, data |-> data]

pack_derivation_path(path) == <<Len(path)>> \o path

(* The end, in the message, of its first n pieces. *)
PiecesEnd(message, max_size, n) ==
  IF n * max_size < Len(message) THEN n * max_size ELSE Len(message)

Pieces(message, max_size) == (Len(message) + max_size - 1) \div max_size

(* Faulty variant: pieces overlap by one. *)
split_message_overlapping(message, max_size) ==
  [n \in 1..Pieces(message, max_size) |->
     SubSeq(message, IF n = 1 THEN 1 ELSE PiecesEnd(message, max_size, n - 1),
                     PiecesEnd(message, max_size, n))]

split_message(message, max_size) ==
  [n \in 1..Pieces(message, max_size) |->
     SubSeq(message, PiecesEnd(message, max_size, n - 1) + 1,
                     PiecesEnd(message, max_size, n))]

(* sign_tx: the path, then the transaction's pieces.  For an empty         *)
(* transaction there is no last piece: the call raises after the path.     *)
sign_tx(path, tx) ==
  LET messages == split_message(tx, MAX_APDU_LEN)
  IN  <<APDU(SIGN_TX, P1_START, P2_MORE, pack_derivation_path(path))>>
        \o [n \in 1..Len(messages) |->
              APDU(SIGN_TX, P1_START + n,
                   IF n = Len(messages) THEN P2_LAST ELSE P2_MORE, messages[n])]

Script(r) ==
  CASE r.op = "get_version" -> <<APDU(GET_VERSION, 0, 0, <<>>)>>
    [] r.op = "get_app_name" -> <<APDU(GET_APP_NAME, 0, 0, <<>>)>>
    [] r.op = "get_public_key" ->
         <<APDU(GET_PUBLIC_KEY, 0, 0, pack_derivation_path(r.path))>>
    [] r.op = "get_public_key_with_confirmation" ->
         <<APDU(GET_PUBLIC_KEY, 1, 0, pack_derivation_path(r.path))>>
    [] r.op = "sign_tx" -> sign_tx(r.path, r.tx)

ASSUME ClientAssumption ==
  /\ Requests \subseteq Request
  /\ MAX_APDU_LEN \in Nat \ {0}
  /\ \A r \in Requests : \A i \in 1..Len(Script(r)) : Script(r)[i] \in Commands

-----------------------------------------------------------------------------
VARIABLES
  call,      \* the request of each program's call, NoCall outside of one
  phase,     \* "idle", "ready" to send, "waiting" or "answered"
  sent,      \* how many commands of the script were sent
  answer,    \* the answer to the last of them
  meanwhile  \* history: what happened to the device since the first of them

clientVars == <<call, phase, sent, answer, meanwhile>>
systemVars == <<vars, clientVars>>

(* What may happen to the device behind a program's back: commands of      *)
(* other programs that change the context, and the end of the app.         *)
Events == {"signing", "key", "restart"}

CommandEvents(cmd) ==
  CASE cmd.ins = SIGN_TX -> {"signing"}
    [] cmd.ins = GET_PUBLIC_KEY -> {"key"}
    [] OTHER -> {}
EndEvents == IF screen'.page = "dashboard" THEN {"restart"} ELSE {}

Happens(events, but) ==
  meanwhile' = [c \in Clients |->
                  IF sent[c] = 0 \/ c \in but THEN meanwhile[c]
                                             ELSE meanwhile[c] \union events]

-----------------------------------------------------------------------------
Call(c, r) ==
  /\ phase[c] = "idle"
  /\ call' = [call EXCEPT ![c] = r]
  /\ phase' = [phase EXCEPT ![c] = "ready"]
  /\ UNCHANGED <<vars, sent, answer, meanwhile>>

(* The next exchange begins; it ends at once unless a review opened. *)
Send(c) ==
  /\ phase[c] = "ready"
  /\ LET cmd == Script(call[c])[sent[c] + 1] IN
       /\ HandleCommand(cmd)
       /\ Happens(CommandEvents(cmd) \union EndEvents, {c})
  /\ sent' = [sent EXCEPT ![c] = @ + 1]
  /\ phase' = [phase EXCEPT ![c] = IF awaiting' THEN "waiting" ELSE "answered"]
  /\ answer' = [answer EXCEPT ![c] = reply']
  /\ UNCHANGED call

CallEnds(c) ==
  /\ call' = [call EXCEPT ![c] = NoCall]
  /\ phase' = [phase EXCEPT ![c] = "idle"]
  /\ sent' = [sent EXCEPT ![c] = 0]
  /\ answer' = [answer EXCEPT ![c] = NoReply]
  /\ meanwhile' = [meanwhile EXCEPT ![c] = {}]
  /\ UNCHANGED vars

(* Faulty variant: one command too many. *)
ScriptDoneLate(c) == sent[c] > Len(Script(call[c]))

ScriptDone(c) == sent[c] = Len(Script(call[c]))

Proceed(c) ==
  /\ phase[c] = "answered"
  /\ answer[c].sw = "SW_OK" /\ ~ScriptDone(c)
  /\ phase' = [phase EXCEPT ![c] = "ready"]
  /\ answer' = [answer EXCEPT ![c] = NoReply]
  /\ UNCHANGED <<vars, call, sent, meanwhile>>

Return(c) ==
  /\ phase[c] = "answered"
  /\ answer[c].sw # "SW_OK" \/ ScriptDone(c)
  /\ CallEnds(c)

(* No app answers: the exchange fails. *)
Disconnected(c) ==
  /\ phase[c] = "ready" /\ ~Running
  /\ CallEnds(c)

(* The program is killed between two exchanges; the device knows nothing.  *)
Killed(c) ==
  /\ phase[c] \in {"ready", "answered"}
  /\ CallEnds(c)

-----------------------------------------------------------------------------
(* What the device does on its own.  An answer, or the end of the app,     *)
(* reaches the program that waits for it.                                  *)
DeviceAlone == Launch \/ Exit \/ UserDecides \/ DismissStatus

Device ==
  /\ DeviceAlone
  /\ LET answered == {c \in Clients : phase[c] = "waiting" /\ ~awaiting'} IN
       /\ phase' = [c \in Clients |-> IF c \in answered THEN "answered" ELSE phase[c]]
       /\ answer' = [c \in Clients |-> IF c \in answered THEN reply' ELSE answer[c]]
  /\ Happens(EndEvents, {})
  /\ UNCHANGED <<call, sent>>

SystemInit ==
  /\ Init
  /\ call = [c \in Clients |-> NoCall]
  /\ phase = [c \in Clients |-> "idle"]
  /\ sent = [c \in Clients |-> 0]
  /\ answer = [c \in Clients |-> NoReply]
  /\ meanwhile = [c \in Clients |-> {}]

ClientStep(c) == Send(c) \/ Proceed(c) \/ Return(c) \/ Disconnected(c)

SystemNext ==
  \/ \E c \in Clients : (\E r \in Requests : Call(c, r)) \/ ClientStep(c) \/ Killed(c)
  \/ Device

SystemSpec == SystemInit /\ [][SystemNext]_systemVars

(* A program in a call goes on with it, and the user of a review decides.  *)
SystemFairness ==
  /\ \A c \in Clients : WF_systemVars(ClientStep(c))
  /\ WF_systemVars(UserDecides /\ Device)

FairSystemSpec == SystemSpec /\ SystemFairness

-----------------------------------------------------------------------------
OwnPath(c) == PathRead(pack_derivation_path(call[c].path))
Signing(c) == call[c].op = "sign_tx" /\ sent[c] > 0
Undisturbed(c) == meanwhile[c] = {}
Progressing(c) ==
  phase[c] = "ready" \/ (phase[c] = "answered" /\ answer[c].sw = "SW_OK")

(* Type invariant; the script is never overrun (sign_tx of the client).    *)
SystemTypeOK ==
  /\ call \in [Clients -> Requests \union {NoCall}]
  /\ phase \in [Clients -> {"idle", "ready", "waiting", "answered"}]
  /\ sent \in [Clients -> Nat]
  /\ answer \in [Clients -> Reply]
  /\ meanwhile \in [Clients -> SUBSET Events]
  /\ \A c \in Clients :
       /\ (call[c] = NoCall) <=> (phase[c] = "idle")
       /\ phase[c] = "ready" => sent[c] < Len(Script(call[c]))
       /\ phase[c] \in {"waiting", "answered"} => sent[c] \in 1..Len(Script(call[c]))

(* While a program is between two pieces of its transaction, the session   *)
(* of the device is its own and holds exactly the pieces it sent, unless   *)
(* other programs signed or read keys in between, or the app ended: no     *)
(* earlier call, finished, refused or killed, leaves anything in it        *)
(* (handler_sign_tx, chunk 0).                                             *)
SessionIsTheClients ==
  \A c \in Clients :
    Signing(c) /\ Undisturbed(c) /\ Progressing(c) =>
       /\ Running
       /\ ctx.req_type = "CONFIRM_TRANSACTION"
       /\ ctx.bip32 = OwnPath(c)
       /\ ctx.raw_tx = SubSeq(call[c].tx, 1, PiecesEnd(call[c].tx, MAX_APDU_LEN, sent[c] - 1))

(* A program that gets a signature gets one over the transaction and with  *)
(* the path it called sign_tx with, unless another program signed at the   *)
(* same time; reading keys and restarts can only make the call fail.       *)
SignatureIsOwn ==
  \A c \in Clients :
    answer[c].kind = "signature" /\ "signing" \notin meanwhile[c] =>
      /\ call[c].op = "sign_tx"
      /\ answer[c].path = <<OwnPath(c)>>
      /\ answer[c].hash = Sha3(call[c].tx)

(* A program that gets a public key gets the one of the path it asked for, *)
(* whatever others do in the meantime (handler_get_public_key and its      *)
(* review).                                                                *)
KeyIsOwn ==
  \A c \in Clients :
    answer[c].kind = "public_key" =>
      /\ call[c].op \in {"get_public_key", "get_public_key_with_confirmation"}
      /\ answer[c].key = KeyOf(OwnPath(c))

(* What the client may be called with for a transaction to be signed. *)
ProperTransaction(r) ==
  /\ r.op = "sign_tx"
  /\ Len(r.path) \in 1..MAX_BIP32_PATH
  /\ Len(r.tx) = TX_LEN
  /\ r.tx[BLOCK_TYPE_AT] \in SendTypes \union ReceiveTypes

(* A proper call that nothing disturbs is not refused, whatever the        *)
(* device went through before it: it ends in a signature, in the user's    *)
(* rejection, or in a failure of the library.  In particular its pieces    *)
(* are few enough for the chunk index and fill the buffer exactly.         *)
Refusals ==
  {"SW_WRONG_P1P2", "SW_WRONG_DATA_LENGTH", "SW_INS_NOT_SUPPORTED",
   "SW_CLA_NOT_SUPPORTED", "SW_WRONG_TX_LENGTH", "SW_TX_PARSING_FAIL",
   "SW_BAD_STATE"}

ProperCallNotRefused ==
  \A c \in Clients :
    ProperTransaction(call[c]) /\ Undisturbed(c) => answer[c].sw \notin Refusals

(* Every call returns: neither the device nor the script leaves a program  *)
(* waiting for ever.                                                       *)
CallReturns == \A c \in Clients : phase[c] # "idle" ~> phase[c] = "idle"
=============================================================================
