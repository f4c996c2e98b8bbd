# Zenon Ledger app: TLA+ models, model checks and proofs

This directory specifies the Ledger app of the Zenon Network: the commands a
host sends, the sessions and reviews they lead to, the signature or key the
device finally answers, the host programs that share the device, and the texts
the user's consent rests on, an amount, a token and an address. Paths such as
`src/handler/sign_tx.c` are the repository's.

## 1. The system

| Part | Source | State | Operations | Modelled in |
| --- | --- | --- | --- | --- |
| Command loop | `src/app_main.c` | `G_context` (RAM), `N_storage` (non-volatile) | launch, receive, malformed bytes, dispatch, end | `ZenonApp` |
| Dispatcher | `src/apdu/` | none | refuse, choose a handler | `ZenonProtocol`, `ZenonApp` |
| Information commands | `src/handler/get_version.c`, `get_app_name.c` | none | answer | `ZenonApp` |
| Public key | `src/handler/get_public_key.c`, `src/ui/nbgl_display_address.c` | path, key | read path, derive, answer or review | `ZenonApp` |
| Signing | `src/handler/sign_tx.c`, `src/ui/nbgl_display_transaction.c` | path, `raw_tx`, `m_hash`, `state`, `req_type` | open a session, append, complete, review | `ZenonApp`, `SigningPromise` |
| Choices | `src/ui/action/validate.c` | the same context | answer a key or a signature, or refuse | `ZenonApp` |
| Transaction parser | `src/transaction/` | offset in the buffer | read the fields, write them back | `TxLayout` |
| Key bytes | `src/handler/get_public_key.c`, `src/helper/` | the key | compress the derived point, frame the answer | `PublicKey` |
| Amount text | `src/bigint.c` | none | bytes to decimal text | `AmountFormat` |
| Tokens | `src/token_standard.c` | none | which token is a coin, its symbol | `TokenStandard` |
| Address and token text | `src/segwit_addr.c`, `src/address.c`, `src/token_standard.c` | none | bytes to Bech32 and back | `Bech32`, `AddressText` |
| Home page | `src/ui/menu_nbgl.c` | none | show, leave the app | `ZenonApp` |
| Host client | `tests/application_client/zenon_command_sender.py` | the call it is in and how far it got | cut a transaction in pieces, send, wait, go on or give up | `ZenonCommandSender` |

How they interact. `app_main` waits in `io_recv_command`; while it waits the
library serves the screen, so a UI callback (a choice in a review, a status
page that times out, leaving the app) runs only there, never inside a handler.
A command received is parsed, dispatched and handled to the end before the next
wait. A handler either answers, or opens a review and returns 0 without an
answer; then the callback of the review answers, much later, from what
`G_context` holds by then. All parts share `G_context`.

A host program uses the client library: one call of it, such as `sign_tx`, is a
script of commands, each sent when the one before was answered with `SW_OK`.
Between two commands of a script the device may serve another program, be
touched by its user, be left and launched again.

What is hard about it:

* state read late: a review shows a copy of the context, its callback acts on
  the context itself;
* protocol sequences: a session lives across commands, and each command may be
  the wrong one, be refused half way, or follow one that failed;
* partial failure: every library call may fail, before or after the context
  changed; sending an answer may fail too;
* ends and relaunches at any point, with RAM that still holds the old session;
* boundaries: a full buffer, lengths written by hand in several places, the
  number representation changes of an amount;
* several programs, each with a script of its own, on one device that keeps one
  session and does not know who sent what; calls that fail half way and are made
  again.

There is no concurrency of threads in the app. `PROJECT.json` lists the hazards
one by one with the properties that cover them.

What makes each part correct:

* *loop, dispatcher, handlers*: each command is answered, once, or a review
  owes the answer; nothing else is unanswered;
* *public key*: the key answered is that of the path last read, and the one on
  display when it was confirmed;
* *signing*: one path and one review per session, bytes only appended, never
  beyond the buffer, and a signature only to consent, over what was shown;
* *parser*: every transaction of the right length parses, and its fields cover
  it;
* *host*: a program gets a signature of its own transaction under its own path,
  the key of its own path, or a refusal; what an earlier call left on the device
  does not matter; every call returns;
* *key bytes*: a host makes of the answer the point that was derived;
* *texts*: the amount shown is the amount signed, whole and inside its buffers;
  the address shown stands for the bytes signed and a slip in copying it is
  noticed; a token shown as a coin is that coin.

## 2. The modules

`ZenonProtocol` holds what host and device share: instruction codes, the
dispatcher's verdict on a command (`Verdict`, in the order of its checks), the
record `Context` for `G_context` and the way a path is read. Bytes are *units*,
natural numbers: one stands for a path component or for a whole field of a
transaction. Keys, digests and signatures are one-way terms: `Sha3(raw)` is
`<<raw>>`, so two digests are equal only if what was hashed is. Zeroed bytes are
`<<>>`.

`ZenonApp` is the running app. Its variables are

| Variable | Code |
| --- | --- |
| `ctx` | `G_context`; `member` tells which member of the union was written last, `raw_tx_len` is the length of `raw_tx` |
| `screen` | the page and what it shows; `dashboard` when the app is not running |
| `awaiting` | a command has been received and the code has still to answer it; an answer that could not be sent is not tried again |
| `reply` | the answer to the last command |
| `initialized` | `N_storage.initialized` |

and its actions one per handler outcome or callback:

| Action | Code |
| --- | --- |
| `Launch`, `Exit`, `ReceiveMalformed` | `app_main` 38-72, `app_quit` |
| `RefuseCommand` | the dispatcher's refusals |
| `HandlerGetVersion`, `HandlerGetAppName` | the handlers of that name |
| `HandlerGetPublicKey` | `handler_get_public_key` and, for P1 = 1, `ui_display_address` |
| `SignStart` | `handler_sign_tx`, chunk 0 |
| `SignChunkRefused`, `SignChunkMore`, `SignChunkLast` | `handler_sign_tx`, other chunks; the last includes parsing, hashing and `ui_display_transaction` |
| `ChooseAddress` | `review_choice` of the address and `validate_pubkey` |
| `RejectTransaction`, `ConfirmTransaction` | `review_choice` of the transaction and `validate_transaction` |
| `DismissStatus` | `ui_menu_main` after a status page |

A handler is one step because nothing can run between its statements. The calls
that may fail are the constant `MayFail`; a failure takes the code's error path
with the context as far as it had been changed. The two checks
`req_type`/`state` at the head of the display functions cannot fail where those
functions are called from, and are left out.

`SigningPromise` is the abstract specification: a session is closed, collecting,
reviewing or spent, and only reviewing can sign. `ZenonApp` maps its state to it
(`SessionPhase`, `SessionPath`, `SessionBytes`, `SignatureAnswered`) and implements
it, `KeepsSigningPromise`. A session whose buffer is full without a review is
spent: nothing fits any more and only appending can open a review.

`TxLayout` walks the parser and the serialiser with the real field sizes; a byte
is its position. The output is of any size, one too small is refused. It is what lets `ZenonApp` say that parsing a transaction is a
question of its length (`Complete`).

`ZenonCommandSender` composes programs with `ZenonApp`, whose variables it
shares. A program has

| Variable | Code |
| --- | --- |
| `call` | the method it is in and its arguments |
| `phase` | outside of a call, about to send, inside an exchange, holding an answer |
| `sent` | how many commands of the method's script were sent (`sign_tx` 101-124) |
| `answer` | the answer to the last of them |
| `meanwhile` | a history, not code: what happened to the device since the first of them |

`Script` is the commands of each method, with `split_message` and
`pack_derivation_path`; the methods are straight lines of exchanges, any answer
but `SW_OK` raises, and so does a script that has run out without a last piece
(an empty transaction). `Send` is an exchange up to the point where the handler
has answered or opened a review; `Device` is what the device does on its own, and
hands the answer of a review to the program that waits for it; `Proceed` and
`Return` are the program's use of it. `Disconnected` is an exchange with no app
on the other side, `Killed` a program that ends between two exchanges. After a
call has ended the program may make any call, the same one included.

`PublicKey` follows the bytes of a key: the point the library derives, in its own
format, the compressed key with the parity of x in a bit of y, and the framed
answer; the host unpacks it and solves for the point.

`TokenStandard` is the bytes of the two coins and what hangs on them, the symbol
and the number of decimals.

`AmountFormat` is `bigint_from_bytes`, `bigint_format` and `number_format` as
operators, with the widths (values of a byte, bytes of a dword, digits of a limb,
decimals) as constants, the review's use of them (the symbol, the character that
is dropped, the two buffers), checked against reading the text back (`Denotes`).

`Bech32` is the codec of `segwit_addr.c`, all its functions, with the checksum
word as the set of its 1 bits. `AddressText` puts the app's copies and buffers
around it: `address_encode`, `address_from_pubkey`, `token_standard_encode`. A
text is shown, a person copies it, exactly, in capitals or with one slip (a
character misread, made up or left out, two neighbours exchanged), and a wallet
decodes the copy. The app's texts carry no version; the texts with a version,
which the library also offers, go through the same steps.

The modules `MC...` give constants their values. The theorems are in
`ZenonAppProofs`, `ZenonAppRefinementProofs`, `ZenonCommandSenderProofs`,
`TxLayoutProofs`, `PublicKeyProofs`, `AddressTextProofs` and `AmountFormatProofs`;
`DataLemmas` has lemmas about numbers and digits that the last three share.

Operators commented as *faulty variants* are not part of any specification. Each
is a definition with a plausible bug in it (a missing reset, a check off by one,
a swapped constant); `PROJECT.json` names the property that fails when it takes
the definition's place, which shows that the property depends on the code.

## 3. The runs

| Run | Module, configuration | Shows |
| --- | --- | --- |
| `app` | `MCZenonApp` | `TypeOK`, `AwaitingIffReview`, `ReviewMatchesContext`, `SignedIsWhatWasShown`, `AnsweredKeyIsWhatWasShown`, and the refinement `KeepsSigningPromise`, with every library call free to fail |
| `clients_two` | `MCZenonCommandSender`, `_two` | `SystemTypeOK`, `SessionIsTheClients`, `SignatureIsOwn`, `KeyIsOwn`, `ProperCallNotRefused` with two programs on one device |
| `client_one` | `MCZenonCommandSender`, `_one` | `SessionIsTheClients`, `ProperCallNotRefused` with all three chunk indices; `CallReturns` and `AnswerEventually` under `FairSystemSpec` |
| `amount_text` | `MCAmountFormat` | `ShownDigitsDenoteAmount`, `ShownTextFits` |
| `tx_layout` | `TxLayout` | `ParsingFailsOnlyOnLength`, `SerializingRestoresBytes` |
| `address_text` | `MCAddressText` | `EncodesWhatIsProper`, `ExactCopyReadsBack`, `BadCopyRefused`, `VersionedLengthKept`, `CoinsAreNamedInTheirText`, `ShownAddressIsTheTests` |
| `public_key` | `PublicKey` | `HostReadsThePoint` |
| `doc_p2`, `doc_path`, `doc_status`, `doc_signed` | `MCDocClaims` | four statements the code does not keep (section 6) |
| `doc_amount` | `MCAmountFormat`, `_text` | a fifth |

### Bounds

*App.* Paths have at most two components, announced lengths from 0 to 3: too
short, too long, with trailing data, the smallest and the largest right one. A
transaction is three units, the second its block type and the third the field a
send shows; the first is only there to be appended. Units are 0 to 2: an unknown
type, a receive and a send. Chunks have one or two units, or fill or overflow the
empty buffer, so a transaction arrives in one, two or three chunks and the limit
is hit exactly, by one, and from every length. Chunk indices are 1 and the
largest, as the code only compares them with 0. There is no bound on the number
of commands: about 27000 states are all there are. The invariants relate one
context to one screen and one answer, and handlers only compare lengths and
types, so more units or components add no new case; the proofs settle it for
every size.

*Programs.* Transactions of three units again. With pieces of at most two
(`clients_two`) a transaction takes two commands, like 255 + 51 bytes on the
device; with pieces of one (`client_one`) it takes three, and all the chunk
indices the dispatcher allows. One program makes every kind of call: a send and a
receive under different paths, transactions empty, too short by one and by two
and too long, paths too short and too long, and all the other commands; two
programs make those that can get in each other's way. Two are enough for the
properties: each speaks of one program and of events that any other may cause,
and the device does not tell the others apart. Nothing bounds the number of
calls; two programs have about 477000 states.

*Amount.* The bytes, length and decimals of the device: 256, 32 and 8. Only the
dword (two bytes instead of four) and the limb (four digits instead of nine) are
scaled down, because the values in between have to fit TLC's integers; that a
dword is at least two limb bases, which makes the carry overflow one limb, and at
most the square of the base, is kept (`AmountAssumption`). The amounts are every
numeral of ones, nines and zeros of 1 to 78 digits, every border of a dword at
every length, and every amount of two dwords over eleven bytes around the borders
of bytes, limbs and half dwords; each for both coins and for a token.
`doc_amount` uses a smaller scale: bytes of two bits, dwords of 256, limbs of two
digits, two decimals, and every amount of two dwords.

*Layout.* The real sizes; buffers and outputs from 0 to 310 bytes.

*Address.* The real sizes: addresses, one with a text that ends in "qp" (where
the checksum alone misses a character), the hash of a key, both coins, a token and
one that differs from a coin in its last byte; versions -1, 0, 1, 16 and 17 with
programs at and beyond the borders of their lengths. Every slip at every place
over eleven characters, five of the alphabet and six outside; the checksum is
linear, so which character of the alphabet is misread adds nothing new.

*Key.* A curve of the same form over a field with 109 elements, which is 5 modulo
8 like the real one, bytes of two bits and coordinates of four: every point.

### Fairness and the environment

The app's only fairness is `WF_vars(UserDecides)`: the user of an open review
eventually touches one of its two buttons. Nothing in the code forces a choice;
without one the command stays unanswered, which is what the review is for.
`AnswerEventually` also assumes that sending an answer does not fail
(`CallsExceptSending`): a callback ignores a failure to send, and the host then
really gets nothing. `app` and `clients_two` let sending fail too. There a lost
answer of a callback leaves the transaction spent (`KeepsSigningPromise`: nothing
of it can be signed again), and the program's next call is served as any other
(`SignatureIsOwn`, `ProperCallNotRefused`). `AwaitingIffReview` says nothing about
it: it is about answers forgotten by the code, not about answers lost on the way.

`FairSystemSpec` adds that a program in a call goes on with it
(`WF_systemVars(ClientStep(c))`): it is a process that runs, and an exchange with
an app that is not running fails. It is used with one program only: with two,
nothing in client or app keeps one from occupying the device for ever, and the
code promises no such thing.

Answers reach the program that sent the command; the transport pairs them. A
program killed inside an exchange is left out: what becomes of its answer is up
to the transport.

A command is received only when the last one is answered (`~awaiting`). This is
the device library's transport, which is not in the repository: it accepts no
APDU while one is pending. The handlers rely on it; without it a command during a
review would change the context under the review.

RAM keeps its contents when the app ends (`Exit`) and is wiped at the next
`Launch`, as `explicit_bzero` in `app_main` does; power loss is covered by the
same action. Storage keeps `initialized`.

Deadlock is checked for the app. The text and layout modules describe one
computation and stop when it is done; their configurations say so.

### What two programs can expect

The device keeps one session and any chunk is appended to it. While a program
signs, another that reads keys can only make it fail: the session is gone and the
next chunk is refused. Another that signs is different: chunk 0 of one and then a
later chunk of the other make one transaction out of both, under the path of the
first. `SignatureIsOwn` therefore promises a program its own transaction only as
long as no other program signs meanwhile. The user is the last check: what is
shown is what is signed (`SignedIsWhatWasShown`), for all fields of a send.

## 4. The proofs

`ZenonAppProofs` proves, for every value of the constants that the assumptions
`ProtocolAssumption` and `AppAssumption` allow (any path capacity, any
transaction length, any fields shown, any set of commands, any set of calls that
may fail):

| Theorem | Statement |
| --- | --- |
| `Invariance` | `Spec => []Inv` |
| `TypeCorrect` | `Spec => []TypeOK` |
| `AnswerOwedIffReview` | `Spec => []AwaitingIffReview` |
| `ContextIsWhatIsShown` | `Spec => []ReviewMatchesContext` |
| `SigningNeedsConsent` | `Spec => SignedIsWhatWasShown` |
| `ConfirmedKeyWasShown` | `Spec => AnsweredKeyIsWhatWasShown` |

and `ZenonAppRefinementProofs` proves `AppKeepsPromise`, `Spec => KeepsSigningPromise`.

The assumptions are `TRANSACTION_LEN = TX_LEN` (two constants of two headers),
positions of the block type and the shown fields inside a transaction, commands
that are commands, failures that are failures of the listed calls.

The argument. `Inv` is `TypeOK /\ AwaitingIffReview /\ ReviewMatchesContext`; the
three are inductive only together. A command is handled only when nothing is
awaited; by `AwaitingIffReview` no review is up then, so a handler may change the
context without breaking `ReviewMatchesContext`. A handler ends in one of two
ways, `Settled` (it answered, or the app ended, and no new review) or `Opened`
(a review of the context it has just built); one lemma per library helper shows
which. A settled step keeps `Inv` whatever well-formed context it leaves
(`SettledKeepsInv`), so the work of most handlers is to show the context well
formed, of the last chunk that the buffer is complete and the digest is of the
buffer. The action properties follow from `Inv` before the step: only the
confirming callback produces a signature, and `Inv` says what the context is then.
The refinement proof goes by the same split: `Settled` steps map to `Open`,
`Collect`, `Close` or `AnswerOther`, an `Opened` transaction review to `Collect`
into `reviewing`, choices to `Sign` or `Withhold`.

`ZenonCommandSenderProofs` proves, about the composition of programs and device,
for any set of programs, any requests, any piece length (`ClientAssumption`) and
on top of the assumptions above:

| Theorem | Statement |
| --- | --- |
| `SystemTypeCorrect` | `SystemSpec => []SystemTypeOK` |
| `ProgramsDriveTheApp` | `SystemSpec => Spec` |
| `KeysAreOwn` | `SystemSpec => []KeyIsOwn` |
| `SessionsAreTheClients` | `SystemSpec => []SessionIsTheClients` |
| `SignaturesAreOwn` | `SystemSpec => []SignatureIsOwn` |
| `ProperCallsAreServed` | `FewPieces => (SystemSpec => []ProperCallNotRefused)` |

`ProgramsDriveTheApp` is the composition's refinement: a step of the system is a
step of the app or leaves it alone, so every theorem about `Spec` holds here too.
It needs that a program never sends past the end of its script, hence the types
first: `TypeInv` adds to `Inv` and `SystemTypeOK` that nothing is left of a call
outside of it (`IdleIsFresh`) and that at most one program waits, for an answer
that is owed (`OneWaits`).

The properties of the programs are not inductive, because an answer can come much
later than the command, from a review. `KeyInv` strengthens `KeyIsOwn` with whose
review is on display (`ReviewIsOwn`). `SessionInv` strengthens
`SessionIsTheClients` in two ways: it goes on while a program waits for the user,
when all its pieces were sent; and if keys were read or the app restarted, but no
other program signed, the session is either gone or still the program's own
(`SessionOf`). `SignatureIsOwn` follows from both and from
`ReviewMatchesContext`: what is signed is what the session holds when the user
confirms. Three lemmas say what a command of each kind does to the device
(`KeyCommand`, `SignCommand`, `OtherCommand`); `SignScript` says what the commands
of a signing call are; `NextPiece` says that a piece appended to those before it
makes the transaction up to its end, from which the equality of the session's
bytes with what was sent follows by steps.

`ProperCallsAreServed` assumes `FewPieces`, `TX_LEN <= P1_MAX * MAX_APDU_LEN`, a
relation between a length and two limits that the code writes in three places
(306 <= 3 * 255); both configurations of the programs keep it, one of them with
equality. `PiecesAreProper` derives from it that no piece is empty and
that the index of the last is accepted; `ProperStart` and `ProperChunk` then go
through the dispatcher's and the handler's checks.

`TxLayoutProofs` proves `OnlyLengthFails`, `Spec => []ParsingFailsOnlyOnLength`,
and `BytesAreRestored`, `Spec => []SerializingRestoresBytes`, for buffers and outputs
of any size. The invariant (`LayoutInv`) fixes the offset after each field by a table of
where the fields end (`Ends`); lemma `Table` compares it with the sizes of the
reads, `EndsGoUp` with `TX_LEN`.

### The key bytes

`PublicKeyProofs` proves `SpecHostReadsThePoint`, `Spec => []HostReadsThePoint`, for
any field without zero divisors, any curve of the form (`D` neither 0 nor -1), any
even number of values of a byte and any length, as long as a coordinate leaves the
highest bit of its bytes free (`KeyAssumption`; on the device 2^255 - 19 in 32 bytes
of 256). Three things come together. The digits of a number make the number again,
by induction over the length (`HostDecompresses`); the bit that is set in the last
byte adds exactly half of all values, and only if it was free (`ValueOfCompressed`);
and y with the parity of x determines the point (`SamePoint`): the curve's equation
gives the square of x, two roots differ by a sign, and the two have different
parities because the field's size is odd.

### The texts of addresses and tokens

`AddressTextProofs` proves, for all bytes, slips and versions from -224 on
(`AddressAssumption`):

| Theorem | Statement |
| --- | --- |
| `SpecEncodesWhatIsProper` | `Spec => []EncodesWhatIsProper` |
| `SpecExactCopyReadsBack` | `Spec => []ExactCopyReadsBack` |
| `SpecCoinsAreNamedInTheirText` | `Spec => []CoinsAreNamedInTheirText` |
| `SpecBadCopyRefused` | `Spec => []BadCopyRefused` |

The invariant (`Texts`) says that what is shown is the text of what was given. The
rest is about the codec. `RegroupsBack`: bits regrouped into fives and back are the
bytes they were. `ChecksumCloses`: the characters of the checksum, absorbed in place
of the six zeros, leave the final constant; it rests on `StepLinear` (a bit below the
highest five moves five places and does nothing else, so what six characters add
arrives unchanged at the end), and on `AbsorbFunction`, induction over the text.
`DecodeReadsText` puts them together: the decoder finds the separator, since no
character of the alphabet is a "1", the values, since the characters differ, and the
encoding, since the two constants do. `CopiedIsText`: the fixed lengths of the copies
cut nothing off. For the coins, `GroupsOfBytes` computes the groups of five bytes at a
time, and `GroupsInjective` says that a text with a coin's characters is of the coin's
bytes.

`BadCopyRefused` needs more than what the checksum of one text is: it compares the
text with every text one slip away.

* The cases (`CopyCases`). A copy of the same length is the text in one of the cases,
  or differs from it at two neighbouring places at most, whatever characters a slip
  puts in. That the length is the same follows, for texts without a version, from the
  number of bytes the decoders insist on (`LengthIsKnown`, `AcceptedLength`); the
  prefix, which they compare, fixes where the separator is (`SlipIsNoticed`). A copy
  one character longer or shorter is therefore refused without the checksum.
* The step of the checksum is linear (`StepAdds`) and injective (`StepInjective`): the
  difference of the checksums of two texts goes on by the step itself while their
  values agree, and a difference never vanishes. `StepLiteral` computes the generators
  from the five numbers of the code, bit by bit.
* After the two places the difference is not empty and has bits of the last two
  symbols only (`StartOfDifference`); it must not become the difference of the two
  constants, because the decoder accepts either. `ConstantsOutOfReach` goes back from
  that word one step at a time, by injectivity there is one word each time, and finds
  a bit beyond the last two symbols in all 71 of them; a text has at most 72 values.
  So neither end is reached (`NeighboursAreChecked`), and the values are the same.

Versions below -224 are excluded: `segwit_addr.h` asks for 0 to 16, the encoder keeps a
byte of what it is given and would take -251 for 5.

### The text of an amount

`AmountFormatProofs` proves, for any widths of a byte, a dword and a limb that
`AmountAssumption` allows, up to 17 decimals and any set of amounts:

| Theorem | Statement |
| --- | --- |
| `SpecShowsTheAmount` | `AmountFits => (Spec => []ShownDigitsDenoteAmount)` |
| `SpecTextFits` | `AmountFits => (Spec => []ShownTextFits)` |
| `DeviceAmountsFit` | `BYTE = 256 /\ AMOUNT_LEN = 32 => AmountFits` |

`AmountFits` says that no amount has more than 78 digits, what the buffers of the
review have room for. It is a hypothesis and not an assumption on the constants
because TLC's integers cannot hold 256^32; `DeviceAmountsFit` derives it for the
device and for `amount_text`. So the theorems hold for the real dwords of four bytes
and limbs of nine digits, which TLC cannot compute with, and for all 2^256 amounts.

The invariant says that the text, once there, is `AmountText` of the amount; the work
is to follow one number through its representations. `Val` is the value of digits in
any base, `Is` the digits of a base.

* bytes to dwords (`BigintIs`): a dword is the value of its bytes, and digits grouped
  by `DWORD_BYTES` are digits of base `DWORD` with the same value; leading zero bytes
  do not count.
* dwords to limbs (`LimbsAre`): `ShiftIn` multiplies by `DWORD` and adds the dword
  (`ShiftInIs`); the carry stays below `DWORD`, and because a dword is at most the
  square of the limb's base two new limbs are enough. No top limb is 0.
* limbs to digits (`LimbTextIs`): all digits of each limb, and those the top limb
  needs.
* zeros and point (`number_format`): three cases, a point inside of the digits
  (`WithFraction`), in front of them (`WithoutWhole`) and zero; each of the two parts and
  what was dropped is put together to the digits again (`CutAndPadded`).
* the copy (`bigint_format`): for a length computed from the digits, the text fits
  in it, and what is stored behind the text is cut off by the zero in front of it or
  is the one character that the review drops.
* reading back (`ReadsBack`): `TimesTenPlus` is the schoolbook step on bytes, and
  digits in front and zeros behind do what they should; two byte strings of the same
  length and value are equal (`ValInjective`), so the bytes read are the amount's.

`DataLemmas` has what these three rest on: induction over a set of numbers (from the
well-founded order of the library, stated with sets), functions defined by recursion,
division with remainder, powers, and the value of digits in a base: how it grows with
one digit or a whole group, its bound, and that it determines the digits.

### Only model-checked

* Liveness (`CallReturns`, `AnswerEventually`): out of the prover's reach.
* `VersionedLengthKept`: that a character made up or left out of a versioned text is
  noticed too. It cannot be expected of all programs. Where a copy may have another
  length, only the thirty bits of the checksum and the bits left over tell it from a
  text, and no argument excludes that some slip of some program is another program's
  text. It is checked for programs whose text ends in "p" when it is written in the
  encoding of the other versions, the case for which Bech32m has its own constant. The
  app shows no versioned text.
* `ShownAddressIsTheTests`: one text computed from one address.
* That the statements of the documentation of section 6 fail: these runs give the
  counterexample, which is all there is to show.

## 5. What is not modelled

The device library (transport, screens, derivation, hashes, formatting of paths
and hex) is used through what the code does with its results. Titles, icons,
information pages, log output and the layout of pages are left out. The model
represents characters, not storage: reads or copies past a text in the local
buffers are not visible (`bigint.c:222`). Signed and little-endian amounts have
no caller. The branches for devices without NBGL are not built.
`get_app_and_version` of the client is a command of another class, for the
device's system: it is answered there and no code of the app runs. The unit tests, the fuzzer and the functional tests are harnesses
without state of their own; what they give as expected values is used where it
says something about the app (`ShownAddressIsTheTests`, the amounts of the runs).

## 6. Where the code and what is said of it differ

1. `doc/COMMANDS.md:60` gives P2 of SIGN_TX as 0x00 for more and 0x80 for last;
   the dispatcher takes the opposite (`doc_p2`).
2. `sign_tx.h:9-10` makes signing conditional on a parsed path; a refused chunk 0
   leaves a session open (`doc_path`).
3. `doc/COMMANDS.md:68-86` lists the status words; `handler_get_public_key` also
   answers library errors (`doc_status`).
4. The page of a signed transaction is shown when signing failed and the host is
   told so (`doc_signed`).
5. An amount with exactly one trailing zero dropped is shown with a newline after
   it, unless it fits in 31 bits (`doc_amount`).

Seen while modelling, without a run: `doc/TRANSACTION.md:5` says the message hash
is constructed after the user's approval, the code hashes before the review (the
receive review shows the hash); `address.h` describes the hash bytes of an
address as `[1:19]`, the code takes the first nineteen; `token_standard.h`
says 26 characters where the copy takes 27, the last being the terminator, and
`fuzzing/fuzz_tx_parser.c:28` declares a buffer for 26 and a terminator, which
`token_standard_encode` refuses (it wants 28), so the fuzzer never gets past that
check; `segwit_addr.h:114` says "Decode a bech32 address", `bech32_addr_decode`
also takes a Bech32m text; `tests/test_sign_cmd.py:27` calls an amount of 737277
units 0.0737277 ZNN, which is 0.00737277.

## 7. Plan

Done: the protocol and the app; its abstract specification and the refinement; the
layout of a transaction; the texts, amount, token and address; the key bytes; the
host programs with the device; the statements of the documentation that the code
does not keep; the proofs of all safety properties of the app, of the composition,
of the layout, of the key bytes, of the amount text and of the address texts,
slips included, except for what is named above as only model-checked.

Order followed, and to be followed by additions: the most important behaviour
first (what is signed), then what it rests on (what is shown), then its use
(the host), each module checked before it is proved about.

Possible next steps: the signed conversions of `bigint.c` once they have a caller.
