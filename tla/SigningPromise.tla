--------------------------- MODULE SigningPromise ---------------------------
(***************************************************************************)
(* What the app promises the owner of the keys, with nothing of how: a     *)
(* signing session fixes a path when it opens, collects bytes that are     *)
(* only ever appended to, presents them to the user at most once, when     *)
(* they are complete, and only the user's consent to what is presented     *)
(* turns them into a signature, over exactly those bytes and that path.    *)
(***************************************************************************)
EXTENDS Integers, Sequences

CONSTANTS
  N,       \* length of a complete transaction
  Paths,   \* the paths a session can be opened for
  NoPath   \* the path of a closed session

VARIABLES
  phase,   \* "closed", "collecting", "reviewing" or "spent"
  path,    \* the session's path
  bytes,   \* the bytes collected
  signed   \* the signature in the latest answer: empty, or path and bytes

vars == <<phase, path, bytes, signed>>

Init ==
  /\ phase = "closed" /\ path = NoPath /\ bytes = <<>> /\ signed = <<>>

(* Opening a session forgets the previous one. *)
Open ==
  /\ phase # "reviewing"
  /\ phase' = "collecting"
  /\ path' \in Paths
  /\ bytes' = <<>>
  /\ signed' = <<>>

(* Bytes are appended; once complete they are either presented or, when    *)
(* something failed, never will be.                                        *)
Collect ==
  /\ phase = "collecting"
  /\ Len(bytes') > Len(bytes) /\ Len(bytes') <= N
  /\ SubSeq(bytes', 1, Len(bytes)) = bytes
  /\ phase' \in IF Len(bytes') = N THEN {"reviewing", "spent"}
                                   ELSE {"collecting"}
  /\ signed' = <<>>
  /\ UNCHANGED path

Sign ==
  /\ phase = "reviewing"
  /\ phase' = "spent"
  /\ signed' = <<path, bytes>>
  /\ UNCHANGED <<path, bytes>>

(* The user refuses, or signing or sending the answer fails. *)
Withhold ==
  /\ phase = "reviewing"
  /\ phase' = "spent"
  /\ signed' = <<>>
  /\ UNCHANGED <<path, bytes>>

Close ==
  /\ phase' = "closed" /\ path' = NoPath /\ bytes' = <<>> /\ signed' = <<>>

(* Any other answer. *)
AnswerOther ==
  /\ phase # "reviewing"
  /\ signed' = <<>>
  /\ UNCHANGED <<phase, path, bytes>>

Next == Open \/ Collect \/ Sign \/ Withhold \/ Close \/ AnswerOther

Spec == Init /\ [][Next]_vars
=============================================================================
