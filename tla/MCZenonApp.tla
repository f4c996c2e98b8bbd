----------------------------- MODULE MCZenonApp -----------------------------
(* A small instance of ZenonApp for TLC: paths of at most two components,  *)
(* transactions of three units whose second is the block type and whose    *)
(* third is the only field a send review displays.                         *)
EXTENDS ZenonApp

MCShownAt == <<3>>

(* Block types, and payloads: unknown (0), receive (1) and send (2).       *)
Units == 0..2

(* Path data: announced length and components.  Lengths 0 and 3 are out of *)
(* range, <<2, 1>> is too short, <<1, 1, 7>> has trailing data.            *)
PathData == {<<0>>, <<1, 1>>, <<1, 1, 7>>, <<2, 1>>, <<2, 1, 2>>, <<3, 1, 2>>}

(* Chunks: single units, pairs, two that fill the buffer and one that      *)
(* overflows an empty one.                                                 *)
ChunkData ==
  {<<u>> : u \in Units} \union {<<u, v>> : u, v \in Units}
    \union {<<2, 1, 2>>, <<1, 2, 1>>, <<2, 2, 2, 2>>}

Cmd(ins, p1, p2, data) ==
  [cla |-> CLA, ins |-> ins, p1 |-> p1, p2 |-> p2, data |-> data]

InfoCommands ==
  {Cmd(ins, p1, p2, <<>>) : ins \in {GET_VERSION, GET_APP_NAME},
                            p1 \in {0, 1}, p2 \in {0, 1}}
KeyCommands ==
  {Cmd(GET_PUBLIC_KEY, p1, 0, data) : p1 \in {0, 1}, data \in PathData}
StartCommands == {Cmd(SIGN_TX, P1_START, P2_MORE, data) : data \in PathData}
ChunkCommands ==
  {Cmd(SIGN_TX, p1, p2, data) :
     p1 \in {1, P1_MAX}, p2 \in {P2_LAST, P2_MORE}, data \in ChunkData}
BadCommands ==
  {[Cmd(SIGN_TX, 0, 0, <<1, 1>>) EXCEPT !.cla = 225],
   Cmd(7, 0, 0, <<>>),
   Cmd(GET_PUBLIC_KEY, 2, 0, <<1, 1>>), Cmd(GET_PUBLIC_KEY, 0, 0, <<>>),
   Cmd(SIGN_TX, P1_START, P2_LAST, <<1, 1>>), Cmd(SIGN_TX, 4, P2_MORE, <<1>>),
   Cmd(SIGN_TX, 1, 1, <<1>>), Cmd(SIGN_TX, 1, P2_LAST, <<>>)}

MCCommands ==
  InfoCommands \union KeyCommands \union StartCommands \union ChunkCommands
    \union BadCommands

(* Every library call may fail but the one that sends answers. *)
CallsExceptSending == LibraryCalls \ {"io_send_response"}
=============================================================================
