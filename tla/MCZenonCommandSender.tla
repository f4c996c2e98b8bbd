------------------------ MODULE MCZenonCommandSender ------------------------
(* Programs that sign, with proper arguments and others, and read keys.    *)
EXTENDS ZenonCommandSender, FiniteSets, TLC

MCShownAt == <<3>>

Ask(op, path, tx) == [op |-> op, path |-> path, tx |-> tx]

(* A send and a receive of different paths; transactions too short by two  *)
(* and by one, too long by one and empty; paths too short and too long.    *)
Sends == {Ask("sign_tx", <<1>>, <<1, 2, 1>>), Ask("sign_tx", <<2, 1>>, <<2, 1, 2>>)}
OddTransactions ==
  {Ask("sign_tx", <<1>>, tx) : tx \in {<<>>, <<1>>, <<2, 2>>, <<1, 2, 2, 1>>}}
OddPaths == {Ask("sign_tx", path, <<1, 2, 1>>) : path \in {<<>>, <<1, 2, 1>>}}
Keys ==
  {Ask("get_public_key", <<1>>, <<>>),
   Ask("get_public_key_with_confirmation", <<2>>, <<>>)}

MCRequests == Sends \union OddTransactions \union OddPaths \union Keys
                \union {Ask("get_version", <<>>, <<>>), Ask("get_app_name", <<>>, <<>>)}

(* For two programs: what interferes with a session, and what does not.    *)
FewRequests ==
  Sends \union {Ask("sign_tx", <<1>>, <<2, 2>>)} \union Keys
    \union {Ask("get_version", <<>>, <<>>)}

MCCommands == UNION {{Script(r)[i] : i \in 1..Len(Script(r))} : r \in MCRequests}

CallsExceptSending == LibraryCalls \ {"io_send_response"}
AnyClient == Permutations(Clients)
=============================================================================
