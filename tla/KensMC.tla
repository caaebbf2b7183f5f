------------------------------- MODULE KensMC -------------------------------
(* Programs and remotes of the runs of KensTcp.                            *)
EXTENDS KensTcp, TLC

Op(op) == [op |-> op]
On_(op, k) == [op |-> op, on |-> k]
Sock == Op("socket")
BindTo(k, port) == [op |-> "bind", on |-> k, ip |-> AnyAddr, port |-> port]
ListenOn(k, n) == [op |-> "listen", on |-> k, n |-> n]
ConnectTo(k, r) == [op |-> "connect", on |-> k, to |-> r]
Get(k, n) == [op |-> "read", on |-> k, n |-> n]
Put(k, n) == [op |-> "write", on |-> k, n |-> n]

RemotePortDef == ("c1" :> 51) @@ ("c2" :> 52) @@ ("e" :> 56)
                   @@ ("s" :> 53) @@ ("t" :> 54) @@ ("d" :> 55)
PeerBytesDef == [r \in Remotes |-> CASE r = "d" -> 6 [] r = "e" -> 3 [] OTHER -> 0]
IncomingDef == {<<"c1", 80>>, <<"c2", 80>>, <<"e", 80>>}

Two(one, two, clients) == [prog |-> (1 :> one) @@ (2 :> two), clients |-> clients]
Alone(calls_) == Two(calls_, <<>>, {})

\* Servers: more clients than the backlog; a client that is not accepted; an
\* accept next to connections of the same process and of another one; a client
\* that sends data to the process that accepts it, from before it does.
Clients == {<<"c1", 80>>, <<"c2", 80>>}
Servings ==
  {Two(<<Sock, BindTo(1, 80), ListenOn(1, 1), On_("accept", 1), On_("accept", 1),
         On_("close", 3), On_("close", 2)>>, <<>>, Clients),
   Two(<<Sock, BindTo(1, 80), ListenOn(1, 2), On_("accept", 1), On_("close", 2)>>,
       <<>>, Clients),
   Two(<<Sock, ConnectTo(1, "s"), Sock, BindTo(2, 80), ListenOn(2, 1),
         On_("accept", 2), On_("close", 1)>>,
       <<Sock, ConnectTo(1, "t"), On_("close", 1)>>, {<<"c1", 80>>}),
   Two(<<Sock, BindTo(1, 80), ListenOn(1, 1), On_("accept", 1), Get(2, 2),
         Get(2, 1), On_("close", 2)>>, <<>>, {<<"e", 80>>})}

\* Clients that read, write and close, and one that runs out of descriptors.
Transfers ==
  {Alone(<<Sock, ConnectTo(1, "d"), Get(1, 3), Get(1, 2), Get(1, 4), Get(1, 1)>>),
   Alone(<<Sock, ConnectTo(1, "d"), Put(1, 2), Get(1, 1), Get(1, 4), Get(1, 3)>>),
   Alone(<<Sock, ConnectTo(1, "d"), Put(1, 4), Put(1, 2), On_("close", 1)>>),
   Alone(<<Sock, ConnectTo(1, "d"), Get(1, 4), Get(1, 1), On_("close", 1)>>),
   Alone(<<Sock, Sock, Sock, Sock, On_("close", 4), On_("close", 1)>>)}

ScenariosDef == Servings \cup Transfers
=============================================================================
