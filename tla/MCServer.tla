------------------------------ MODULE MCServer ------------------------------
(* A client on TCP and one that uses WebSocket and HTTP connections; the demo
   has an entry under one of the two keys.                                 *)
EXTENDS Server, TLC

CONSTANTS s1, s2

OneTcpOneHttp == s1 :> {"tcp"} @@ s2 :> {"ws", "http"}

TwoClients ==
  s1 :> {Line("shove", 1, "a"), Line("keys", None, None), Line("quit", None, None),
         Line("broken", None, None)}
  @@ s2 :> {Line("shove", 2, "a"), Line("yeet", 1, None), Line("yoink", 1, None),
            Line("stats", None, None), Line("nuke", None, None), Line("help", None, None),
            Line("broken", None, None)}

DemoEntry == 1 :> "d"

=============================================================================
