----------------------------- MODULE MCbdQuery -----------------------------
(***************************************************************************)
(* A two-bit key space with room for two closest peers: the target itself, *)
(* two addresses of one other node, and a node further away.               *)
(***************************************************************************)
EXTENDS bdQuery

Key(x, y) == [i \in 0 .. 1 |-> IF i = 0 THEN x ELSE y]

MCId == Key(0, 0)

MCPeers ==
    {[id |-> Key(0, 0), addr |-> "addr1"],
     [id |-> Key(0, 1), addr |-> "addr1"],
     [id |-> Key(0, 1), addr |-> "addr2"],
     [id |-> Key(1, 0), addr |-> "addr1"]}

=============================================================================
