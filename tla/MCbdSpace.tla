----------------------------- MODULE MCbdSpace -----------------------------
(***************************************************************************)
(* A three-bit key space.  Bucket 2 can hear of three peers and has room   *)
(* for two, so that refreshing, priority eviction and refusal all happen;  *)
(* bucket 0, the one of the distances 0 and 1, has one peer.               *)
(***************************************************************************)
EXTENDS bdSpace

MCOwn == [i \in 0 .. 2 |-> 0]

MCAddr == {"addr1", "addr2"}

Key(x, y, z) == [i \in 0 .. 2 |-> CASE i = 0 -> x [] i = 1 -> y [] OTHER -> z]

MCPeers ==
    {[id |-> Key(1, 0, 0), addr |-> "addr1"],
     [id |-> Key(1, 0, 0), addr |-> "addr2"],
     [id |-> Key(1, 1, 0), addr |-> "addr1"],
     [id |-> Key(0, 0, 1), addr |-> "addr1"]}

=============================================================================
