---------------------------- MODULE MCbdProcess ----------------------------
(***************************************************************************)
(* The process on a small instance.  A behaviour of the process is one of  *)
(* each of its parts (theorem PartsAreImplemented), and every property is  *)
(* about one part, so that nothing is lost when only one part moves and    *)
(* the others wait.                                                        *)
(***************************************************************************)
EXTENDS bdProcess

(******************************* The instance ******************************)

me == "me"
ids == {"me", "n"}
Known == [id |-> "n", addr |-> "a"]
From(addr, msg) == [msg |-> msg, addr |-> addr, sealed |-> FALSE]
Sealed(addr, msg) == [msg |-> msg, addr |-> addr, sealed |-> TRUE]
Calm == [datagrams |-> {}, searches |-> {}, stops |-> FALSE, crashes |-> FALSE]

\* Without network, for the tunnel and the hash space.
Nobody == [Calm EXCEPT !.stops = TRUE, !.crashes = TRUE]

\* Peers that report others and ask, while searches come and go.
Busy == [Calm EXCEPT !.searches = ids,
    !.datagrams = {From("a", bitdht_resp_node_msg("t", "n", <<[id |-> "n", addr |-> "b"]>>)),
                   From("b", bitdht_find_node_msg("t", "n", "me"))}]

\* A node that is stopped and started between questions and searches.
Stopped == [Calm EXCEPT !.stops = TRUE, !.searches = {"n"},
    !.datagrams = {From("a", bitdht_create_ping_msg("t", "n")),
                   From("b", bitdht_get_peers_msg("t", "n", "n"))}]

\* A process that is killed; it hears of more peers than the store holds.
Killed == [Calm EXCEPT !.crashes = TRUE,
    !.datagrams = {From("a", bitdht_create_ping_msg("t", "n")),
                   From("b", bitdht_response_ping_msg("t", "n", "v")),
                   From("c", bitdht_reply_announce_msg("t", "n"))}]

\* Every other message.
Sundry == [Calm EXCEPT
    !.datagrams = {Sealed("a", bitdht_ask_myip_msg("t", "n")),
                   From("a", bitdht_ask_myip_msg("t", "n")),
                   Sealed("b", bitdht_reply_myip_msg("t", "n", [id |-> "me", addr |-> "a"], TRUE)),
                   From("b", bitdht_reply_myip_msg("t", "n", Known, TRUE)),
                   From("a", Query("t", "find_node", [id |-> "n"])),
                   From("a", bitdht_peers_reply_hash_msg("t", "n", "t", <<>>)),
                   From("a", bitdht_peers_reply_closest_msg("t", "n", "t", <<Known>>)),
                   From("a", bitdht_announce_peers_msg("t", "n", "n", 0, "t")),
                   From("a", bitdht_reply_conn_msg("t", "n", TRUE))}]

worlds == {Nobody, Busy, Stopped, Killed, Sundry}

\* More peers than the store holds, and nothing else.
crowd == {[Killed EXCEPT !.crashes = FALSE]}

tunnelPeers == {Known, [id |-> "n", addr |-> "b"]}
tunnelDatagrams == {[msg |-> bitdht_ask_myip_msg("t", "n"), addr |-> "b"],
                    [msg |-> bitdht_create_ping_msg("t", "n"), addr |-> "a"]}

(******************************* The whole *********************************)

VARIABLE part

vars == <<part, processVars>>

Init ==
    /\ ProcessInit
    /\ part \in IF world = Nobody THEN {"node", "tunnel", "hash"} ELSE {"node"}

Common == Shutdown \/ Die

Next ==
    /\ \/ part = "node" /\ (NodeAlone \/ Common)
       \/ part = "tunnel" /\ (TunnelAlone \/ Common)
       \/ part = "hash" /\ (HashAlone \/ Common)
    /\ UNCHANGED part

\* Threads run, and time passes.
Alone(here, thread) == part = here /\ thread /\ UNCHANGED part

Spec ==
    /\ Init /\ [][Next]_vars
    /\ WF_vars(Alone("node", DhtThread /\ UNCHANGED <<tunnelVars, hashVars>>))
    /\ WF_vars(Alone("tunnel", TunnelThread /\ UNCHANGED <<nodeVars, hashVars>>))
    /\ WF_vars(Alone("tunnel", tunnelTime /\ UNCHANGED <<nodeVars, hashVars>>))

=============================================================================
