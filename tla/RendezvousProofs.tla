-------------------------- MODULE RendezvousProofs --------------------------
(***************************************************************************)
(* Proofs about module Rendezvous, for any number of nodes, addresses and  *)
(* relays, whatever the network loses, repeats, delays or reorders, and    *)
(* however often nodes are restarted or get new addresses.                 *)
(*                                                                         *)
(* That a node punches holes only to a peer it has to do with depends on   *)
(* what the datagrams under way say, which depends on the requests and     *)
(* addresses that relays remember, which depends on earlier datagrams.     *)
(* The invariant traces each of them to a request of an application and to *)
(* an address its node has had.                                            *)
(***************************************************************************)
EXTENDS Rendezvous, TLAPS

\* A node has held the address it has.
AddrHeld == \A n \in Node : addr[n] \in held[n]

\* Every request a node remembers was made by one of the two.
RequestsWished ==
    \A n, x \in Node :
      mConnectRequests[n][x] # None => Wished(x, mConnectRequests[n][x])

\* Every address a node remembers was held by the node it stands for.
AddrsHeld == \A n, x \in Node : mPeerAddrs[n][x] # None => mPeerAddrs[n][x] \in held[x]

\* The datagram goes to an address of a node it does not name.
ToAnother(m) == \E k \in Node \ {m.nodeId} : m.to \in held[k]

\* What a datagram says is true, or has been.
Justified(m) ==
    /\ m.from \in held[m.id]
    /\ m.type = "broadcast_conn" => Wished(m.nodeId, m.peerId)
    /\ m.type = "ask_conn" =>
         /\ Wished(m.nodeId, m.peerId.id) \/ (m.peerId.id = m.nodeId /\ ToAnother(m))
         /\ m.peerId.addr \in held[m.peerId.id]

NetJustified == \A m \in net : Justified(m)

IInv ==
    /\ TypeOK
    /\ AddrHeld
    /\ RequestsWished
    /\ AddrsHeld
    /\ NetJustified
    /\ PunchJustified

-----------------------------------------------------------------------------
(***************************************************************************)
(* Datagrams that are sent.                                                *)
(***************************************************************************)
\* The requests and addresses of the past are never forgotten.
Remembered ==
    /\ wanted \subseteq wanted'
    /\ \A n \in Node : held[n] \subseteq held'[n]

LEMMA JustifiedStays ==
    ASSUME TypeOK, Remembered, NEW m \in Message, Justified(m)
    PROVE  Justified(m)'
<1>1. m.type = "broadcast_conn" \/ m.type = "ask_conn" \/ m.type \in {"ping", "pong"}
  BY DEF Message
<1>2. m.id \in Node /\ held[m.id] \subseteq held'[m.id]
  BY DEF Message, Remembered
<1>3. CASE m.type = "ask_conn"
  <2>1. m.peerId \in BdId /\ m.peerId.id \in Node
    BY <1>3 DEF Message, BdId
  <2>2. ToAnother(m) => ToAnother(m)'
    BY DEF ToAnother, Remembered
  <2>3. Wished(m.nodeId, m.peerId.id) => Wished(m.nodeId, m.peerId.id)'
    BY DEF Wished, Remembered
  <2>4. m.peerId.addr \in held'[m.peerId.id]
    BY <1>3, <2>1 DEF Justified, Remembered
  <2> QED
    BY <1>2, <1>3, <2>2, <2>3, <2>4 DEF Justified
<1>4. CASE m.type # "ask_conn"
  BY <1>2, <1>4 DEF Justified, Wished, Remembered
<1> QED
  BY <1>3, <1>4

LEMMA WorldRemembered ==
    ASSUME UNCHANGED worldVars
    PROVE  Remembered
BY DEF worldVars, Remembered

\* A broadcast repeats a remembered request.
LEMMA BroadcastGood ==
    ASSUME IInv, NEW n \in Node, NEW peer \in BdId, NEW x \in Node,
           mConnectRequests[n][x] # None
    PROVE  LET m == msgout_broadcast_conn(n, peer, x, mConnectRequests[n][x])
           IN  m \in Message /\ Justified(m)
<1>1. mConnectRequests[n][x] \in Node
  BY DEF IInv, TypeOK
<1>2. Wished(x, mConnectRequests[n][x])
  BY DEF IInv, RequestsWished
<1>3. addr[n] \in held[n] /\ addr[n] \in Addr
  BY DEF IInv, TypeOK, AddrHeld
<1> DEFINE m == msgout_broadcast_conn(n, peer, x, mConnectRequests[n][x])
<1>4. m \in Message
  BY <1>1, <1>3 DEF msgout_broadcast_conn, Message, BdId
<1>5. Justified(m)
  BY <1>2, <1>3 DEF msgout_broadcast_conn, Justified
<1> QED
  BY <1>4, <1>5

LEMMA PingGood ==
    ASSUME IInv, NEW n \in Node, NEW peer \in BdId
    PROVE  /\ msgout_ping(n, peer) \in Message /\ Justified(msgout_ping(n, peer))
           /\ msgout_pong(n, peer) \in Message /\ Justified(msgout_pong(n, peer))
<1>1. addr[n] \in held[n] /\ addr[n] \in Addr
  BY DEF IInv, TypeOK, AddrHeld
<1> QED
  BY <1>1 DEF msgout_ping, msgout_pong, Message, BdId, Justified

LEMMA AskGood ==
    ASSUME IInv, NEW n \in Node, NEW peer \in BdId, NEW nodeId \in Node, NEW peerId \in BdId,
           \/ Wished(nodeId, peerId.id)
           \/ peerId.id = nodeId /\ \E k \in Node \ {nodeId} : peer.addr \in held[k],
           peerId.addr \in held[peerId.id]
    PROVE  LET m == msgout_ask_conn(n, peer, nodeId, peerId)
           IN  m \in Message /\ Justified(m)
<1>1. addr[n] \in held[n] /\ addr[n] \in Addr
  BY DEF IInv, TypeOK, AddrHeld
<1> DEFINE m == msgout_ask_conn(n, peer, nodeId, peerId)
<1>2. m \in Message
  BY <1>1 DEF msgout_ask_conn, Message, BdId
<1>3. Justified(m)
  BY <1>1 DEF msgout_ask_conn, Justified, ToAnother
<1> QED
  BY <1>2, <1>3

\* Sending good datagrams keeps the net good.
LEMMA SendGood ==
    ASSUME IInv, Remembered, NEW sent, net' = net \cup sent,
           \A m \in sent : m \in Message /\ Justified(m)
    PROVE  net' \subseteq Message /\ NetJustified'
<1>1. \A m \in net' : m \in Message /\ Justified(m)
  BY DEF IInv, TypeOK, NetJustified
<1>2. \A m \in net' : Justified(m)'
  BY <1>1, JustifiedStays DEF IInv
<1> QED
  BY <1>1, <1>2 DEF NetJustified

\* The fields of a datagram, by its type.
LEMMA Fields ==
    ASSUME NEW m \in Message
    PROVE  /\ m.id \in Node /\ m.from \in Addr /\ m.to \in Addr
           /\ Source(m) \in BdId
           /\ m.type = "broadcast_conn" => m.nodeId \in Node /\ m.peerId \in Node
           /\ m.type = "ask_conn" => m.nodeId \in Node /\ m.peerId \in BdId
BY DEF Message, Source, BdId

-----------------------------------------------------------------------------
(***************************************************************************)
(* The invariant is inductive: one lemma per action.                       *)
(***************************************************************************)
LEMMA InitEstablishes == Init => IInv
<1> SUFFICES ASSUME Init PROVE IInv
  OBVIOUS
<1>1. TypeOK
  BY RendezvousAssumption DEF Init, TypeOK
<1>2. AddrHeld /\ RequestsWished /\ AddrsHeld
  BY DEF Init, AddrHeld, RequestsWished, AddrsHeld
<1>3. NetJustified /\ PunchJustified
  BY DEF Init, NetJustified, PunchJustified
<1> QED
  BY <1>1, <1>2, <1>3 DEF IInv

\* What holds of a state in which only the datagrams have changed.
LEMMA OnlySends ==
    ASSUME IInv, UNCHANGED <<nodeVars, worldVars>>, net' \subseteq Message, NetJustified'
    PROVE  IInv'
<1>1. TypeOK'
  BY DEF IInv, TypeOK, nodeVars, worldVars
<1>2. AddrHeld' /\ RequestsWished' /\ AddrsHeld' /\ PunchJustified'
  BY DEF IInv, AddrHeld, RequestsWished, AddrsHeld, PunchJustified, Wished, AddressShared,
         nodeVars, worldVars
<1> QED
  BY <1>1, <1>2 DEF IInv

LEMMA addConnReqKeeps ==
    ASSUME IInv, NEW n \in Node, NEW id \in Node, addConnReq(n, id)
    PROVE  IInv'
<1>1. TypeOK'
  BY DEF IInv, TypeOK, addConnReq
<1>2. Remembered
  BY DEF addConnReq, Remembered
<1>3. AddrHeld' /\ AddrsHeld'
  BY DEF IInv, AddrHeld, AddrsHeld, addConnReq
<1>4. RequestsWished'
  <2> SUFFICES ASSUME NEW m \in Node, NEW x \in Node, mConnectRequests'[m][x] # None
               PROVE  Wished(x, mConnectRequests[m][x])'
    BY DEF RequestsWished
  <2>1. CASE m = n /\ x = n
    BY <2>1 DEF IInv, TypeOK, addConnReq, Wished
  <2>2. CASE ~ (m = n /\ x = n)
    <3>1. mConnectRequests'[m][x] = mConnectRequests[m][x]
      BY <2>2 DEF IInv, TypeOK, addConnReq
    <3> QED
      BY <3>1, <1>2 DEF IInv, RequestsWished, Wished, Remembered
  <2> QED
    BY <2>1, <2>2
<1>5. NetJustified'
  <2>1. \A m \in net : Justified(m)'
    BY <1>2, JustifiedStays DEF IInv, TypeOK, NetJustified
  <2> QED
    BY <2>1 DEF NetJustified, addConnReq
<1>6. PunchJustified'
  BY DEF IInv, PunchJustified, Wished, AddressShared, addConnReq
<1> QED
  BY <1>1, <1>3, <1>4, <1>5, <1>6 DEF IInv

LEMMA broadcastPeersKeeps ==
    ASSUME IInv, NEW n \in Node, broadcastPeers(n)
    PROVE  IInv'
<1> DEFINE peers == WhiteList[n] \cup mStore[n]
           known == {y \in Node : mConnectRequests[n][y] # None}
           sent  == {msgout_broadcast_conn(n, peer, x, mConnectRequests[n][x]) :
                       peer \in peers, x \in known}
<1>1. peers \subseteq BdId
  BY RendezvousAssumption DEF IInv, TypeOK
<1>2. \A m \in sent : m \in Message /\ Justified(m)
  BY <1>1, BroadcastGood
<1>3. net' = net \cup sent
  BY DEF broadcastPeers
<1>4. Remembered
  BY WorldRemembered DEF broadcastPeers
<1> HIDE DEF sent
<1>5. net' \subseteq Message /\ NetJustified'
  BY <1>2, <1>3, <1>4, SendGood
<1> QED
  BY <1>5, OnlySends DEF broadcastPeers

LEMMA punchingKeeps ==
    ASSUME IInv, NEW n \in Node, punching(n)
    PROVE  IInv'
<1> DEFINE sent == {msgout_ping(n, peer) : peer \in mPunching[n]}
<1>1. mPunching[n] \subseteq BdId
  BY DEF IInv, TypeOK
<1>2. \A m \in sent : m \in Message /\ Justified(m)
  BY <1>1, PingGood
<1>3. net' = net \cup sent
  BY DEF punching
<1>4. Remembered
  BY WorldRemembered DEF punching
<1> HIDE DEF sent
<1>5. net' \subseteq Message /\ NetJustified'
  BY <1>2, <1>3, <1>4, SendGood
<1> QED
  BY <1>5, OnlySends DEF punching

\* A relay that hears from the second member of a pair tells both of them.
LEMMA PairMatchGood ==
    ASSUME IInv, NEW n \in Node, NEW m \in Message, m \in net, m.type = "broadcast_conn",
           NEW other \in Node,
           {other, m.id} = {m.nodeId, m.peerId},
           NEW addrs \in [Node -> Addr \cup {None}],
           addrs[other] # None => addrs[other] \in held[other]
    PROVE  \A out \in PairMatch(n, m, other, addrs) : out \in Message /\ Justified(out)
<1>1. CASE addrs[other] = None
  BY <1>1 DEF PairMatch
<1>2. CASE addrs[other] # None
  <2> DEFINE peer == [id |-> other, addr |-> addrs[other]]
  <2>1. peer \in BdId /\ peer.id = other /\ peer.addr \in held[other]
    BY <1>2 DEF BdId
  <2>2. Justified(m)
    BY DEF IInv, NetJustified
  <2>3. m.id \in Node /\ m.nodeId \in Node /\ m.peerId \in Node /\ Source(m) \in BdId
    BY Fields
  <2>4. Source(m).id = m.id /\ Source(m).addr \in held[m.id]
    BY <2>2 DEF Source, Justified
  <2>5. Wished(m.nodeId, m.peerId)
    BY <2>2 DEF Justified
  <2>6. Wished(other, m.id)
    BY <2>5 DEF Wished
  <2>7. LET out == msgout_ask_conn(n, peer, other, Source(m))
        IN  out \in Message /\ Justified(out)
    BY <2>1, <2>3, <2>4, <2>6, AskGood
  <2>8. \/ Wished(m.peerId, other)
        \/ other = m.peerId /\ \E k \in Node \ {m.peerId} : Source(m).addr \in held[k]
    BY <2>3, <2>4, <2>5 DEF Wished
  <2>9. LET out == msgout_ask_conn(n, Source(m), m.peerId, peer)
        IN  out \in Message /\ Justified(out)
    BY <2>1, <2>3, <2>8, AskGood
  <2>10. PairMatch(n, m, other, addrs) =
           {msgout_ask_conn(n, peer, other, Source(m)),
            msgout_ask_conn(n, Source(m), m.peerId, peer)}
    BY <1>2 DEF PairMatch
  <2> QED
    BY <2>7, <2>9, <2>10
<1> QED
  BY <1>1, <1>2

LEMMA msgin_broadcast_connKeeps ==
    ASSUME IInv, NEW n \in Node, NEW m \in net, msgin_broadcast_conn(n, m)
    PROVE  IInv'
<1>1. m \in Message
  BY DEF IInv, TypeOK
<1>2. CASE m.id \notin {m.nodeId, m.peerId}
  <2>1. UNCHANGED <<nodeVars, worldVars, net>>
    BY <1>2 DEF msgin_broadcast_conn, nodeVars
  <2>2. net' \subseteq Message /\ NetJustified'
    BY <2>1 DEF IInv, TypeOK, NetJustified, Justified, Wished, ToAnother, worldVars
  <2> QED
    BY <2>1, <2>2, OnlySends
<1>3. CASE m.id \in {m.nodeId, m.peerId}
  <2> DEFINE other == IF m.id = m.nodeId THEN m.peerId ELSE m.nodeId
  <2>1. /\ mConnectRequests' = [mConnectRequests EXCEPT ![n][m.id] = other]
        /\ mPeerAddrs' = [mPeerAddrs EXCEPT ![n][m.id] = m.from]
        /\ net' = net \cup PairMatch(n, m, other, mPeerAddrs'[n])
        /\ UNCHANGED <<mPunching, mStore, worldVars>>
    BY <1>3 DEF msgin_broadcast_conn
  <2>2. /\ m.type = "broadcast_conn" /\ m.id \in Node /\ m.from \in Addr
        /\ m.nodeId \in Node /\ m.peerId \in Node /\ other \in Node
        /\ {other, m.id} = {m.nodeId, m.peerId}
    BY <1>1, <1>3, Fields DEF msgin_broadcast_conn
  <2>3. m.from \in held[m.id] /\ Wished(m.nodeId, m.peerId)
    BY <2>2 DEF IInv, NetJustified, Justified
  <2> HIDE DEF other
  <2>4. mPeerAddrs' \in [Node -> [Node -> Addr \cup {None}]]
    BY <2>1, <2>2 DEF IInv, TypeOK
  <2>5. \A k, x \in Node : mPeerAddrs'[k][x] # None => mPeerAddrs'[k][x] \in held[x]
    BY <2>1, <2>2, <2>3 DEF IInv, TypeOK, AddrsHeld
  <2>6. mPeerAddrs'[n] \in [Node -> Addr \cup {None}]
    BY <2>4
  <2>7. \A out \in PairMatch(n, m, other, mPeerAddrs'[n]) : out \in Message /\ Justified(out)
    BY <1>1, <2>2, <2>5, <2>6, PairMatchGood
  <2>8. Remembered
    BY <2>1, WorldRemembered
  <2>9. net' \subseteq Message /\ NetJustified'
    BY <2>1, <2>7, <2>8, SendGood
  <2>10. mConnectRequests' \in [Node -> [Node -> Node \cup {None}]]
    BY <2>1, <2>2 DEF IInv, TypeOK
  <2>11. TypeOK'
    BY <2>1, <2>4, <2>9, <2>10 DEF IInv, TypeOK, worldVars
  <2>12. Wished(m.id, other)
    BY <2>2, <2>3 DEF Wished
  <2>13. \A k, x \in Node :
           mConnectRequests'[k][x] # None => Wished(x, mConnectRequests'[k][x])
    BY <2>1, <2>2, <2>12 DEF IInv, TypeOK, RequestsWished
  <2>14. RequestsWished'
    BY <2>1, <2>13 DEF RequestsWished, Wished, worldVars
  <2>15. AddrsHeld' /\ AddrHeld'
    BY <2>1, <2>5 DEF IInv, AddrsHeld, AddrHeld, worldVars
  <2>16. PunchJustified'
    BY <2>1 DEF IInv, PunchJustified, Wished, AddressShared, worldVars
  <2> QED
    BY <2>9, <2>11, <2>14, <2>15, <2>16 DEF IInv
<1> QED
  BY <1>2, <1>3

LEMMA msgin_ask_connKeeps ==
    ASSUME IInv, NEW n \in Node, NEW m \in net, Arrives(n, m), msgin_ask_conn(n, m)
    PROVE  IInv'
<1>1. m \in Message /\ Justified(m)
  BY DEF IInv, TypeOK, NetJustified
<1>2. m.type = "ask_conn" /\ n = m.nodeId /\ m.peerId \in BdId
  BY <1>1, Fields DEF msgin_ask_conn
<1>3. Wished(n, m.peerId.id) \/ (m.peerId.id = n /\ ToAnother(m))
  BY <1>1, <1>2 DEF Justified
<1>4. m.peerId.addr \in held[m.peerId.id]
  BY <1>1, <1>2 DEF Justified
<1>5. ToAnother(m) => AddressShared(n)
  BY <1>2 DEF ToAnother, AddressShared, Arrives, IInv, AddrHeld
<1>6. TypeOK'
  BY <1>2 DEF IInv, TypeOK, msgin_ask_conn, worldVars
<1>7. AddrHeld' /\ RequestsWished' /\ AddrsHeld' /\ NetJustified'
  BY DEF IInv, AddrHeld, RequestsWished, AddrsHeld, NetJustified, Justified, Wished, ToAnother,
         msgin_ask_conn, worldVars
<1>8. PunchJustified'
  <2> SUFFICES ASSUME NEW k \in Node, NEW peer \in mPunching'[k]
               PROVE  /\ Wished(k, peer.id) \/ (peer.id = k /\ AddressShared(k))
                      /\ peer.addr \in held[peer.id]
    BY DEF PunchJustified, Wished, AddressShared, msgin_ask_conn, worldVars
  <2>1. peer \in mPunching[k] \/ (k = n /\ peer = m.peerId)
    BY DEF IInv, TypeOK, msgin_ask_conn
  <2> QED
    BY <2>1, <1>3, <1>4, <1>5 DEF IInv, PunchJustified
<1> QED
  BY <1>6, <1>7, <1>8 DEF IInv

\* addStore adds a peer to a store.
LEMMA StoreGrows ==
    ASSUME NEW store \in SUBSET BdId, NEW peer \in BdId
    PROVE  addStore(store, peer) \in SUBSET BdId
BY DEF addStore, OtherAddrs

LEMMA msgin_pingKeeps ==
    ASSUME IInv, NEW n \in Node, NEW m \in net, msgin_ping(n, m)
    PROVE  IInv'
<1>1. Source(m) \in BdId
  BY Fields DEF IInv, TypeOK
<1>2. Remembered
  BY WorldRemembered DEF msgin_ping
<1>3. net' \subseteq Message /\ NetJustified'
  <2> DEFINE sent == {msgout_pong(n, Source(m))}
  <2>1. net' = net \cup sent
    BY DEF msgin_ping
  <2>2. \A out \in sent : out \in Message /\ Justified(out)
    BY <1>1, PingGood
  <2> HIDE DEF sent
  <2> QED
    BY <1>2, <2>1, <2>2, SendGood
<1>4. mStore' \in [Node -> SUBSET BdId]
  BY <1>1, StoreGrows DEF IInv, TypeOK, msgin_ping
<1>5. TypeOK'
  BY <1>3, <1>4 DEF IInv, TypeOK, msgin_ping, worldVars
<1>6. AddrHeld' /\ RequestsWished' /\ AddrsHeld' /\ PunchJustified'
  BY DEF IInv, AddrHeld, RequestsWished, AddrsHeld, PunchJustified, Wished, AddressShared,
         msgin_ping, worldVars
<1> QED
  BY <1>3, <1>5, <1>6 DEF IInv

LEMMA msgin_pongKeeps ==
    ASSUME IInv, NEW n \in Node, NEW m \in net, msgin_pong(n, m)
    PROVE  IInv'
<1>1. Source(m) \in BdId
  BY Fields DEF IInv, TypeOK
<1>2. mStore' \in [Node -> SUBSET BdId]
  BY <1>1, StoreGrows DEF IInv, TypeOK, msgin_pong
<1>3. TypeOK'
  BY <1>2 DEF IInv, TypeOK, msgin_pong, worldVars
<1>4. AddrHeld' /\ RequestsWished' /\ AddrsHeld' /\ PunchJustified' /\ NetJustified'
  BY DEF IInv, AddrHeld, RequestsWished, AddrsHeld, PunchJustified, NetJustified,
         Justified, Wished, ToAnother, AddressShared, msgin_pong, worldVars
<1> QED
  BY <1>3, <1>4 DEF IInv

LEMMA RebindKeeps ==
    ASSUME IInv, NEW n \in Node, Rebind(n)
    PROVE  IInv'
<1>1. PICK a \in Addr : /\ addr' = [addr EXCEPT ![n] = a]
                        /\ held' = [held EXCEPT ![n] = @ \cup {a}]
  BY DEF Rebind
<1>2. UNCHANGED <<nodeVars, net, wanted>>
  BY DEF Rebind
<1>3. Remembered
  BY <1>1, <1>2 DEF IInv, TypeOK, Remembered
<1>4. upsets' \in 0 .. MaxUpsets
  BY RendezvousAssumption DEF IInv, TypeOK, Rebind
<1>5. TypeOK'
  BY <1>1, <1>2, <1>4 DEF IInv, TypeOK, nodeVars
<1>6. AddrHeld'
  BY <1>1 DEF IInv, TypeOK, AddrHeld
<1>7. \A m \in net : Justified(m)'
  BY <1>3, JustifiedStays DEF IInv, TypeOK, NetJustified
<1>8. NetJustified'
  BY <1>2, <1>7 DEF NetJustified
<1>9. RequestsWished'
  BY <1>2 DEF IInv, RequestsWished, Wished, nodeVars
<1>10. AddrsHeld'
  BY <1>2, <1>3 DEF IInv, AddrsHeld, nodeVars, Remembered
<1>11. PunchJustified'
  <2>1. \A k \in Node : \A peer \in mPunching[k] : peer.id \in Node
    BY DEF IInv, TypeOK, BdId
  <2>2. \A k \in Node : AddressShared(k) => AddressShared(k)'
    BY <1>3 DEF AddressShared, Remembered
  <2> QED
    BY <2>1, <2>2, <1>2, <1>3 DEF IInv, PunchJustified, Wished, nodeVars, Remembered
<1> QED
  BY <1>5, <1>6, <1>8, <1>9, <1>10, <1>11 DEF IInv

LEMMA RestartKeeps ==
    ASSUME IInv, NEW n \in Node, Restart(n)
    PROVE  IInv'
<1>1. upsets' \in 0 .. MaxUpsets
  BY RendezvousAssumption DEF IInv, TypeOK, Restart
<1>2. TypeOK'
  BY <1>1, RendezvousAssumption DEF IInv, TypeOK, Restart
<1>3. AddrHeld' /\ NetJustified'
  BY DEF IInv, AddrHeld, NetJustified, Justified, Wished, ToAnother, Restart
<1>4. RequestsWished' /\ AddrsHeld' /\ PunchJustified'
  BY DEF IInv, TypeOK, RequestsWished, AddrsHeld, PunchJustified, Wished, AddressShared, Restart
<1> QED
  BY <1>2, <1>3, <1>4 DEF IInv

LEMMA restartNodeKeeps ==
    ASSUME IInv, NEW n \in Node, restartNode(n)
    PROVE  IInv'
<1>1. upsets' \in 0 .. MaxUpsets
  BY RendezvousAssumption DEF IInv, TypeOK, restartNode
<1>2. TypeOK'
  BY <1>1, RendezvousAssumption DEF IInv, TypeOK, restartNode
<1>3. AddrHeld' /\ NetJustified'
  BY DEF IInv, AddrHeld, NetJustified, Justified, Wished, ToAnother, restartNode
<1>4. RequestsWished' /\ AddrsHeld' /\ PunchJustified'
  BY DEF IInv, RequestsWished, AddrsHeld, PunchJustified, Wished, AddressShared, restartNode
<1> QED
  BY <1>2, <1>3, <1>4 DEF IInv

LEMMA StepKeeps == IInv /\ [Next]_vars => IInv'
<1> SUFFICES ASSUME IInv, [Next]_vars PROVE IInv'
  OBVIOUS
<1>1. ASSUME NEW n \in Node, NEW id \in Node, addConnReq(n, id) PROVE IInv'
  BY <1>1, addConnReqKeeps
<1>2. ASSUME NEW n \in Node, broadcastPeers(n) PROVE IInv'
  BY <1>2, broadcastPeersKeeps
<1>3. ASSUME NEW n \in Node, punching(n) PROVE IInv'
  BY <1>3, punchingKeeps
<1>4. ASSUME NEW n \in Node, recvPkt(n) PROVE IInv'
  BY <1>4, msgin_broadcast_connKeeps, msgin_ask_connKeeps, msgin_pingKeeps, msgin_pongKeeps
     DEF recvPkt
<1>5. ASSUME NEW n \in Node, Rebind(n) PROVE IInv'
  BY <1>5, RebindKeeps
<1>6. ASSUME NEW n \in Node, Restart(n) PROVE IInv'
  BY <1>6, RestartKeeps
<1>7. ASSUME NEW n \in Node, restartNode(n) PROVE IInv'
  BY <1>7, restartNodeKeeps
<1>8. CASE UNCHANGED vars
  <2>1. UNCHANGED <<nodeVars, worldVars>> /\ net' \subseteq Message /\ NetJustified'
    BY <1>8 DEF IInv, TypeOK, NetJustified, Justified, Wished, ToAnother, vars, worldVars
  <2> QED
    BY <2>1, OnlySends
<1> QED
  BY <1>1, <1>2, <1>3, <1>4, <1>5, <1>6, <1>7, <1>8 DEF Next

-----------------------------------------------------------------------------
(***************************************************************************)
(* The theorems.                                                           *)
(***************************************************************************)
\* What the requests, addresses and datagrams of all nodes say goes back to what
\* applications asked and addresses nodes had (bdnode.cc, broadcastPeers and the
\* handlers).
THEOREM RendezvousInvariant == Spec => []IInv
<1> QED
  BY InitEstablishes, StepKeeps, PTL DEF Spec

\* The state of every node keeps its type.
THEOREM TypeCorrect == Spec => []TypeOK
<1>1. IInv => TypeOK
  BY DEF IInv
<1> QED
  BY <1>1, RendezvousInvariant, PTL

\* No node punches holes on hearsay (bdNode::msgin_ask_conn, punching).
THEOREM PunchesAreJustified == Spec => []PunchJustified
<1>1. IInv => PunchJustified
  BY DEF IInv
<1> QED
  BY <1>1, RendezvousInvariant, PTL

\* A store has one entry per address (bdStore::addStore): every node adds to it
\* what it hears, whoever holds the address by then.
THEOREM StoresAreByAddress == Spec => []StoreByAddress
<1>1. Init => StoreByAddress
  BY RendezvousAssumption DEF Init, StoreByAddress
<1>2. ASSUME TypeOK, StoreByAddress, [Next]_vars PROVE StoreByAddress'
  <2>1. ASSUME NEW n \in Node, NEW m \in net,
               mStore' = [mStore EXCEPT ![n] = addStore(@, Source(m))]
        PROVE  StoreByAddress'
    <3>1. \A k \in Node : mStore'[k] = IF k = n THEN addStore(mStore[n], Source(m)) ELSE mStore[k]
      BY <1>2, <2>1 DEF TypeOK
    <3>2. \A p, q \in addStore(mStore[n], Source(m)) : p.addr = q.addr => p = q
      BY <1>2 DEF StoreByAddress, addStore, OtherAddrs
    <3> QED
      BY <1>2, <3>1, <3>2 DEF StoreByAddress
  <2>2. ASSUME UNCHANGED mStore PROVE StoreByAddress'
    BY <1>2, <2>2 DEF StoreByAddress
  <2>3. ASSUME NEW n \in Node, Restart(n) \/ restartNode(n) PROVE StoreByAddress'
    <3>1. \A k \in Node : mStore'[k] = IF k = n THEN BootList[n] ELSE mStore[k]
      BY <1>2, <2>3 DEF TypeOK, Restart, restartNode
    <3> QED
      BY <1>2, <3>1, RendezvousAssumption DEF StoreByAddress
  <2>4. ASSUME NEW n \in Node, recvPkt(n) PROVE StoreByAddress'
    <3>1. PICK m \in net : \/ msgin_broadcast_conn(n, m) \/ msgin_ask_conn(n, m)
                          \/ msgin_ping(n, m) \/ msgin_pong(n, m)
      BY <2>4 DEF recvPkt
    <3>2. CASE msgin_ping(n, m) \/ msgin_pong(n, m)
      BY <3>2, <2>1 DEF msgin_ping, msgin_pong
    <3>3. CASE msgin_broadcast_conn(n, m) \/ msgin_ask_conn(n, m)
      BY <3>3, <2>2 DEF msgin_broadcast_conn, msgin_ask_conn
    <3> QED
      BY <3>1, <3>2, <3>3
  <2>5. ASSUME NEW n \in Node,
               (\E id \in Node : addConnReq(n, id)) \/ broadcastPeers(n) \/ punching(n) \/ Rebind(n)
        PROVE  UNCHANGED mStore
    <3>1. CASE \E id \in Node : addConnReq(n, id)
      BY <3>1 DEF addConnReq
    <3>2. CASE broadcastPeers(n) \/ punching(n) \/ Rebind(n)
      BY <3>2 DEF broadcastPeers, punching, Rebind, nodeVars
    <3> QED
      BY <2>5, <3>1, <3>2
  <2>6. UNCHANGED vars => UNCHANGED mStore
    BY DEF vars, nodeVars
  <2> QED
    BY <1>2, <2>2, <2>3, <2>4, <2>5, <2>6 DEF Next
<1> QED
  BY <1>1, <1>2, TypeCorrect, PTL DEF Spec

=============================================================================
