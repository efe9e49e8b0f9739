----------------------------- MODULE Rendezvous -----------------------------
(***************************************************************************)
(* How two nodes that cannot reach each other meet: the connect requests   *)
(* of class bdNode (bitdht/bdnode.cc), in a network of nodes.              *)
(*                                                                         *)
(* A node that wants a peer tells all the nodes of its stores so, again    *)
(* and again (broadcast_conn).  A node that has heard from both members of *)
(* a pair tells each of them the address of the other (ask_conn), and they *)
(* ping each other until their NATs let the pings through.                 *)
(*                                                                         *)
(* net holds every datagram ever sent: it may be delivered late, twice, in *)
(* any order or not at all, and a node repeats its requests and pings for  *)
(* ever, so one copy of each stands for all.  A NAT lets a datagram in     *)
(* only from an address its node has sent something to.                    *)
(***************************************************************************)
EXTENDS Naturals, FiniteSets

CONSTANTS
    Node,           \* the nodes, named by their ids (mOwnId)
    Addr,           \* public addresses (ip and port)
    None,           \* no entry in a map
    HomeAddr,       \* the address each node starts with
    NATed,          \* the nodes behind a NAT
    WhiteList,      \* mWhiteNodes of each node
    BootList,       \* what each node reloads mStore from
    Wants,          \* the connections the applications may ask for
    MaxEntries,     \* MAX_ENTRIES of bdstore.cc, 1000
    MaxUpsets       \* bound on changes of address and restarts

BdId == [id : Node, addr : Addr]

ASSUME RendezvousAssumption ==
    /\ None \notin Node /\ None \notin Addr
    /\ HomeAddr \in [Node -> Addr]
    /\ \A m, n \in Node : HomeAddr[m] = HomeAddr[n] => m = n
    /\ NATed \subseteq Node
    /\ WhiteList \in [Node -> SUBSET BdId]
    /\ BootList \in [Node -> SUBSET BdId]
    /\ MaxEntries \in Nat
      \* the file is one that a store wrote: no address twice, within the limit
    /\ \A n \in Node : /\ \A p, q \in BootList[n] : p.addr = q.addr => p = q
                       /\ IsFiniteSet(BootList[n])
                       /\ Cardinality(BootList[n]) <= MaxEntries
    /\ Wants \subseteq Node \X Node
    /\ MaxUpsets \in Nat

VARIABLES
    mConnectRequests,   \* at each node: who wants whom
    mPeerAddrs,         \* at each node: the address a node was heard from
    mPunching,          \* at each node: the peers it punches holes to
    mStore,             \* at each node: the peers it has heard from
    addr,               \* the address of each node
    net,                \* every datagram sent so far
    wanted,             \* the connections asked for so far
    held,               \* the addresses each node has had
    upsets              \* changes of address and restarts so far

nodeVars == <<mConnectRequests, mPeerAddrs, mPunching, mStore>>
worldVars == <<addr, wanted, held, upsets>>
vars == <<nodeVars, net, worldVars>>

Message ==
    [type : {"broadcast_conn"}, id : Node, from : Addr, to : Addr, nodeId : Node, peerId : Node]
      \cup
    [type : {"ask_conn"}, id : Node, from : Addr, to : Addr, nodeId : Node, peerId : BdId]
      \cup
    [type : {"ping", "pong"}, id : Node, from : Addr, to : Addr]

TypeOK ==
    /\ mConnectRequests \in [Node -> [Node -> Node \cup {None}]]
    /\ mPeerAddrs \in [Node -> [Node -> Addr \cup {None}]]
    /\ mPunching \in [Node -> SUBSET BdId]
    /\ mStore \in [Node -> SUBSET BdId]
    /\ addr \in [Node -> Addr]
    /\ net \subseteq Message
    /\ wanted \subseteq Wants
    /\ held \in [Node -> SUBSET Addr]
    /\ upsets \in 0 .. MaxUpsets

-----------------------------------------------------------------------------
(***************************************************************************)
(* Datagrams node n sends to peer, a bdId.                                 *)
(***************************************************************************)
msgout_broadcast_conn(n, peer, nodeId, peerId) ==
    [type |-> "broadcast_conn", id |-> n, from |-> addr[n], to |-> peer.addr,
     nodeId |-> nodeId, peerId |-> peerId]

msgout_ask_conn(n, peer, nodeId, peerId) ==
    [type |-> "ask_conn", id |-> n, from |-> addr[n], to |-> peer.addr,
     nodeId |-> nodeId, peerId |-> peerId]

msgout_ping(n, peer) == [type |-> "ping", id |-> n, from |-> addr[n], to |-> peer.addr]

msgout_pong(n, peer) == [type |-> "pong", id |-> n, from |-> addr[n], to |-> peer.addr]

Source(m) == [id |-> m.id, addr |-> m.from]

\* What removeStore leaves for a new entry of an address.
OtherAddrs(store, a) == {p \in store : p.addr # a}

\* Mutant: replaces the entry of the same id.
AddedById(store, peer) == {p \in store : p.id # peer.id} \cup {peer}

\* bdStore::addStore: the entry with the same address goes, the new one is pushed
\* to the back, and a store above MAX_ENTRIES pops its back: the new one again.
addStore(store, peer) ==
    LET others == OtherAddrs(store, peer.addr)
    IN  IF Cardinality(others) < MaxEntries THEN others \cup {peer} ELSE others

-----------------------------------------------------------------------------
(***************************************************************************)
(* What a node does.                                                       *)
(***************************************************************************)
\* One slot: a new request takes the place of the last one.
addConnReq(n, id) ==
    /\ <<n, id>> \in Wants
    /\ mConnectRequests' = [mConnectRequests EXCEPT ![n][n] = id]
    /\ wanted' = wanted \cup {<<n, id>>}
    /\ UNCHANGED <<mPeerAddrs, mPunching, mStore, net, addr, held, upsets>>

\* Every request a node knows of, its own or not, goes to everybody it knows.
broadcastPeers(n) ==
    /\ net' = net \cup
         {msgout_broadcast_conn(n, peer, x, mConnectRequests[n][x]) :
            peer \in WhiteList[n] \cup mStore[n],
            x \in {y \in Node : mConnectRequests[n][y] # None}}
    /\ UNCHANGED <<nodeVars, worldVars>>

punching(n) ==
    /\ net' = net \cup {msgout_ping(n, peer) : peer \in mPunching[n]}
    /\ UNCHANGED <<nodeVars, worldVars>>

\* Mutant: tells the peer its own address.
PairMatchEcho(n, m, nodeId, addrs) ==
    IF addrs[nodeId] = None THEN {}
    ELSE LET peer == [id |-> nodeId, addr |-> addrs[nodeId]]
         IN  {msgout_ask_conn(n, peer, nodeId, peer),
              msgout_ask_conn(n, Source(m), m.peerId, peer)}

\* Mutant: the peer is told of a connection of the sender's.
PairMatchSwapped(n, m, nodeId, addrs) ==
    IF addrs[nodeId] = None THEN {}
    ELSE LET peer == [id |-> nodeId, addr |-> addrs[nodeId]]
         IN  {msgout_ask_conn(n, peer, m.id, Source(m)),
              msgout_ask_conn(n, Source(m), m.peerId, peer)}

\* The other member of the pair, nodeId, has an address: each of the two is told
\* of the other.  Both branches of the handler name m.peerId to the sender, which
\* in the first branch is not the sender.
PairMatch(n, m, nodeId, addrs) ==
    IF addrs[nodeId] = None THEN {}
    ELSE LET peer == [id |-> nodeId, addr |-> addrs[nodeId]]
         IN  {msgout_ask_conn(n, peer, nodeId, Source(m)),
              msgout_ask_conn(n, Source(m), m.peerId, peer)}

\* The sender reports a request it is a member of; other is the other member.
\* What a node says of a pair it does not belong to is ignored.
msgin_broadcast_conn(n, m) ==
    /\ m.type = "broadcast_conn"
    /\ IF m.id \in {m.nodeId, m.peerId}
         THEN LET other == IF m.id = m.nodeId THEN m.peerId ELSE m.nodeId
              IN  /\ mConnectRequests' = [mConnectRequests EXCEPT ![n][m.id] = other]
                  /\ mPeerAddrs' = [mPeerAddrs EXCEPT ![n][m.id] = m.from]
                  /\ net' = net \cup PairMatch(n, m, other, mPeerAddrs'[n])
         ELSE UNCHANGED <<mConnectRequests, mPeerAddrs, net>>
    /\ UNCHANGED <<mPunching, mStore, worldVars>>

msgin_ask_conn(n, m) ==
    /\ m.type = "ask_conn"
    /\ n = m.nodeId
    /\ mPunching' = [mPunching EXCEPT ![n] = @ \cup {m.peerId}]
    /\ UNCHANGED <<mConnectRequests, mPeerAddrs, mStore, net, worldVars>>

\* addPeer, then the answer.
msgin_ping(n, m) ==
    /\ m.type = "ping"
    /\ mStore' = [mStore EXCEPT ![n] = addStore(@, Source(m))]
    /\ net' = net \cup {msgout_pong(n, Source(m))}
    /\ UNCHANGED <<mConnectRequests, mPeerAddrs, mPunching, worldVars>>

msgin_pong(n, m) ==
    /\ m.type = "pong"
    /\ mStore' = [mStore EXCEPT ![n] = addStore(@, Source(m))]
    /\ UNCHANGED <<mConnectRequests, mPeerAddrs, mPunching, net, worldVars>>

-----------------------------------------------------------------------------
(***************************************************************************)
(* The world around it.                                                    *)
(***************************************************************************)
\* A NAT lets in what comes from an address its node has written to.
Arrives(n, m) ==
    /\ m.to = addr[n]
    /\ n \in NATed => \E out \in net : out.from = addr[n] /\ out.to = m.from

recvPkt(n) ==
    \E m \in net :
      /\ Arrives(n, m)
      /\ \/ msgin_broadcast_conn(n, m)
         \/ msgin_ask_conn(n, m)
         \/ msgin_ping(n, m)
         \/ msgin_pong(n, m)

\* The NAT gives a node another public address that nobody holds.
Rebind(n) ==
    /\ upsets < MaxUpsets
    /\ upsets' = upsets + 1
    /\ \E a \in Addr \ {addr[m] : m \in Node} :
         /\ addr' = [addr EXCEPT ![n] = a]
         /\ held' = [held EXCEPT ![n] = @ \cup {a}]
    /\ UNCHANGED <<nodeVars, net, wanted>>

\* A process starts anew: everything but the files is forgotten.
Restart(n) ==
    /\ upsets < MaxUpsets
    /\ upsets' = upsets + 1
    /\ mConnectRequests' = [mConnectRequests EXCEPT ![n] = [x \in Node |-> None]]
    /\ mPeerAddrs' = [mPeerAddrs EXCEPT ![n] = [x \in Node |-> None]]
    /\ mPunching' = [mPunching EXCEPT ![n] = {}]
    /\ mStore' = [mStore EXCEPT ![n] = BootList[n]]
    /\ UNCHANGED <<net, addr, wanted, held>>

\* The DHT is stopped and, perhaps later, started: the store is read anew, and the
\* requests, the addresses and the peers to punch holes to are as they were.
restartNode(n) ==
    /\ upsets < MaxUpsets
    /\ upsets' = upsets + 1
    /\ mStore' = [mStore EXCEPT ![n] = BootList[n]]
    /\ UNCHANGED <<mConnectRequests, mPeerAddrs, mPunching, net, addr, wanted, held>>

\* Mutant: the entries of the maps are left unset.
InitUnset ==
    /\ mConnectRequests = [n \in Node |-> <<>>]
    /\ mPeerAddrs = [n \in Node |-> [x \in Node |-> None]]
    /\ mPunching = [n \in Node |-> {}]
    /\ mStore = BootList
    /\ addr = HomeAddr
    /\ net = {}
    /\ wanted = {}
    /\ held = [n \in Node |-> {HomeAddr[n]}]
    /\ upsets = 0

Init ==
    /\ mConnectRequests = [n \in Node |-> [x \in Node |-> None]]
    /\ mPeerAddrs = [n \in Node |-> [x \in Node |-> None]]
    /\ mPunching = [n \in Node |-> {}]
    /\ mStore = BootList
    /\ addr = HomeAddr
    /\ net = {}
    /\ wanted = {}
    /\ held = [n \in Node |-> {HomeAddr[n]}]
    /\ upsets = 0

Next ==
    \E n \in Node :
      \/ \E id \in Node : addConnReq(n, id)
      \/ broadcastPeers(n)
      \/ punching(n)
      \/ recvPkt(n)
      \/ Rebind(n)
      \/ Restart(n)
      \/ restartNode(n)

Spec == Init /\ [][Next]_vars

\* The loop of every node keeps running; a request and a ping are repeated for
\* ever, so of a lossy network at least one copy arrives.
FairSpec ==
    /\ Spec
    /\ \A n \in Node : /\ WF_vars(broadcastPeers(n))
                       /\ WF_vars(punching(n))
                       /\ WF_vars(recvPkt(n))

-----------------------------------------------------------------------------
(***************************************************************************)
(* Properties.                                                             *)
(***************************************************************************)
\* One of the two has asked for the other.
Wished(m, n) == <<m, n>> \in wanted \/ <<n, m>> \in wanted

\* Another node has had an address of n.
AddressShared(n) == \E k \in Node \ {n} : held[k] \cap held[n] # {}

\* Nobody punches holes on hearsay: a node pings a peer only if one of the two
\* asked for the other, and only at an address that peer has really had, however
\* many nodes passed the request on.  The one exception comes from the ask_conn
\* that names the wrong node: when the node it names has inherited the address it
\* is sent to, that node pings its own former address.
PunchJustified ==
    \A n \in Node : \A peer \in mPunching[n] :
      /\ Wished(n, peer.id) \/ (peer.id = n /\ AddressShared(n))
      /\ peer.addr \in held[peer.id]

\* A store never holds two entries for one address, so that a node is not written
\* to twice in a round, whatever nodes have shared the address over time.
StoreByAddress ==
    \A n \in Node : \A p, q \in mStore[n] : p.addr = q.addr => p = q

\* Two nodes that want each other, and keep wanting each other, end up in each
\* other's stores: each of them has received something the other sent, in spite of
\* the NATs, of lost and late datagrams, of restarts and of stops of the DHT.  Two
\* limits of the code are part of the claim: a node whose address changes is not
\* found again by those that know it by its old one, and a store that the other
\* addresses fill to MAX_ENTRIES does not take the newcomer.
Met(n, id) == \E peer \in mStore[n] : peer.id = id

RoomFor(n, id) == Cardinality(OtherAddrs(mStore[n], addr[id])) < MaxEntries

MutualRequestsMeet ==
    \A n, id \in Node :
      n # id /\ <<n, id>> \in Wants /\ <<id, n>> \in Wants
        => ([](addr = HomeAddr)
              /\ <>[](/\ mConnectRequests[n][n] = id /\ mConnectRequests[id][id] = n
                      /\ RoomFor(n, id))
              => <>[]Met(n, id))

\* "B: Hi nodeId! peerId with IP want to connect you" (bdmsgs.cc:614): an ask_conn
\* is addressed to the node it names.
AskConnNamesReceiver ==
    \A m \in net : m.type = "ask_conn" => m.to \in held[m.nodeId]

=============================================================================
