--------------------------- MODULE bdProcessProofs --------------------------
(***************************************************************************)
(* Proofs about module bdProcess and its parts, bdNode, bdTunnel and       *)
(* bdHashSpace: for any network, any peers and any limits, whatever comes  *)
(* in and whenever the node is stopped, started or killed.                 *)
(*                                                                         *)
(* The node.  A message is read by the keys it happens to have, so that    *)
(* the types rest on what each of them carries (MessageFields).  The       *)
(* questions that wait are in the order of their age, the store is bounded *)
(* by what it adds and what it reads back, and what is being written was   *)
(* enough when the writing began: with these, each of the properties is    *)
(* inductive.                                                              *)
(*                                                                         *)
(* The tunnel and the hash space have a section each, and the last one     *)
(* puts the parts together.                                                *)
(***************************************************************************)
EXTENDS bdProcess, SeqLemmas

-----------------------------------------------------------------------------
(***************************************************************************)
(* Messages.  What a node reads from a message is what was put into it.    *)
(***************************************************************************)
\* What is packed into a string of ids is what a receiver finds in it.
LEMMA NodesRoundTrip ==
    ASSUME NEW S, NEW nodes \in Seq(S)
    PROVE  LET found == beMsgGetListBdIds(makeCompactIdListString(nodes))
           IN  /\ DOMAIN found = 1 .. Len(nodes)
               /\ \A i \in 1 .. Len(nodes) :
                    found[i] = [id |-> nodes[i].id, addr |-> nodes[i].addr]
<1> DEFINE enc == makeCompactIdListString(nodes)
           found == beMsgGetListBdIds(enc)
           n == Len(nodes)
<1>1. n \in Nat
  OBVIOUS
<1>2. /\ DOMAIN enc = 1 .. 2 * n
      /\ \A k \in 1 .. 2 * n :
           enc[k] = encodeCompactNodeId(nodes[(k + 1) \div 2])[IF k % 2 = 1 THEN 1 ELSE 2]
  BY DEF makeCompactIdListString, CompactParts
<1>3. Len(enc) = 2 * n
  BY <1>1, <1>2
<1>4. enc \in Seq({enc[k] : k \in 1 .. 2 * n})
  <2>1. enc = [k \in 1 .. 2 * n |-> enc[k]]
    BY DEF makeCompactIdListString, CompactParts
  <2> HIDE DEF enc
  <2> QED
    BY <1>1, <2>1
<1> HIDE DEF enc
<1>5. DOMAIN found = 1 .. n
  BY <1>1, <1>3 DEF beMsgGetListBdIds, CompactParts
<1>6. ASSUME NEW i \in 1 .. n
      PROVE  found[i] = [id |-> nodes[i].id, addr |-> nodes[i].addr]
  <2>1. /\ enc[2 * i - 1] = nodes[i].id
        /\ enc[2 * i] = nodes[i].addr
    <3>1. 2 * i - 1 \in 1 .. 2 * n /\ 2 * i \in 1 .. 2 * n
      BY <1>1
    <3>2. /\ ((2 * i - 1) + 1) \div 2 = i /\ (2 * i - 1) % 2 = 1
          /\ (2 * i + 1) \div 2 = i /\ (2 * i) % 2 # 1
      BY <1>1
    <3> QED
      BY <1>2, <3>1, <3>2 DEF encodeCompactNodeId
  <2> DEFINE s == SubSeq(enc, 2 * i - 1, 2 * i)
  <2>2. s[1] = enc[2 * i - 1] /\ s[2] = enc[2 * i]
    BY <1>1, <1>3, <1>4
  <2>3. found[i] = decodeCompactNodeId(s)
    BY <1>5 DEF beMsgGetListBdIds, CompactParts
  <2> QED
    BY <2>1, <2>2, <2>3 DEF decodeCompactNodeId
<1> QED
  BY <1>5, <1>6 DEF enc

\* What the handlers read of a message that is parsed.
Fields(m) ==
    /\ m.t \in TransIds
    /\ Body(m).id \in NodeIds
    /\ beMsgType(m) = "FIND_NODE" => Body(m).target \in NodeIds
    /\ beMsgType(m) = "GET_HASH" => Body(m).info_hash \in NodeIds
    /\ beMsgType(m) = "REPLY_NODE" => beMsgGetListBdIds(Body(m).nodes) \in Seq(BdId)
    /\ beMsgType(m) = "REPLY_NEWCONN" => decodeCompactNodeId(Body(m).pid) \in BdId

LEMMA QuestionFields ==
    ASSUME NEW tid \in TransIds, NEW id \in NodeIds, NEW x \in NodeIds
    PROVE  /\ Fields(bitdht_create_ping_msg(tid, id))
           /\ Fields(bitdht_find_node_msg(tid, id, x))
           /\ Fields(bitdht_get_peers_msg(tid, id, x))
           /\ Fields(bitdht_announce_peers_msg(tid, id, x, 0, tid))
           /\ Fields(bitdht_ask_myip_msg(tid, id))
<1> USE DEF Fields, Query, Body, BodyKey, beMsgGetY, beMsgType, QueryType, Has
<1>1. Fields(bitdht_create_ping_msg(tid, id))
  BY DEF bitdht_create_ping_msg
<1>2. Fields(bitdht_find_node_msg(tid, id, x))
  BY DEF bitdht_find_node_msg
<1>3. Fields(bitdht_get_peers_msg(tid, id, x))
  BY DEF bitdht_get_peers_msg
<1>4. Fields(bitdht_announce_peers_msg(tid, id, x, 0, tid))
  BY DEF bitdht_announce_peers_msg
<1>5. Fields(bitdht_ask_myip_msg(tid, id))
  BY DEF bitdht_ask_myip_msg
<1> QED
  BY <1>1, <1>2, <1>3, <1>4, <1>5

LEMMA AnswerFields ==
    ASSUME NEW tid \in TransIds, NEW id \in NodeIds
    PROVE  /\ Fields(bitdht_response_ping_msg(tid, id, Version))
           /\ Fields(bitdht_reply_announce_msg(tid, id))
<1> USE DEF Fields, Reply, Body, BodyKey, beMsgGetY, beMsgType, ReplyType, Has
<1>1. Fields(bitdht_response_ping_msg(tid, id, Version))
  BY DEF bitdht_response_ping_msg
<1>2. Fields(bitdht_reply_announce_msg(tid, id))
  BY DEF bitdht_reply_announce_msg
<1> QED
  BY <1>1, <1>2

LEMMA NodesFields ==
    ASSUME NEW tid \in TransIds, NEW id \in NodeIds, NEW nodes \in SeqOf(BdId, NeighbourPeers)
    PROVE  Fields(bitdht_resp_node_msg(tid, id, nodes))
<1>1. nodes \in Seq(BdId)
  BY NodeAssumption DEF SeqOf
<1> DEFINE m == bitdht_resp_node_msg(tid, id, nodes)
           found == beMsgGetListBdIds(makeCompactIdListString(nodes))
<1>2. /\ DOMAIN found = 1 .. Len(nodes)
      /\ \A i \in 1 .. Len(nodes) : found[i] = [id |-> nodes[i].id, addr |-> nodes[i].addr]
  BY <1>1, NodesRoundTrip
<1>3. found = [i \in 1 .. Len(nodes) |-> found[i]]
  BY <1>2 DEF beMsgGetListBdIds
<1> HIDE DEF found
<1>4. ASSUME NEW i \in 1 .. Len(nodes) PROVE found[i] \in BdId
  <2>1. nodes[i] \in BdId
    BY <1>1
  <2> QED
    BY <1>2, <2>1 DEF BdId
<1>5. found \in Seq(BdId)
  BY <1>1, <1>3, <1>4
<1>6. m = [y |-> "r", t |-> tid, r |-> [id |-> id, nodes |-> makeCompactIdListString(nodes)]]
  BY DEF bitdht_resp_node_msg, Reply
<1>7. Body(m) = [id |-> id, nodes |-> makeCompactIdListString(nodes)] /\ m.t = tid
  BY <1>6 DEF Body, BodyKey, beMsgGetY
<1>8. beMsgType(m) = "REPLY_NODE"
  BY <1>6 DEF beMsgType, beMsgGetY, ReplyType, Has
<1> QED
  BY <1>5, <1>7, <1>8 DEF Fields, found

LEMMA MessageFields ==
    ASSUME NEW m \in Message, Parses(m)
    PROVE  Fields(m)
<1>1. CASE m \in Malformed
  <2>1. ASSUME NEW tid \in TransIds, m = [y |-> "e", t |-> tid] PROVE FALSE
    BY <2>1 DEF Parses, beMsgType, beMsgGetY
  <2>2. ASSUME NEW tid \in TransIds, NEW id \in NodeIds,
               m = Query(tid, "find_node", [id |-> id])
        PROVE  FALSE
    <3>1. beMsgType(m) = "FIND_NODE"
      BY <2>2 DEF Query, beMsgType, beMsgGetY, QueryType
    <3>2. Body(m) = [id |-> id]
      BY <2>2 DEF Query, Body, BodyKey, beMsgGetY
    <3>3. "target" \in DOMAIN Body(m)
      BY <3>1 DEF Parses, Needed
    <3> QED
      BY <3>2, <3>3
  <2>3. \/ \E tid \in TransIds : m = [y |-> "e", t |-> tid]
        \/ \E tid \in TransIds, id \in NodeIds : m = Query(tid, "find_node", [id |-> id])
    BY <1>1 DEF Malformed, Query
  <2> QED
    BY <2>1, <2>2, <2>3
<1>2. CASE m \in {bitdht_create_ping_msg(tid, id) : tid \in TransIds, id \in NodeIds}
  BY <1>2, QuestionFields
<1>3. CASE m \in {bitdht_find_node_msg(tid, id, x) : tid \in TransIds, id, x \in NodeIds}
  BY <1>3, QuestionFields
<1>4. CASE m \in {bitdht_get_peers_msg(tid, id, x) : tid \in TransIds, id, x \in NodeIds}
  BY <1>4, QuestionFields
<1>5. CASE m \in {bitdht_announce_peers_msg(tid, id, x, 0, tid) :
                    tid \in TransIds, id, x \in NodeIds}
  BY <1>5, QuestionFields
<1>6. CASE m \in {bitdht_ask_myip_msg(tid, id) : tid \in TransIds, id \in NodeIds}
  BY <1>6, QuestionFields
<1>7. CASE m \in {bitdht_response_ping_msg(tid, id, Version) : tid \in TransIds, id \in NodeIds}
  BY <1>7, AnswerFields
<1>8. CASE m \in {bitdht_peers_reply_hash_msg(tid, id, tid, <<>>) :
                    tid \in TransIds, id \in NodeIds}
  <2>1. PICK tid \in TransIds, id \in NodeIds : m = bitdht_peers_reply_hash_msg(tid, id, tid, <<>>)
    BY <1>8 DEF bitdht_peers_reply_hash_msg, Reply
  <2> QED
    BY <2>1 DEF bitdht_peers_reply_hash_msg, Reply, Fields, Body, BodyKey, beMsgGetY, beMsgType, ReplyType, Has
<1>9. CASE m \in {bitdht_peers_reply_closest_msg(tid, id, tid, nodes) :
                    tid \in TransIds, id \in NodeIds, nodes \in SeqOf(BdId, NeighbourPeers)}
  <2>1. PICK tid \in TransIds, id \in NodeIds, nodes \in SeqOf(BdId, NeighbourPeers) :
                m = bitdht_peers_reply_closest_msg(tid, id, tid, nodes)
    BY <1>9 DEF bitdht_peers_reply_closest_msg
  <2> QED
    BY <2>1 DEF bitdht_peers_reply_closest_msg, Reply, Fields, Body, BodyKey, beMsgGetY, beMsgType, ReplyType, Has
<1>10. CASE m \in {bitdht_reply_announce_msg(tid, id) : tid \in TransIds, id \in NodeIds}
  BY <1>10, AnswerFields
<1>11. CASE m \in {bitdht_reply_myip_msg(tid, id, p, TRUE) :
                    tid \in TransIds, id \in NodeIds, p \in BdId}
  <2>1. PICK tid \in TransIds, id \in NodeIds, p \in BdId : m = bitdht_reply_myip_msg(tid, id, p, TRUE)
    BY <1>11 DEF bitdht_reply_myip_msg
  <2> QED
    BY <2>1 DEF bitdht_reply_myip_msg, Reply, Fields, Body, BodyKey, beMsgGetY, beMsgType, ReplyType, Has,
           encodeCompactNodeId, decodeCompactNodeId, BdId
<1>12. CASE m \in {bitdht_reply_conn_msg(tid, id, TRUE) : tid \in TransIds, id \in NodeIds}
  <2>1. PICK tid \in TransIds, id \in NodeIds : m = bitdht_reply_conn_msg(tid, id, TRUE)
    BY <1>12 DEF bitdht_reply_conn_msg
  <2> QED
    BY <2>1 DEF bitdht_reply_conn_msg, Reply, Fields, Body, BodyKey, beMsgGetY, beMsgType, ReplyType, Has
<1>13. CASE m \in {bitdht_resp_node_msg(tid, id, nodes) : tid \in TransIds, id \in NodeIds,
                    nodes \in SeqOf(BdId, NeighbourPeers)}
  BY <1>13, NodesFields
<1> QED
  BY <1>1, <1>2, <1>3, <1>4, <1>5, <1>6, <1>7, <1>8, <1>9, <1>10, <1>11, <1>12, <1>13
     DEF Message, bitdht_peers_reply_hash_msg, bitdht_reply_conn_msg, bitdht_reply_myip_msg, Reply

\* Whatever a node sends, another can receive.
LEMMA OwnMessages ==
    ASSUME NEW tid \in TransIds
    PROVE  /\ bitdht_create_ping_msg(tid, OwnId) \in Message
           /\ bitdht_response_ping_msg(tid, OwnId, Version) \in Message
           /\ \A x \in NodeIds : bitdht_find_node_msg(tid, OwnId, x) \in Message
           /\ \A nodes \in SeqOf(BdId, NeighbourPeers) :
                bitdht_resp_node_msg(tid, OwnId, nodes) \in Message
           /\ bitdht_ask_myip_msg(tid, OwnId) \in Message
<1> USE NodeAssumption
        DEF Message, bitdht_peers_reply_hash_msg, bitdht_reply_conn_msg, bitdht_reply_myip_msg, Reply
<1>1. bitdht_create_ping_msg(tid, OwnId) \in Message
  OBVIOUS
<1>2. bitdht_response_ping_msg(tid, OwnId, Version) \in Message
  OBVIOUS
<1>3. ASSUME NEW x \in NodeIds PROVE bitdht_find_node_msg(tid, OwnId, x) \in Message
  OBVIOUS
<1>4. ASSUME NEW nodes \in SeqOf(BdId, NeighbourPeers)
      PROVE  bitdht_resp_node_msg(tid, OwnId, nodes) \in Message
  OBVIOUS
<1>5. bitdht_ask_myip_msg(tid, OwnId) \in Message
  OBVIOUS
<1> QED
  BY <1>1, <1>2, <1>3, <1>4, <1>5

LEMMA OwnMyIP ==
    ASSUME NEW tid \in TransIds, NEW p \in BdId
    PROVE  bitdht_reply_myip_msg(tid, OwnId, p, TRUE) \in Message
<1> DEFINE all == {bitdht_reply_myip_msg(t, id, q, TRUE) :
                     t \in TransIds, id \in NodeIds, q \in BdId}
<1>1. bitdht_reply_myip_msg(tid, OwnId, p, TRUE) \in all
  BY NodeAssumption DEF bitdht_reply_myip_msg
<1>2. all \subseteq Message
  BY DEF Message, bitdht_peers_reply_hash_msg, bitdht_reply_conn_msg, bitdht_reply_myip_msg, Reply
<1> HIDE DEF all
<1> QED
  BY <1>1, <1>2

-----------------------------------------------------------------------------
(***************************************************************************)
(* Types.                                                                  *)
(***************************************************************************)
\* No query is left to be asked outside of the loop that asks them.
NoneLeft == pc # "query" => queriesLeft = 0

TypeInv == NodeTypeOK /\ NoneLeft

\* What recvPkt has read of a message that it does not drop.
LEMMA Received ==
    ASSUME NodeTypeOK, mIncomingMsgs # <<>>, Sound(Current)
    PROVE  /\ Current \in Datagram /\ Fields(Current.msg) /\ transId \in TransIds
           /\ srcId \in BdId /\ srcId.id \in NodeIds /\ srcId.addr \in Addrs
           /\ Current.addr \in Addrs
           /\ Tail(mIncomingMsgs) \in Seq(Datagram)
<1>1. mIncomingMsgs \in Seq(Datagram)
  BY DEF NodeTypeOK
<1>2. Current \in Datagram /\ Tail(mIncomingMsgs) \in Seq(Datagram)
  BY <1>1 DEF Current
<1>3. Current.msg \in Message /\ Current.addr \in Addrs
  BY <1>2 DEF Datagram
<1>4. Fields(Current.msg)
  BY <1>3, MessageFields DEF Sound
<1>5. transId \in TransIds /\ srcId \in BdId /\ srcId.id \in NodeIds /\ srcId.addr \in Addrs
  BY <1>3, <1>4 DEF Fields, transId, srcId, BdId
<1> QED
  BY <1>2, <1>3, <1>4, <1>5

LEMMA SubsetsListed ==
    ASSUME NEW addrs \in SUBSET Addrs
    PROVE  SetToSeq(addrs) \in Seq(addrs) /\ SetToSeq(addrs) \in Seq(Addrs)
<1>1. IsFiniteSet(addrs)
  BY NodeAssumption, FS_Subset
<1> QED
  BY <1>1, SetToSeqProperties

LEMMA ToAllSendable ==
    ASSUME NEW addrs \in SUBSET Addrs, NEW m, NEW sealed \in BOOLEAN,
           m \in {bitdht_create_ping_msg(genNewTransId, OwnId),
                  bitdht_ask_myip_msg(genNewTransId, OwnId)}
    PROVE  ToAll(addrs, m, sealed) \in Seq(Datagram)
<1>1. SetToSeq(addrs) \in Seq(Addrs)
  BY SubsetsListed
<1>2. genNewTransId \in TransIds
  BY NodeAssumption DEF genNewTransId
<1>3. m \in Message
  BY <1>2, OwnMessages
<1>4. \A a \in Addrs : [msg |-> m, addr |-> a, sealed |-> sealed] \in Datagram
  BY <1>3 DEF Datagram
<1> DEFINE list == SetToSeq(addrs)
<1>5. \A i \in DOMAIN list : [msg |-> m, addr |-> list[i], sealed |-> sealed] \in Datagram
  BY <1>1, <1>4
<1>6. ToAll(addrs, m, sealed) =
        [i \in DOMAIN list |-> [msg |-> m, addr |-> list[i], sealed |-> sealed]]
  BY DEF ToAll
<1> HIDE DEF list
<1>7. list \in Seq(Addrs)
  BY <1>1 DEF list
<1> QED
  BY <1>5, <1>6, <1>7

\* addPeer keeps both tables of peers what they are.
LEMMA AddPeerTypes ==
    ASSUME NodeTypeOK, NEW id \in BdId, addPeer(id)
    PROVE  mNodeSpace' \in SUBSET BdId /\ mStore' \in SUBSET Addrs
<1>1. id.addr \in Addrs
  BY DEF BdId
<1> QED
  BY <1>1 DEF NodeTypeOK, addPeer, addStore

LEMMA QueueTypes ==
    ASSUME NodeTypeOK, NEW id \in BdId, NEW query \in NodeIds, NEW tid \in TransIds,
           NEW type \in {"BD_QUERY_NEIGHBOURS", "BD_QUERY_HASH"}, queueQuery(id, query, tid, type)
    PROVE  mRemoteQueries' \in Seq(RemoteQuery)
<1>1. 0 \in 0 .. MaxRemoteQueryAge
  BY NodeAssumption
<1>2. [mId |-> id, mQuery |-> query, mTransId |-> tid, mQueryType |-> type, age |-> 0]
        \in RemoteQuery
  BY <1>1 DEF RemoteQuery
<1> QED
  BY <1>2 DEF NodeTypeOK, queueQuery

LEMMA SendTypes ==
    ASSUME NodeTypeOK, NEW a \in Addrs, NEW m \in Message, NEW sealed \in BOOLEAN,
           sendPkt(a, m, sealed)
    PROVE  mOutgoingMsgs' \in Seq(Datagram)
<1>1. [msg |-> m, addr |-> a, sealed |-> sealed] \in Datagram
  BY DEF Datagram
<1> QED
  BY <1>1 DEF NodeTypeOK, sendPkt

\* Messages that come in.
LEMMA RecvTypes ==
    ASSUME TypeInv, recvPkt
    PROVE  TypeInv'
<1> USE DEF TypeInv, NoneLeft, turn, questions, peers, file, handshake
<1>1. CASE dropPkt
  BY <1>1 DEF dropPkt, NodeTypeOK
<1>2. CASE msgin_ping
  <2>1. srcId \in BdId /\ srcId.addr \in Addrs /\ transId \in TransIds
        /\ Tail(mIncomingMsgs) \in Seq(Datagram)
    BY <1>2, Received DEF msgin_ping, Receive
  <2>2. mNodeSpace' \in SUBSET BdId /\ mStore' \in SUBSET Addrs
    BY <1>2, <2>1, AddPeerTypes DEF msgin_ping
  <2>3. mOutgoingMsgs' \in Seq(Datagram)
    BY <1>2, <2>1, SendTypes, OwnMessages DEF msgin_ping
  <2> QED
    BY <1>2, <2>1, <2>2, <2>3 DEF msgin_ping, Receive, NodeTypeOK
<1>3. CASE msgin_pong
  <2>1. srcId \in BdId /\ Tail(mIncomingMsgs) \in Seq(Datagram)
    BY <1>3, Received DEF msgin_pong, Receive
  <2>2. mNodeSpace' \in SUBSET BdId /\ mStore' \in SUBSET Addrs
    BY <1>3, <2>1, AddPeerTypes DEF msgin_pong
  <2> QED
    BY <1>3, <2>1, <2>2 DEF msgin_pong, Receive, NodeTypeOK
<1>4. CASE msgin_find_node
  <2>1. srcId \in BdId /\ transId \in TransIds /\ Tail(mIncomingMsgs) \in Seq(Datagram)
        /\ Body(Current.msg).target \in NodeIds
    BY <1>4, Received DEF msgin_find_node, Receive, Fields
  <2>2. mNodeSpace' \in SUBSET BdId /\ mStore' \in SUBSET Addrs
    BY <1>4, <2>1, AddPeerTypes DEF msgin_find_node
  <2>3. mRemoteQueries' \in Seq(RemoteQuery)
    BY <1>4, <2>1, QueueTypes DEF msgin_find_node
  <2> QED
    BY <1>4, <2>1, <2>2, <2>3 DEF msgin_find_node, Receive, NodeTypeOK
<1>5. CASE msgin_get_hash
  <2>1. srcId \in BdId /\ transId \in TransIds /\ Tail(mIncomingMsgs) \in Seq(Datagram)
        /\ Body(Current.msg).info_hash \in NodeIds
    BY <1>5, Received DEF msgin_get_hash, Receive, Fields
  <2>2. mRemoteQueries' \in Seq(RemoteQuery)
    BY <1>5, <2>1, QueueTypes DEF msgin_get_hash
  <2> QED
    BY <1>5, <2>1, <2>2 DEF msgin_get_hash, Receive, NodeTypeOK
<1>6. CASE msgin_reply_find_node
  <2> DEFINE nodes == beMsgGetListBdIds(Body(Current.msg).nodes)
  <2>1. srcId \in BdId /\ Tail(mIncomingMsgs) \in Seq(Datagram) /\ nodes \in Seq(BdId)
    BY <1>6, Received DEF msgin_reply_find_node, Receive, Fields
  <2> HIDE DEF nodes
  <2>2. mNodeSpace' \in SUBSET BdId /\ mStore' \in SUBSET Addrs
    BY <1>6, <2>1, AddPeerTypes DEF msgin_reply_find_node
  <2>3. mPotentialPeers' \in Seq(Addrs)
    <3>1. PICK worthy \in SUBSET DOMAIN nodes :
            addPotentialPeers([i \in DOMAIN Kept(nodes, worthy) |-> Kept(nodes, worthy)[i].addr])
      BY <1>6 DEF msgin_reply_find_node, nodes
    <3> DEFINE reported == Kept(nodes, worthy)
    <3>2. reported \in Seq(BdId)
      BY <2>1, KeptProperties
    <3> HIDE DEF reported
    <3>3. DOMAIN reported = 1 .. Len(reported) /\ Len(reported) \in Nat
      BY <3>2
    <3>4. \A i \in DOMAIN reported : reported[i].addr \in Addrs
      <4>1. \A i \in DOMAIN reported : reported[i] \in BdId
        BY <3>2
      <4> QED
        BY <4>1 DEF BdId
    <3>5. [i \in DOMAIN reported |-> reported[i].addr] \in Seq(Addrs)
      BY <3>3, <3>4
    <3>6. mPotentialPeers' = mPotentialPeers \o [i \in DOMAIN reported |-> reported[i].addr]
      BY <3>1 DEF addPotentialPeers, reported
    <3> QED
      BY <3>5, <3>6 DEF NodeTypeOK
  <2> QED
    BY <1>6, <2>1, <2>2, <2>3 DEF msgin_reply_find_node, Receive, NodeTypeOK
<1>7. CASE msgin_ignored
  BY <1>7 DEF msgin_ignored, Receive, NodeTypeOK
<1>8. CASE msgin_ask_myip
  <2>1. srcId \in BdId /\ srcId.addr \in Addrs /\ transId \in TransIds
        /\ Tail(mIncomingMsgs) \in Seq(Datagram) /\ Current.addr \in Addrs
    BY <1>8, Received DEF msgin_ask_myip, Receive
  <2>2. /\ mOutgoingMsgs' \in Seq(Datagram) /\ mBlackNodes' \in SUBSET Addrs
        /\ mMyIPs' \in SUBSET Addrs /\ mRandomTokens' \in BOOLEAN
    <3>1. CASE AddBlackList
      BY <2>1, <3>1 DEF AddBlackList, NodeTypeOK
    <3>2. CASE Invalid
      BY <3>2 DEF Invalid, NodeTypeOK
    <3>3. CASE /\ sendPkt(srcId.addr, bitdht_reply_myip_msg(transId, OwnId, srcId, TRUE), TRUE)
               /\ mRandomTokens' = TRUE
               /\ UNCHANGED <<mBlackNodes, mMyIPs>>
      <4>1. bitdht_reply_myip_msg(transId, OwnId, srcId, TRUE) \in Message
        BY <2>1, OwnMyIP
      <4>2. mOutgoingMsgs' \in Seq(Datagram)
        BY <2>1, <3>3, <4>1, SendTypes
      <4> QED
        BY <3>3, <4>2 DEF NodeTypeOK
    <3> QED
      BY <1>8, <3>1, <3>2, <3>3 DEF msgin_ask_myip
  <2> QED
    BY <1>8, <2>1, <2>2 DEF msgin_ask_myip, Receive, NodeTypeOK
<1>9. CASE msgin_reply_ask_myip
  <2>1. /\ Tail(mIncomingMsgs) \in Seq(Datagram) /\ Current.addr \in Addrs
        /\ decodeCompactNodeId(Body(Current.msg).pid).addr \in Addrs
    BY <1>9, Received DEF msgin_reply_ask_myip, Receive, Fields, BdId
  <2>2. /\ mOutgoingMsgs' \in Seq(Datagram) /\ mBlackNodes' \in SUBSET Addrs
        /\ mMyIPs' \in SUBSET Addrs /\ mRandomTokens' \in BOOLEAN
    BY <1>9, <2>1 DEF msgin_reply_ask_myip, AddBlackList, Invalid, NodeTypeOK
  <2> QED
    BY <1>9, <2>1, <2>2 DEF msgin_reply_ask_myip, Receive, NodeTypeOK
<1> QED
  BY <1>1, <1>2, <1>3, <1>4, <1>5, <1>6, <1>7, <1>8, <1>9 DEF recvPkt

\* The rest of a turn.
LEMMA TurnTypes ==
    ASSUME TypeInv, DhtThread, ~ recvPkt
    PROVE  TypeInv'
<1> USE NodeAssumption
        DEF TypeInv, NoneLeft, turn, questions, peers, file, handshake, Label
<1>1. CASE iterationOff
  BY <1>1 DEF iterationOff, NodeTypeOK
<1>2. CASE beginTurn
  BY <1>2 DEF beginTurn, NodeTypeOK
<1>3. CASE updateStore
  BY <1>3 DEF updateStore, NodeTypeOK
<1>4. CASE storeWritten
  BY <1>4 DEF storeWritten, NodeTypeOK
<1>5. CASE allReceived
  BY <1>5 DEF allReceived, NodeTypeOK
<1>6. CASE pingPotential
  <2>1. /\ Head(mPotentialPeers) \in Addrs /\ Tail(mPotentialPeers) \in Seq(Addrs)
        /\ genNewTransId \in TransIds
    BY <1>6 DEF pingPotential, NodeTypeOK, genNewTransId
  <2>2. mOutgoingMsgs' \in Seq(Datagram)
    BY <1>6, <2>1, SendTypes, OwnMessages DEF pingPotential
  <2>3. sentMsgs' \in 0 .. MaxMsgs
    BY <1>6 DEF pingPotential, MayPing, NodeTypeOK
  <2> QED
    BY <1>6, <2>1, <2>2, <2>3 DEF pingPotential, NodeTypeOK
<1>7. CASE allPinged
  BY <1>7 DEF allPinged, NodeTypeOK
<1>8. CASE askQuery
  <2>1. /\ mLocalQueries' \in Seq(NodeIds) /\ Len(mLocalQueries') = Len(mLocalQueries)
        /\ queriesLeft' \in 0 .. Len(mLocalQueries)
        /\ Head(mLocalQueries) \in NodeIds
    BY <1>8 DEF askQuery, MayQuery, NodeTypeOK
  <2>2. mOutgoingMsgs' \in Seq(Datagram) /\ sentMsgs' \in 0 .. MaxMsgs
    <3>1. CASE UNCHANGED <<sentMsgs, mOutgoingMsgs>>
      BY <3>1 DEF NodeTypeOK
    <3>2. ASSUME NEW id \in mNodeSpace,
                 sendPkt(id.addr,
                         bitdht_find_node_msg(genNewTransId, OwnId, Head(mLocalQueries)), FALSE),
                 sentMsgs' = sentMsgs + 1
          PROVE  mOutgoingMsgs' \in Seq(Datagram) /\ sentMsgs' \in 0 .. MaxMsgs
      <4>1. id.addr \in Addrs /\ genNewTransId \in TransIds
        BY DEF NodeTypeOK, BdId, genNewTransId
      <4>2. mOutgoingMsgs' \in Seq(Datagram)
        BY <2>1, <3>2, <4>1, SendTypes, OwnMessages
      <4> QED
        BY <1>8, <3>2, <4>2 DEF askQuery, MayQuery, NodeTypeOK
    <3> QED
      BY <1>8, <3>1, <3>2 DEF askQuery
  <2> QED
    BY <1>8, <2>1, <2>2 DEF askQuery, NodeTypeOK
<1>9. CASE allAsked
  BY <1>9 DEF allAsked, NodeTypeOK
<1>10. CASE processRemoteQuery
  <2>1. CASE /\ \A i \in DOMAIN mRemoteQueries : ~ Fresh(mRemoteQueries[i])
             /\ mRemoteQueries' = <<>>
             /\ UNCHANGED mOutgoingMsgs
    BY <1>10, <2>1 DEF processRemoteQuery, NodeTypeOK
  <2>2. ASSUME NEW i \in DOMAIN mRemoteQueries, AnswerRemote(mRemoteQueries[i]),
               mRemoteQueries' = SubSeq(mRemoteQueries, i + 1, Len(mRemoteQueries))
        PROVE  mRemoteQueries' \in Seq(RemoteQuery) /\ mOutgoingMsgs' \in Seq(Datagram)
    <3> DEFINE q == mRemoteQueries[i]
    <3>1. q \in RemoteQuery /\ mRemoteQueries' \in Seq(RemoteQuery)
      BY <2>2 DEF NodeTypeOK
    <3>2. q.mTransId \in TransIds /\ q.mId \in BdId /\ q.mId.addr \in Addrs
      BY <3>1 DEF RemoteQuery, BdId
    <3> HIDE DEF q
    <3>3. ASSUME NEW nodes \in SeqOf(mNodeSpace, NeighbourPeers),
                 sendPkt(q.mId.addr, bitdht_resp_node_msg(q.mTransId, OwnId, nodes), FALSE)
          PROVE  mOutgoingMsgs' \in Seq(Datagram)
      <4>1. nodes \in SeqOf(BdId, NeighbourPeers)
        BY DEF NodeTypeOK, SeqOf
      <4> QED
        BY <3>2, <3>3, <4>1, SendTypes, OwnMessages
    <3>4. mOutgoingMsgs' \in Seq(Datagram)
      BY <2>2, <3>3 DEF AnswerRemote, NodeTypeOK, q
    <3> QED
      BY <3>1, <3>4
  <2> QED
    BY <1>10, <2>1, <2>2 DEF processRemoteQuery, NodeTypeOK
<1>11. CASE pingOutOfDate
  <2>1. PICK due \in SUBSET {id.addr : id \in mNodeSpace} :
          mOutgoingMsgs' =
            mOutgoingMsgs \o ToAll(due, bitdht_create_ping_msg(genNewTransId, OwnId), FALSE)
    BY <1>11 DEF pingOutOfDate
  <2>2. \A id \in mNodeSpace : id.addr \in Addrs
    BY DEF NodeTypeOK, BdId
  <2>3. due \subseteq Addrs
    BY <2>2
  <2> DEFINE pings == ToAll(due, bitdht_create_ping_msg(genNewTransId, OwnId), FALSE)
  <2>4. pings \in Seq(Datagram)
    BY <2>3, ToAllSendable
  <2> HIDE DEF pings
  <2>5. mOutgoingMsgs' \in Seq(Datagram)
    <3>1. mOutgoingMsgs \in Seq(Datagram) /\ mOutgoingMsgs' = mOutgoingMsgs \o pings
      BY <2>1 DEF NodeTypeOK, pings
    <3> QED
      BY <2>4, <3>1, ConcatElements
  <2> QED
    BY <1>11, <2>5 DEF pingOutOfDate, NodeTypeOK
<1>12. CASE endTurn
  <2>1. AskedForMyIP \in Seq(Datagram)
    <3> DEFINE m == bitdht_ask_myip_msg(genNewTransId, OwnId)
    <3>1. ToAll(WhiteNodes, m, TRUE) \in Seq(Datagram) /\ ToAll(mStore, m, TRUE) \in Seq(Datagram)
      BY ToAllSendable DEF NodeTypeOK
    <3> QED
      BY <3>1, ConcatElements DEF AskedForMyIP
  <2>2. mOutgoingMsgs' \in Seq(Datagram)
    <3>1. mOutgoingMsgs \in Seq(Datagram)
      BY DEF NodeTypeOK
    <3>2. mOutgoingMsgs' \in {mOutgoingMsgs, mOutgoingMsgs \o AskedForMyIP}
      BY <1>12 DEF endTurn
    <3>3. mOutgoingMsgs \o AskedForMyIP \in Seq(Datagram)
      BY <2>1, <3>1, ConcatElements
    <3> QED
      BY <3>1, <3>2, <3>3
  <2>4. mRandomTokens' \in BOOLEAN
    BY <1>12 DEF endTurn, NodeTypeOK
  <2>3. broadcast_count' \in 0 .. BroadcastPeriod - 1
    BY <1>12 DEF endTurn, NodeTypeOK
  <2> QED
    BY <1>12, <2>2, <2>3, <2>4 DEF endTurn, NodeTypeOK
<1>13. CASE tick
  <2>1. SubSeq(mOutgoingMsgs, MaxMsgPerTick + 1, Len(mOutgoingMsgs)) \in Seq(Datagram)
    BY DEF NodeTypeOK
  <2> QED
    BY <1>13, <2>1 DEF tick, NodeTypeOK
<1> QED
  BY <1>1, <1>2, <1>3, <1>4, <1>5, <1>6, <1>7, <1>8, <1>9, <1>10, <1>11, <1>12, <1>13
     DEF DhtThread

\* What is left of a file never has more peers than were to be written.
LEMMA CutFiles ==
    ASSUME NEW store \in SUBSET Addrs, NEW lines \in Cut(store)
    PROVE  lines \in SUBSET Addrs /\ Cardinality(lines) <= Cardinality(store)
<1>1. IsFiniteSet(store) /\ Cardinality(store) \in Nat
  BY NodeAssumption, FS_Subset, FS_CardinalityType
<1>2. CASE lines \in SUBSET store
  BY <1>1, <1>2, FS_Subset
<1>3. ASSUME NEW rest \in (SUBSET store) \ {store}, NEW a \in Addrs, lines = rest \cup {a}
      PROVE  lines \in SUBSET Addrs /\ Cardinality(lines) <= Cardinality(store)
  <2>1. /\ IsFiniteSet(rest) /\ Cardinality(rest) \in Nat
        /\ Cardinality(rest) <= Cardinality(store) /\ Cardinality(rest) # Cardinality(store)
    BY <1>1, FS_Subset, FS_CardinalityType
  <2>2. Cardinality(rest \cup {a}) \in {Cardinality(rest), Cardinality(rest) + 1}
    BY <2>1, FS_AddElement
  <2> QED
    BY <1>1, <1>3, <2>1, <2>2, FS_AddElement, FS_CardinalityType
<1>4. CASE lines \notin SUBSET store
  <2> DEFINE strays == {rest \cup {a} : rest \in (SUBSET store) \ {store}, a \in Addrs}
  <2>1. lines \in strays
    BY <1>4 DEF Cut
  <2>2. \E rest \in (SUBSET store) \ {store}, a \in Addrs : lines = rest \cup {a}
    BY <2>1
  <2> QED
    BY <1>3, <2>2
<1> QED
  BY <1>2, <1>4

\* Everybody else.
LEMMA EnvironmentTypes ==
    ASSUME TypeInv, Environment
    PROVE  TypeInv'
<1> USE NodeAssumption
        DEF TypeInv, NoneLeft, turn, questions, peers, file, handshake, Label
<1>0. world \in World
  BY DEF NodeTypeOK
<1>1. ASSUME NEW dgram \in world.datagrams, incomingMsg(dgram) PROVE TypeInv'
  <2>1. dgram \in Datagram
    BY <1>0 DEF World
  <2> QED
    BY <1>1, <2>1 DEF incomingMsg, NodeTypeOK
<1>2. ASSUME NEW id \in world.searches, addQuery(id) PROVE TypeInv'
  <2>1. id \in NodeIds
    BY <1>0 DEF World
  <2> QED
    BY <1>2, <2>1 DEF addQuery, NodeTypeOK
<1>3. ASSUME NEW id \in world.searches, clearQuery(id) PROVE TypeInv'
  <2> DEFINE kept == {i \in DOMAIN mLocalQueries : mLocalQueries[i] # id}
  <2>1. mLocalQueries' = Kept(mLocalQueries, kept)
    BY <1>3 DEF clearQuery
  <2>2. mLocalQueries \in Seq(NodeIds) /\ kept \in SUBSET DOMAIN mLocalQueries
    BY DEF NodeTypeOK
  <2> HIDE DEF kept
  <2>3. mLocalQueries' \in Seq(NodeIds)
    BY <2>1, <2>2, KeptProperties
  <2> QED
    BY <1>3, <2>3 DEF clearQuery, NodeTypeOK
<1>4. CASE shutdownNode
  BY <1>4 DEF shutdownNode, ForgetQuestions, NodeTypeOK
<1>5. CASE restartNode
  <2>1. SetToSeq(mStoreFile) \in Seq(Addrs) /\ SetToSeq(WhiteNodes) \in Seq(Addrs)
    BY SubsetsListed DEF NodeTypeOK
  <2>2. mPotentialPeers' \in Seq(Addrs)
    BY <1>5, <2>1 DEF restartNode, NodeTypeOK
  <2> QED
    BY <1>5, <2>2 DEF restartNode, NodeTypeOK
<1>6. CASE Crash
  <2>1. mStoreFile' \in SUBSET Addrs
    <3>1. \A lines \in Cut(mStore) : lines \in SUBSET Addrs
      BY CutFiles DEF NodeTypeOK
    <3> QED
      BY <1>6, <3>1 DEF Crash, NodeTypeOK
  <2>2. /\ sentMsgs' \in 0 .. MaxMsgs /\ queriesLeft' = 0 /\ Len(mLocalQueries') = 0
        /\ broadcast_count' \in 0 .. BroadcastPeriod - 1
        /\ mIncomingMsgs' \in Seq(Datagram) /\ mOutgoingMsgs' \in Seq(Datagram)
        /\ mLocalQueries' \in Seq(NodeIds) /\ mRemoteQueries' \in Seq(RemoteQuery)
        /\ mPotentialPeers' \in Seq(Addrs)
    BY <1>6 DEF Crash
  <2>3. /\ world' \in Worlds /\ mode' \in {"OFF", "ON"} /\ pc' = "idle"
        /\ mNodeSpace' \in SUBSET BdId /\ mStore' \in SUBSET Addrs
        /\ mBlackNodes' \in SUBSET Addrs /\ mMyIPs' \in SUBSET Addrs
        /\ mRandomTokens' \in BOOLEAN /\ torn' \in BOOLEAN
    BY <1>6, <2>1 DEF Crash, NodeTypeOK
  <2> QED
    BY <2>1, <2>2, <2>3 DEF NodeTypeOK
<1>7. CASE Tick
  <2>1. \A q \in RemoteQuery : Aged(q) \in RemoteQuery
    BY DEF Aged, RemoteQuery
  <2>2. mRemoteQueries' \in Seq(RemoteQuery)
    BY <1>7, <2>1, SMTT(20) DEF Tick, NodeTypeOK
  <2> QED
    BY <1>7, <2>2 DEF Tick, NodeTypeOK
<1> QED
  BY <1>1, <1>2, <1>3, <1>4, <1>5, <1>6, <1>7 DEF Environment, Calls

LEMMA TypeInit == NodeInit => TypeInv
<1> SUFFICES ASSUME NodeInit PROVE TypeInv
  OBVIOUS
<1>1. sentMsgs \in 0 .. MaxMsgs /\ queriesLeft \in 0 .. Len(mLocalQueries)
      /\ broadcast_count \in 0 .. BroadcastPeriod - 1
  BY NodeAssumption DEF NodeInit
<1>2. /\ mIncomingMsgs \in Seq(Datagram) /\ mOutgoingMsgs \in Seq(Datagram)
      /\ mLocalQueries \in Seq(NodeIds) /\ mRemoteQueries \in Seq(RemoteQuery)
      /\ mPotentialPeers \in Seq(Addrs)
  BY DEF NodeInit
<1>3. mStore \in SUBSET Addrs /\ mStoreFile \in SUBSET Addrs /\ mNodeSpace \in SUBSET BdId
      /\ mBlackNodes \in SUBSET Addrs /\ mMyIPs \in SUBSET Addrs
  BY NodeAssumption DEF NodeInit
<1> QED
  BY <1>1, <1>2, <1>3 DEF NodeInit, TypeInv, NodeTypeOK, NoneLeft, Label

LEMMA TypeStep == TypeInv /\ [NodeNext]_nodeVars => TypeInv'
<1>1. ASSUME TypeInv, UNCHANGED nodeVars PROVE TypeInv'
  BY <1>1 DEF TypeInv, NodeTypeOK, NoneLeft, nodeVars, turn, questions, peers, file, handshake
<1> QED
  BY <1>1, RecvTypes, TurnTypes, EnvironmentTypes DEF NodeNext

-----------------------------------------------------------------------------
(***************************************************************************)
(* The questions of others.  They wait in the order of their age, so that  *)
(* what comes after one that is fresh is fresh.                            *)
(***************************************************************************)
OldestFirst ==
    \A i, j \in DOMAIN mRemoteQueries : i <= j => mRemoteQueries[i].age >= mRemoteQueries[j].age

LEMMA Ages ==
    ASSUME NodeTypeOK
    PROVE  /\ mRemoteQueries \in Seq(RemoteQuery)
           /\ \A i \in DOMAIN mRemoteQueries :
                /\ mRemoteQueries[i] \in RemoteQuery
                /\ mRemoteQueries[i].age \in 0 .. MaxRemoteQueryAge
                /\ mRemoteQueries[i].age \in Nat
<1>1. mRemoteQueries \in Seq(RemoteQuery)
  BY DEF NodeTypeOK
<1>2. \A q \in RemoteQuery : q.age \in 0 .. MaxRemoteQueryAge
  BY DEF RemoteQuery
<1>3. \A i \in DOMAIN mRemoteQueries : mRemoteQueries[i] \in RemoteQuery
  BY <1>1
<1> QED
  BY <1>1, <1>2, <1>3, NodeAssumption

LEMMA OnlyTheseQueue ==
    ASSUME [NodeNext]_nodeVars, mRemoteQueries' # <<>>,
           ~ msgin_find_node, ~ msgin_get_hash, ~ processRemoteQuery, ~ Tick
    PROVE  UNCHANGED mRemoteQueries
<1> USE DEF turn, questions, peers, file, handshake
<1>1. CASE recvPkt
  BY <1>1 DEF recvPkt, dropPkt, msgin_ping, msgin_pong, msgin_reply_find_node, msgin_ignored,
              msgin_ask_myip, msgin_reply_ask_myip
<1>2. CASE DhtThread /\ ~ recvPkt
  BY <1>2 DEF DhtThread, iterationOff, beginTurn, updateStore, storeWritten, allReceived,
              pingPotential, allPinged, askQuery, allAsked, pingOutOfDate, endTurn, tick
<1>3. CASE Environment
  BY <1>3 DEF Environment, Calls, incomingMsg, addQuery, clearQuery, shutdownNode, ForgetQuestions,
              restartNode, Crash
<1>4. CASE UNCHANGED nodeVars
  BY <1>4 DEF nodeVars
<1> QED
  BY <1>1, <1>2, <1>3, <1>4 DEF NodeNext

LEMMA QueuedLast ==
    ASSUME TypeInv, OldestFirst, NEW id, NEW query, NEW tid, NEW type,
           queueQuery(id, query, tid, type)
    PROVE  OldestFirst'
<1> DEFINE q == [mId |-> id, mQuery |-> query, mTransId |-> tid, mQueryType |-> type, age |-> 0]
           old == mRemoteQueries
<1>1. old \in Seq(RemoteQuery) /\ mRemoteQueries' = Append(old, q) /\ q.age = 0
  BY DEF TypeInv, NodeTypeOK, queueQuery
<1>2. \A i \in DOMAIN old : old[i].age \in Nat
  BY Ages DEF TypeInv
<1> HIDE DEF q
<1>3. /\ DOMAIN mRemoteQueries' = 1 .. Len(old) + 1
      /\ \A i \in 1 .. Len(old) : mRemoteQueries'[i] = old[i]
      /\ mRemoteQueries'[Len(old) + 1] = q
  BY <1>1
<1> QED
  BY <1>1, <1>2, <1>3 DEF OldestFirst

LEMMA QueueStep ==
    ASSUME TypeInv, OldestFirst, [NodeNext]_nodeVars
    PROVE  OldestFirst'
<1>1. CASE msgin_find_node
  BY <1>1, QueuedLast DEF msgin_find_node
<1>2. CASE msgin_get_hash
  BY <1>2, QueuedLast DEF msgin_get_hash
<1>3. CASE processRemoteQuery
  <2>1. ASSUME NEW k \in DOMAIN mRemoteQueries,
               mRemoteQueries' = SubSeq(mRemoteQueries, k + 1, Len(mRemoteQueries))
        PROVE  OldestFirst'
    <3>1. /\ DOMAIN mRemoteQueries' = 1 .. Len(mRemoteQueries) - k
          /\ \A i \in 1 .. Len(mRemoteQueries) - k :
               /\ mRemoteQueries'[i] = mRemoteQueries[k + i]
               /\ k + i \in DOMAIN mRemoteQueries
      BY <2>1, SMTT(20) DEF TypeInv, NodeTypeOK
    <3>2. k \in Nat /\ Len(mRemoteQueries) \in Nat
      BY DEF TypeInv, NodeTypeOK
    <3> SUFFICES ASSUME NEW i \in 1 .. Len(mRemoteQueries) - k,
                        NEW j \in 1 .. Len(mRemoteQueries) - k, i <= j
                 PROVE  mRemoteQueries'[i].age >= mRemoteQueries'[j].age
      BY <3>1 DEF OldestFirst
    <3>3. k + i <= k + j
      BY <3>2
    <3> QED
      BY <3>1, <3>3 DEF OldestFirst
  <2>2. CASE mRemoteQueries' = <<>>
    BY <2>2 DEF OldestFirst
  <2> QED
    BY <1>3, <2>1, <2>2 DEF processRemoteQuery
<1>4. CASE Tick
  <2>1. \A i \in DOMAIN mRemoteQueries :
          /\ mRemoteQueries[i] \in RemoteQuery
          /\ mRemoteQueries[i].age \in 0 .. MaxRemoteQueryAge
    BY Ages DEF TypeInv
  <2>2. ASSUME NEW q \in RemoteQuery
        PROVE  Aged(q).age = IF q.age < MaxRemoteQueryAge THEN q.age + 1 ELSE q.age
    BY DEF Aged, RemoteQuery
  <2>3. /\ DOMAIN mRemoteQueries' = DOMAIN mRemoteQueries
        /\ \A i \in DOMAIN mRemoteQueries : mRemoteQueries'[i] = Aged(mRemoteQueries[i])
    BY <1>4 DEF Tick
  <2> QED
    BY <2>1, <2>2, <2>3, NodeAssumption DEF OldestFirst
<1>5. CASE mRemoteQueries' = <<>>
  BY <1>5 DEF OldestFirst
<1>6. CASE UNCHANGED mRemoteQueries
  BY <1>6 DEF OldestFirst
<1> QED
  BY <1>1, <1>2, <1>3, <1>4, <1>5, <1>6, OnlyTheseQueue

\* In the order of their age, all that is left behind one that is fresh is fresh.
LEMMA RestIsFresh ==
    ASSUME TypeInv, OldestFirst, [NodeNext]_nodeVars, pc = "remote", pc' = "stale",
           NEW i \in DOMAIN mRemoteQueries'
    PROVE  Fresh(mRemoteQueries'[i])
<1>1. processRemoteQuery
  <2> USE DEF turn
  <2>1. ~ recvPkt
    BY DEF recvPkt, dropPkt, msgin_ping, msgin_pong, msgin_find_node, msgin_get_hash,
           msgin_reply_find_node, msgin_ignored, msgin_ask_myip, msgin_reply_ask_myip, Receive
  <2>2. ~ Environment
    BY DEF Environment, Calls, incomingMsg, addQuery, clearQuery, shutdownNode, restartNode, Crash, Tick
  <2>3. ~ UNCHANGED nodeVars
    BY DEF nodeVars
  <2> QED
    BY <2>1, <2>2, <2>3
       DEF NodeNext, DhtThread, iterationOff, beginTurn, updateStore, storeWritten, allReceived,
           pingPotential, allPinged, askQuery, allAsked, pingOutOfDate, endTurn, tick
<1>2. mRemoteQueries' # <<>>
  OBVIOUS
<1>3. PICK k \in DOMAIN mRemoteQueries :
        /\ IsNext(k)
        /\ mRemoteQueries' = SubSeq(mRemoteQueries, k + 1, Len(mRemoteQueries))
  BY <1>1, <1>2 DEF processRemoteQuery
<1>4. /\ mRemoteQueries \in Seq(RemoteQuery)
      /\ \A j \in DOMAIN mRemoteQueries : mRemoteQueries[j].age \in 0 .. MaxRemoteQueryAge
  BY Ages DEF TypeInv
<1>5. /\ k + i \in DOMAIN mRemoteQueries /\ k <= k + i
      /\ mRemoteQueries'[i] = mRemoteQueries[k + i]
  BY <1>3, <1>4
<1>6. mRemoteQueries[k + i].age <= mRemoteQueries[k].age
  BY <1>4, <1>5 DEF OldestFirst
<1>7. mRemoteQueries[k].age < MaxRemoteQueryAge
  BY <1>3 DEF IsNext, Fresh
<1>8. mRemoteQueries[k].age \in Nat /\ mRemoteQueries[k + i].age \in Nat
  BY <1>5, Ages DEF TypeInv
<1>9. mRemoteQueries[k + i].age < MaxRemoteQueryAge
  BY <1>6, <1>7, <1>8, NodeAssumption
<1> QED
  BY <1>5, <1>9 DEF Fresh

-----------------------------------------------------------------------------
(***************************************************************************)
(* Stop and start.                                                         *)
(***************************************************************************)
LEMMA OffStep ==
    ASSUME OffKeepsNothing, [NodeNext]_nodeVars
    PROVE  OffKeepsNothing'
<1> USE DEF turn, questions, peers, file, handshake
<1>1. CASE DhtThread
  <2>1. UNCHANGED mode
    BY <1>1 DEF DhtThread, recvPkt, dropPkt, msgin_ping, msgin_pong, msgin_find_node,
                msgin_get_hash, msgin_reply_find_node, msgin_ignored, msgin_ask_myip,
                msgin_reply_ask_myip, Receive, iterationOff, beginTurn, updateStore,
                storeWritten, allReceived, pingPotential, allPinged, askQuery, allAsked,
                processRemoteQuery, pingOutOfDate, endTurn, tick
  <2>2. CASE mode = "OFF"
    <3>1. iterationOff
      BY <1>1, <2>2
         DEF OffKeepsNothing, DhtThread, recvPkt, dropPkt, msgin_ping, msgin_pong,
             msgin_find_node, msgin_get_hash, msgin_reply_find_node, msgin_ignored,
             msgin_ask_myip, msgin_reply_ask_myip, Receive, beginTurn, updateStore,
             storeWritten, allReceived, pingPotential, allPinged, askQuery, allAsked,
             processRemoteQuery, pingOutOfDate, endTurn, tick
    <3> QED
      BY <3>1 DEF OffKeepsNothing, iterationOff
  <2> QED
    BY <2>1, <2>2 DEF OffKeepsNothing
<1>2. ASSUME NEW dgram, incomingMsg(dgram) PROVE OffKeepsNothing'
  BY <1>2 DEF OffKeepsNothing, incomingMsg
<1>3. ASSUME NEW id, addQuery(id) PROVE OffKeepsNothing'
  BY <1>3 DEF OffKeepsNothing, addQuery
<1>4. ASSUME NEW id, clearQuery(id) PROVE OffKeepsNothing'
  <2>1. UNCHANGED mode
    BY <1>4 DEF clearQuery
  <2>2. ASSUME mode = "OFF" PROVE mLocalQueries' = <<>>
    <3> DEFINE kept == {i \in DOMAIN mLocalQueries : mLocalQueries[i] # id}
    <3>1. mLocalQueries = <<>>
      BY <2>2 DEF OffKeepsNothing
    <3>2. mLocalQueries' = Kept(mLocalQueries, kept)
      BY <1>4 DEF clearQuery
    <3>3. kept = {}
      BY <3>1
    <3>4. Cardinality(kept) = 0
      BY <3>3, FS_EmptySet
    <3>5. mLocalQueries' = [n \in 1 .. 0 |-> mLocalQueries[Nth(kept, n)]]
      BY <3>2, <3>4 DEF Kept
    <3> HIDE DEF kept
    <3> QED
      BY <3>5
  <2> QED
    BY <1>4, <2>1, <2>2 DEF OffKeepsNothing, clearQuery
<1>5. CASE shutdownNode
  BY <1>5 DEF OffKeepsNothing, shutdownNode, ForgetQuestions
<1>6. CASE restartNode
  BY <1>6 DEF OffKeepsNothing, restartNode
<1>7. CASE Crash
  BY <1>7 DEF OffKeepsNothing, Crash
<1>8. CASE Tick
  BY <1>8 DEF OffKeepsNothing, Tick
<1>9. CASE UNCHANGED nodeVars
  BY <1>9 DEF OffKeepsNothing, nodeVars
<1> QED
  BY <1>1, <1>2, <1>3, <1>4, <1>5, <1>6, <1>7, <1>8, <1>9 DEF NodeNext, Environment, Calls

-----------------------------------------------------------------------------
(***************************************************************************)
(* The store and its file.  Both stay within the limit, since each is only *)
(* ever filled from the other or by addStore; and what is being written is *)
(* enough, since nothing changes the store between fopen and fclose.       *)
(***************************************************************************)
StoreBounded == Cardinality(mStore) <= MaxEntries /\ Cardinality(mStoreFile) <= MaxEntries

EnoughIsWritten == pc = "write" => EnoughToSave

\* A store stays within its limit.
LEMMA AddWithinLimit ==
    ASSUME NEW store \in SUBSET Addrs, Cardinality(store) <= MaxEntries, NEW a
    PROVE  Cardinality(addStore(store, a)) <= MaxEntries
<1>1. IsFiniteSet(store) /\ Cardinality(store) \in Nat
  BY NodeAssumption, FS_Subset, FS_CardinalityType
<1>2. /\ a \in store => Cardinality(store \cup {a}) = Cardinality(store)
      /\ a \notin store => Cardinality(store \cup {a}) = Cardinality(store) + 1
  BY <1>1, FS_AddElement
<1> QED
  BY <1>1, <1>2, NodeAssumption DEF addStore

\* How the store may change, and how its file may.
LEMMA StoreChanges ==
    ASSUME [NodeNext]_nodeVars
    PROVE  \/ UNCHANGED mStore
           \/ pc = "recv" /\ pc' = "recv" /\ \E a : mStore' = addStore(mStore, a)
           \/ shutdownNode \/ restartNode \/ Crash
<1> USE DEF turn, questions, peers, file, handshake
<1>1. CASE recvPkt
  BY <1>1 DEF recvPkt, dropPkt, msgin_ping, msgin_pong, msgin_find_node, msgin_get_hash,
              msgin_reply_find_node, msgin_ignored, msgin_ask_myip, msgin_reply_ask_myip,
              Receive, addPeer
<1>2. CASE DhtThread /\ ~ recvPkt
  BY <1>2 DEF DhtThread, iterationOff, beginTurn, updateStore, storeWritten, allReceived,
              pingPotential, allPinged, askQuery, allAsked, processRemoteQuery, pingOutOfDate,
              endTurn, tick
<1>3. CASE Environment
  BY <1>3 DEF Environment, Calls, incomingMsg, addQuery, clearQuery, Tick
<1>4. CASE UNCHANGED nodeVars
  BY <1>4 DEF nodeVars
<1> QED
  BY <1>1, <1>2, <1>3, <1>4 DEF NodeNext

LEMMA FileChanges ==
    ASSUME [NodeNext]_nodeVars
    PROVE  \/ UNCHANGED file /\ (pc = "write" <=> pc' = "write")
           \/ updateStore \/ storeWritten \/ Crash
<1> USE DEF turn, questions, peers, file, handshake
<1>1. CASE recvPkt
  BY <1>1 DEF recvPkt, dropPkt, msgin_ping, msgin_pong, msgin_find_node, msgin_get_hash,
              msgin_reply_find_node, msgin_ignored, msgin_ask_myip, msgin_reply_ask_myip,
              Receive
<1>2. CASE DhtThread /\ ~ recvPkt
  BY <1>2 DEF DhtThread, iterationOff, beginTurn, allReceived,
              pingPotential, allPinged, askQuery, allAsked, processRemoteQuery, pingOutOfDate,
              endTurn, tick
<1>3. CASE Environment
  BY <1>3 DEF Environment, Calls, incomingMsg, addQuery, clearQuery, shutdownNode, restartNode, Tick
<1>4. CASE UNCHANGED nodeVars
  BY <1>4 DEF nodeVars
<1> QED
  BY <1>1, <1>2, <1>3, <1>4 DEF NodeNext

FileInv == StoreBounded /\ EnoughIsWritten /\ FileWorthReading

LEMMA FileStep ==
    ASSUME TypeInv, FileInv, [NodeNext]_nodeVars
    PROVE  FileInv'
<1> USE DEF FileInv
<1>1. Cardinality(mStore') <= MaxEntries
  <2>1. ASSUME NEW a, mStore' = addStore(mStore, a) PROVE Cardinality(mStore') <= MaxEntries
    BY <2>1, AddWithinLimit DEF StoreBounded, TypeInv, NodeTypeOK
  <2>2. CASE UNCHANGED mStore
    BY <2>2 DEF StoreBounded
  <2>3. CASE shutdownNode
    BY <2>3, NodeAssumption, FS_EmptySet DEF shutdownNode
  <2>4. CASE restartNode
    BY <2>4 DEF restartNode, StoreBounded
  <2>5. CASE Crash
    <3>1. CASE pc = "write"
      <4>1. mStore' \in Cut(mStore) /\ mStore \in SUBSET Addrs
        BY <2>5, <3>1 DEF Crash, TypeInv, NodeTypeOK
      <4>2. Cardinality(mStore') <= Cardinality(mStore)
        BY <4>1, CutFiles
      <4>3. Cardinality(mStore) \in Nat /\ Cardinality(mStore') \in Nat
        BY <4>1, CutFiles, NodeAssumption, FS_Subset, FS_CardinalityType
      <4> QED
        BY <4>2, <4>3, NodeAssumption DEF StoreBounded
    <3>2. CASE pc # "write"
      BY <2>5, <3>2 DEF Crash, StoreBounded
    <3> QED
      BY <3>1, <3>2
  <2> QED
    BY <2>1, <2>2, <2>3, <2>4, <2>5, StoreChanges
<1>2. /\ Cardinality(mStoreFile') <= MaxEntries
      /\ EnoughIsWritten'
      /\ FileWorthReading'
  <2>1. CASE UNCHANGED file /\ (pc = "write" <=> pc' = "write")
    <3>1. pc = "write" => UNCHANGED mStore
      BY <2>1, StoreChanges DEF shutdownNode, restartNode, Crash
    <3> QED
      BY <2>1, <3>1 DEF file, StoreBounded, EnoughIsWritten, EnoughToSave, FileWorthReading
  <2>2. CASE updateStore
    <3>1. UNCHANGED mStore
      BY <2>2 DEF updateStore, peers
    <3> QED
      BY <2>2, <3>1, NodeAssumption, FS_EmptySet
         DEF updateStore, EnoughIsWritten, EnoughToSave, FileWorthReading
  <2>3. CASE storeWritten
    BY <2>3 DEF storeWritten, StoreBounded, EnoughIsWritten, EnoughToSave, FileWorthReading
  <2>4. CASE Crash
    <3>1. mStoreFile' = mStore' /\ pc' = "idle"
      BY <2>4 DEF Crash
    <3>2. ~ torn' => pc # "write" /\ ~ torn /\ mStoreFile' = mStoreFile
      BY <2>4 DEF Crash
    <3> QED
      BY <1>1, <3>1, <3>2 DEF EnoughIsWritten, FileWorthReading
  <2> QED
    BY <2>1, <2>2, <2>3, <2>4, FileChanges
<1> QED
  BY <1>1, <1>2 DEF StoreBounded

-----------------------------------------------------------------------------
(***************************************************************************)
(* The invariant, and what follows from it.                                *)
(***************************************************************************)
NodeInv == TypeInv /\ OldestFirst /\ OffKeepsNothing /\ FileInv

LEMMA NodeInitEstablishes == NodeInit => NodeInv
<1> SUFFICES ASSUME NodeInit PROVE NodeInv
  OBVIOUS
<1>1. TypeInv
  BY TypeInit
<1>2. OldestFirst /\ OffKeepsNothing
  BY DEF NodeInit, OldestFirst, OffKeepsNothing
<1>3. FileInv
  BY NodeAssumption DEF NodeInit, FileInv, StoreBounded, EnoughIsWritten, FileWorthReading
<1> QED
  BY <1>1, <1>2, <1>3 DEF NodeInv

LEMMA NodeStep == NodeInv /\ [NodeNext]_nodeVars => NodeInv'
BY TypeStep, QueueStep, OffStep, FileStep DEF NodeInv

\* The types, the order of the questions that wait, what a stopped node has, and the limits
\* of the store and its file, together.
THEOREM NodeInvariant == NodeSpec => []NodeInv
BY NodeInitEstablishes, NodeStep, PTL DEF NodeSpec

\* Every variable keeps its type, whatever comes in: what a node sends is a message that
\* others can read, and the limits on what a turn sends hold.
THEOREM NodeTypeCorrect == NodeSpec => []NodeTypeOK
<1>1. NodeInv => NodeTypeOK
  BY DEF NodeInv, TypeInv
<1> QED
  BY <1>1, NodeInvariant, PTL

\* What is too old has been discarded, wherever it waited, when a turn has answered a
\* question (processRemoteQuery, bdnode.cc:697).
THEOREM NothingStaleWaits == NodeSpec => OnlyFreshWait
<1>1. NodeInv /\ [NodeNext]_nodeVars =>
        [pc = "remote" /\ pc' = "stale" =>
           \A i \in DOMAIN mRemoteQueries' : Fresh(mRemoteQueries'[i])]_nodeVars
  BY RestIsFresh DEF NodeInv
<1> QED
  BY <1>1, NodeInvariant, PTL DEF NodeSpec, OnlyFreshWait

\* A stopped node has nothing left to ask, to answer, to ping or to send (shutdownNode,
\* bdnode.cc:117).
THEOREM StopForgets == NodeSpec => []OffKeepsNothing
<1>1. NodeInv => OffKeepsNothing
  BY DEF NodeInv
<1> QED
  BY <1>1, NodeInvariant, PTL

\* The file is the one of the installation or holds enough peers, unless the process died
\* while it wrote (writeStore, bdstore.cc:155).
THEOREM FilesAreWorthReading == NodeSpec => []FileWorthReading
<1>1. NodeInv => FileWorthReading
  BY DEF NodeInv, FileInv
<1> QED
  BY <1>1, NodeInvariant, PTL

-----------------------------------------------------------------------------
(***************************************************************************)
(* The tunnel.  Both invariants are about what newConn adds to the         *)
(* requests: a listing of those peers that have none, each of them once.   *)
(***************************************************************************)
TunnelInv == TunnelTypeOK /\ TunnelOnce

\* The requests of peers that have none, after those there are.
LEMMA AddedRequests ==
    ASSUME TunnelTypeOK, TunnelOnce, NEW added \in SUBSET TunnelPeers, addTunnel(added)
    PROVE  mTunnelRequests' \in Seq(TunnelPeers) /\ TunnelOnce'
<1> DEFINE old == mTunnelRequests
           rest == added \ ToSet(old)
           new == SetToSeq(rest)
<1>1. IsFiniteSet(rest)
  BY TunnelAssumption, FS_Subset
<1>2. new \in Seq(TunnelPeers) /\ new \in Seq(rest) /\ IsInjective(new)
  BY <1>1, SetToSeqProperties
<1>3. old \in Seq(TunnelPeers) /\ \A i \in DOMAIN old : old[i] \in ToSet(old)
  BY DEF TunnelTypeOK, ToSet
<1>4. mTunnelRequests' = old \o new
  BY DEF addTunnel
<1> HIDE DEF new, old
<1>5. /\ old \o new \in Seq(TunnelPeers)
      /\ Len(old \o new) = Len(old) + Len(new)
      /\ \A j \in 1 .. Len(old) + Len(new) :
           (old \o new)[j] = IF j <= Len(old) THEN old[j] ELSE new[j - Len(old)]
  BY <1>2, <1>3, ConcatElements
<1>6. TunnelOnce'
  <2>0. DOMAIN mTunnelRequests' = 1 .. Len(old) + Len(new)
    BY <1>4, <1>5
  <2> SUFFICES ASSUME NEW i \in 1 .. Len(old) + Len(new), NEW j \in 1 .. Len(old) + Len(new),
                      (old \o new)[i] = (old \o new)[j], i < j
               PROVE  FALSE
    BY <1>4, <2>0 DEF TunnelOnce
  <2>1. CASE j <= Len(old)
    <3>1. old[i] = old[j] /\ i \in DOMAIN old /\ j \in DOMAIN old
      BY <1>3, <1>5, <2>1
    <3> QED
      BY <3>1 DEF TunnelOnce, old
  <2>2. CASE i > Len(old)
    <3>1. /\ new[i - Len(old)] = new[j - Len(old)]
          /\ i - Len(old) \in DOMAIN new /\ j - Len(old) \in DOMAIN new
      BY <1>2, <1>3, <1>5, <2>2
    <3>2. i - Len(old) = j - Len(old)
      BY <3>1, <1>2 DEF IsInjective
    <3> QED
      BY <3>2, <1>3
  <2>3. CASE i <= Len(old) /\ j > Len(old)
    <3>1. /\ old[i] = new[j - Len(old)]
          /\ i \in DOMAIN old /\ j - Len(old) \in DOMAIN new
      BY <1>2, <1>3, <1>5, <2>3
    <3>2. new[j - Len(old)] \in rest
      BY <3>1, <1>2
    <3> QED
      BY <3>1, <3>2, <1>3
  <2> QED
    BY <1>3, <2>1, <2>2, <2>3
<1> QED
  BY <1>4, <1>5, <1>6

LEMMA TunnelInitEstablishes == TunnelInit => TunnelInv
BY TunnelAssumption DEF TunnelInit, TunnelInv, TunnelTypeOK, TunnelOnce, MaxTunnelAge

\* Only newConn adds requests, and only the end of the process takes them away.
LEMMA OnlyNewConn ==
    ASSUME [TunnelNext]_tunnelVars, ~ newConn, ~ tunnelLost
    PROVE  UNCHANGED mTunnelRequests
BY DEF TunnelNext, TunnelRuns, tunnelVars, clock, wanted, Application, TunnelThread,
       connectNode, disconnectNode, startTunnel, stopTunnel, tunnelOff, startup, dropAll, replyNewConn,
       ignoreMsg, askAll, tunnelTick, tunnelTime, tunnelMsgIn

\* The application changes the peers, time passes and messages come in.
LEMMA OutsideKeeps ==
    ASSUME TunnelTypeOK,
           Application \/ tunnelTime \/ \E dgram \in TunnelDatagrams : tunnelMsgIn(dgram)
    PROVE  TunnelTypeOK'
<1> USE TunnelAssumption DEF TunnelTypeOK, clock, wanted, MaxTunnelAge
<1>1. ASSUME NEW id \in TunnelPeers, connectNode(id) PROVE TunnelTypeOK'
  BY <1>1 DEF connectNode
<1>2. ASSUME NEW id \in TunnelPeers, disconnectNode(id) PROVE TunnelTypeOK'
  BY <1>2 DEF disconnectNode
<1>3. CASE startTunnel
  BY <1>3 DEF startTunnel
<1>4. CASE stopTunnel
  BY <1>4 DEF stopTunnel
<1>5. CASE tunnelTime
  BY <1>5 DEF tunnelTime
<1>6. ASSUME NEW dgram \in TunnelDatagrams, tunnelMsgIn(dgram) PROVE TunnelTypeOK'
  BY <1>6 DEF tunnelMsgIn
<1> QED
  BY <1>1, <1>2, <1>3, <1>4, <1>5, <1>6 DEF Application

LEMMA ThreadKeeps ==
    ASSUME TunnelTypeOK, TunnelThread, mTunnelRequests' \in Seq(TunnelPeers)
    PROVE  TunnelTypeOK'
<1> USE TunnelAssumption DEF TunnelTypeOK, clock, wanted, MaxTunnelAge
<1>1. CASE tunnelOff
  BY <1>1 DEF tunnelOff, BeginTurn
<1>2. CASE startup
  BY <1>2 DEF startup, BeginTurn, TimerUnless
<1>3. CASE newConn
  BY <1>3 DEF newConn, BeginTurn, TimerUnless
<1>4. CASE dropAll
  BY <1>4 DEF dropAll
<1>5. CASE replyNewConn
  <2>1. Head(tIncomingMsgs) \in TunnelDatagrams /\ IsNewConn(Head(tIncomingMsgs))
    BY <1>5 DEF replyNewConn
  <2>2. Answer(Head(tIncomingMsgs)) \in Outgoing
    BY <2>1 DEF Outgoing
  <2> QED
    BY <1>5, <2>2 DEF replyNewConn
<1>6. CASE ignoreMsg
  BY <1>6 DEF ignoreMsg
<1>7. CASE askAll
  <2>1. PICK ids \in [DOMAIN mTunnelRequests -> TunnelTransIds] :
          tOutgoingMsgs' = tOutgoingMsgs \o
            [i \in DOMAIN mTunnelRequests |-> Question(mTunnelRequests[i], ids[i])]
    BY <1>7 DEF askAll
  <2>2. \A i \in DOMAIN mTunnelRequests :
          Question(mTunnelRequests[i], ids[i]) \in Outgoing
    BY DEF Outgoing
  <2>3. [i \in DOMAIN mTunnelRequests |-> Question(mTunnelRequests[i], ids[i])]
          \in Seq(Outgoing)
    <3> DEFINE n == Len(mTunnelRequests)
               asked == [i \in 1 .. n |-> Question(mTunnelRequests[i], ids[i])]
    <3>1. n \in Nat /\ DOMAIN mTunnelRequests = 1 .. n
      OBVIOUS
    <3>2. asked \in [1 .. n -> Outgoing]
      BY <2>2, <3>1
    <3>3. asked \in Seq(Outgoing)
      <4> HIDE DEF asked
      <4> QED
        BY <3>1, <3>2, FunctionToSeq
    <3> QED
      BY <3>1, <3>3
  <2>4. tOutgoingMsgs' \in Seq(Outgoing)
    BY <2>1, <2>3
  <2> QED
    BY <1>7, <2>4 DEF askAll
<1>8. CASE tunnelTick
  <2>1. SubSeq(tOutgoingMsgs, TUNNEL_MAX_MSG_PER_TICK + 1, Len(tOutgoingMsgs)) \in Seq(Outgoing)
    OBVIOUS
  <2> QED
    BY <1>8, <2>1 DEF tunnelTick
<1> QED
  BY <1>1, <1>2, <1>3, <1>4, <1>5, <1>6, <1>7, <1>8 DEF TunnelThread

LEMMA TunnelStep == TunnelInv /\ [TunnelNext]_tunnelVars => TunnelInv'
<1> SUFFICES ASSUME TunnelInv, [TunnelNext]_tunnelVars PROVE TunnelInv'
  OBVIOUS
<1>1. mTunnelRequests' \in Seq(TunnelPeers) /\ TunnelOnce'
  <2>1. CASE newConn
    <3>1. CASE addTunnel(DOMAIN mTunnelPeers)
      BY <3>1, AddedRequests DEF TunnelInv, TunnelTypeOK
    <3>2. CASE UNCHANGED mTunnelRequests
      BY <3>2 DEF TunnelInv, TunnelTypeOK, TunnelOnce
    <3> QED
      BY <2>1, <3>1, <3>2 DEF newConn
  <2>2. CASE tunnelLost
    BY <2>2 DEF tunnelLost, TunnelOnce
  <2>3. CASE ~ newConn /\ ~ tunnelLost
    BY <2>3, OnlyNewConn DEF TunnelInv, TunnelTypeOK, TunnelOnce
  <2> QED
    BY <2>1, <2>2, <2>3
<1>2. TunnelTypeOK'
  <2>1. CASE TunnelThread
    BY <2>1, <1>1, ThreadKeeps DEF TunnelInv
  <2>2. CASE Application \/ tunnelTime \/ \E dgram \in TunnelDatagrams : tunnelMsgIn(dgram)
    BY <2>2, OutsideKeeps DEF TunnelInv
  <2>3. CASE UNCHANGED tunnelVars
    BY <2>3 DEF TunnelInv, TunnelTypeOK, tunnelVars, clock, wanted
  <2>4. CASE tunnelLost
    BY <2>4, TunnelAssumption DEF tunnelLost, TunnelTypeOK, MaxTunnelAge
  <2> QED
    BY <2>1, <2>2, <2>3, <2>4 DEF TunnelNext, TunnelRuns
<1> QED
  BY <1>1, <1>2 DEF TunnelInv

-----------------------------------------------------------------------------
\* The tunnel keeps its types, and sends nothing but questions to the peers it was told to
\* connect to and answers to what came in.
THEOREM TunnelTypeCorrect == TunnelSpec => []TunnelTypeOK
<1>1. TunnelInv => TunnelTypeOK
  BY DEF TunnelInv
<1> QED
  BY <1>1, TunnelInitEstablishes, TunnelStep, PTL DEF TunnelSpec

\* No peer is asked twice in a turn, however often the tunnel goes round, is stopped and
\* started, and peers come and go (addTunnel, bdtunnelnode.cc:146).
THEOREM AskedOnce == TunnelSpec => []TunnelOnce
<1>1. TunnelInv => TunnelOnce
  BY DEF TunnelInv
<1> QED
  BY <1>1, TunnelInitEstablishes, TunnelStep, PTL DEF TunnelSpec

-----------------------------------------------------------------------------
(***************************************************************************)
(* The hash space.  A call of Modify changes the entries under one id, and *)
(* there an entry vanishes or changes only for an entry that has the same  *)
(* secret.  A search with the greatest age shows every entry there is, as  *)
(* none was stored before time 0.                                          *)
(***************************************************************************)
\* The entries under a key.
Under(set, key) == {set[i] : i \in {j \in DOMAIN set : set[j].key = key}}

\* A search that takes entries of every age finds all that are under the key.
LEMMA AllFound ==
    ASSUME NEW set \in Seq(Stored), NEW key, NEW now \in 0 .. MaxHashTime
    PROVE  ToSet(Kept(set, {i \in DOMAIN set :
                              set[i].key = key /\ now - set[i].mStoreTS < MaxHashTime + 1}))
             = Under(set, key)
<1> DEFINE young == {i \in DOMAIN set :
                       set[i].key = key /\ now - set[i].mStoreTS < MaxHashTime + 1}
           all == {i \in DOMAIN set : set[i].key = key}
<1>1. young = all
  <2>1. ASSUME NEW i \in DOMAIN set PROVE now - set[i].mStoreTS < MaxHashTime + 1
    <3>1. set[i] \in Stored
      BY <2>1
    <3>2. set[i].mStoreTS \in 0 .. MaxHashTime
      BY <3>1 DEF Stored
    <3> QED
      BY <3>2, HashAssumption
  <2> QED
    BY <2>1
<1>2. all \in SUBSET DOMAIN set
  OBVIOUS
<1>3. ToSet(Kept(set, all)) = {set[i] : i \in all}
  <2> HIDE DEF all
  <2> QED
    BY <1>2, KeptElements
<1> QED
  BY <1>1, <1>3 DEF Under

LEMMA FoundNow ==
    ASSUME HashTypeOK, NEW id, NEW key
    PROVE  Found(id, key) = Under(EntriesOf(id), key)
<1>1. EntriesOf(id) \in Seq(Stored)
  BY DEF HashTypeOK, EntriesOf
<1>2. hashNow \in 0 .. MaxHashTime
  BY DEF HashTypeOK
<1> QED
  BY <1>1, <1>2, AllFound DEF Found, search

LEMMA FoundThen ==
    ASSUME HashTypeOK', NEW id, NEW key
    PROVE  Found(id, key)' = Under(EntriesOf(id)', key)
<1>1. EntriesOf(id)' \in Seq(Stored)
  BY DEF HashTypeOK, EntriesOf
<1>2. hashNow' \in 0 .. MaxHashTime
  BY DEF HashTypeOK
<1> QED
  BY <1>1, <1>2, AllFound DEF Found, search

\* What becomes of an entry when one adds this one: it stays, or it has the same value and
\* the same secret, and without a secret its time only grows.
LEMMA AddedEntries ==
    ASSUME NEW set \in Seq(Stored), NEW key \in Keys, NEW entry \in HashEntry,
           hashNow \in 0 .. MaxHashTime
    PROVE  /\ AddEntry(set, key, entry) \in Seq(Stored)
           /\ \A any : \A old \in Under(set, any) :
                \/ old \in Under(AddEntry(set, key, entry), any)
                \/ /\ old.mSecret = entry.mSecret
                   /\ old.mSecret = NoSecret => LivesOn(old, Under(AddEntry(set, key, entry), any))
<1> DEFINE updated == {i \in Same(set, key, entry) : MayUpdate(set[i], entry)}
           renew(old) == [old EXCEPT !.mStoreTS = hashNow, !.mLifetime = entry.mLifetime]
           renewed == [i \in DOMAIN set |-> IF i \in updated THEN renew(set[i]) ELSE set[i]]
           new == [key |-> key, mValue |-> entry.mValue, mSecret |-> entry.mSecret,
                   mLifetime |-> entry.mLifetime, mStoreTS |-> hashNow]
<1>1. CASE updated # {}
  <2>1. AddEntry(set, key, entry) = renewed
    BY <1>1 DEF AddEntry
  <2>2. ASSUME NEW i \in DOMAIN set PROVE renew(set[i]) \in Stored /\ set[i] \in Stored
    <3>1. set[i] \in Stored
      BY <2>2
    <3> QED
      BY <3>1 DEF Stored, HashEntry
  <2>3. renewed \in Seq(Stored)
    <3>1. Len(set) \in Nat /\ DOMAIN set = 1 .. Len(set)
      OBVIOUS
    <3>2. renewed \in [1 .. Len(set) -> Stored]
      BY <2>2, <3>1
    <3> HIDE DEF renewed
    <3> QED
      BY <3>1, <3>2, FunctionToSeq
  <2>4. ASSUME NEW any, NEW i \in DOMAIN set, set[i].key = any
        PROVE  \/ set[i] \in Under(renewed, any)
               \/ /\ set[i].mSecret = entry.mSecret
                  /\ set[i].mSecret = NoSecret => LivesOn(set[i], Under(renewed, any))
    <3>1. DOMAIN renewed = DOMAIN set
      OBVIOUS
    <3>2. CASE i \notin updated
      <4>1. renewed[i] = set[i]
        BY <3>2
      <4> QED
        BY <2>4, <3>1, <4>1 DEF Under
    <3>3. CASE i \in updated
      <4>1. renewed[i] = renew(set[i])
        BY <3>3
      <4>2. /\ renew(set[i]).key = any /\ renew(set[i]).mValue = set[i].mValue
            /\ renew(set[i]).mSecret = set[i].mSecret
            /\ KillTime(renew(set[i])) = entry.mLifetime + hashNow
        BY <2>4 DEF Stored, KillTime
      <4>3. renew(set[i]) \in Under(renewed, any)
        BY <3>1, <4>1, <4>2 DEF Under
      <4>4. set[i].mSecret = entry.mSecret
        BY <3>3 DEF Same
      <4>5. set[i].mSecret = NoSecret => entry.mLifetime + hashNow > KillTime(set[i])
        BY <3>3 DEF MayUpdate
      <4>6. KillTime(set[i]) \in Nat /\ entry.mLifetime + hashNow \in Nat
        <5>1. set[i].mLifetime \in Lifetimes /\ set[i].mStoreTS \in 0 .. MaxHashTime
          BY <2>2 DEF Stored
        <5>2. entry.mLifetime \in Lifetimes
          BY DEF HashEntry
        <5>3. Lifetimes \subseteq Nat /\ 0 .. MaxHashTime \subseteq Nat
          BY HashAssumption
        <5>4. /\ set[i].mLifetime \in Nat /\ set[i].mStoreTS \in Nat
              /\ entry.mLifetime \in Nat /\ hashNow \in Nat
          BY <5>1, <5>2, <5>3
        <5> QED
          BY <5>4 DEF KillTime
      <4>7. set[i].mSecret = NoSecret => KillTime(renew(set[i])) >= KillTime(set[i])
        BY <4>2, <4>5, <4>6
      <4> QED
        BY <4>2, <4>3, <4>4, <4>7 DEF LivesOn
    <3> QED
      BY <3>2, <3>3
  <2> HIDE DEF renewed
  <2>5. \A any : \A old \in Under(set, any) :
          \/ old \in Under(renewed, any)
          \/ /\ old.mSecret = entry.mSecret
             /\ old.mSecret = NoSecret => LivesOn(old, Under(renewed, any))
    <3> SUFFICES ASSUME NEW any, NEW old \in Under(set, any)
                 PROVE  \/ old \in Under(renewed, any)
                        \/ /\ old.mSecret = entry.mSecret
                           /\ old.mSecret = NoSecret => LivesOn(old, Under(renewed, any))
      OBVIOUS
    <3>1. PICK i \in DOMAIN set : set[i].key = any /\ old = set[i]
      BY DEF Under
    <3> QED
      BY <2>4, <3>1
  <2> QED
    BY <2>1, <2>3, <2>5
<1>2. CASE updated = {}
  <2>1. AddEntry(set, key, entry) = Append(set, new)
    BY <1>2 DEF AddEntry
  <2>2. new \in Stored
    BY DEF Stored, HashEntry
  <2>3. /\ Append(set, new) \in Seq(Stored)
        /\ \A i \in DOMAIN set : i \in DOMAIN Append(set, new) /\ Append(set, new)[i] = set[i]
    BY <2>2
  <2>4. ASSUME NEW any, NEW old \in Under(set, any)
        PROVE  old \in Under(Append(set, new), any)
    <3> HIDE DEF new
    <3> QED
      BY <2>3, <2>4 DEF Under
  <2> QED
    BY <2>1, <2>3, <2>4
<1> QED
  BY <1>1, <1>2

\* Of the entries under an id, deleting this one takes at most one away, which has the same
\* secret and not the empty one.
LEMMA DeletedEntries ==
    ASSUME NEW set \in Seq(Stored), NEW key, NEW entry
    PROVE  /\ DeleteEntry(set, key, entry) \in Seq(Stored)
           /\ \A any : \A old \in Under(set, any) :
                \/ old \in Under(DeleteEntry(set, key, entry), any)
                \/ old.mSecret = entry.mSecret /\ old.mSecret # NoSecret
<1> DEFINE same == {i \in Same(set, key, entry) : set[i].mSecret # NoSecret}
           first == CHOOSE i \in same : \A j \in same : i <= j
           rest == RemoveAt(set, first)
<1>1. CASE same = {}
  BY <1>1 DEF DeleteEntry
<1>2. CASE same # {}
  <2>1. Len(set) \in Nat /\ same \subseteq 1 .. Len(set)
    BY DEF Same
  <2>2. \E i \in same : \A j \in same : i <= j
    <3>1. IsFiniteSet(same) /\ same \subseteq Nat
      <4>1. IsFiniteSet(1 .. Len(set)) /\ 1 .. Len(set) \subseteq Nat
        BY <2>1, FS_Interval
      <4> HIDE DEF same
      <4> QED
        BY <2>1, <4>1, FS_Subset
    <3>2. PICK i \in same : TRUE
      BY <1>2
    <3> HIDE DEF same
    <3>3. /\ Cardinality(same) \in Nat
          /\ \A n \in 1 .. Cardinality(same) : Nth(same, n) \in same
          /\ \A j \in same : \E n \in 1 .. Cardinality(same) : Nth(same, n) = j
          /\ \A m, n \in 1 .. Cardinality(same) : m < n => Nth(same, m) < Nth(same, n)
      BY <3>1, NthProperties
    <3>4. 1 \in 1 .. Cardinality(same)
      BY <3>2, <3>3
    <3>5. ASSUME NEW j \in same PROVE Nth(same, 1) <= j
      <4>1. PICK n \in 1 .. Cardinality(same) : Nth(same, n) = j
        BY <3>3
      <4>2. Nth(same, 1) \in Nat /\ j \in Nat
        BY <3>1, <3>3, <3>4
      <4>3. CASE n = 1
        BY <4>1, <4>2, <4>3
      <4>4. CASE n # 1
        <5>1. 1 < n
          BY <4>4
        <5>2. Nth(same, 1) < Nth(same, n)
          BY <3>3, <3>4, <5>1
        <5> QED
          BY <4>1, <4>2, <5>2
      <4> QED
        BY <4>3, <4>4
    <3> QED
      BY <3>3, <3>4, <3>5
  <2>3. first \in same
    <3> HIDE DEF same
    <3> QED
      BY <2>2
  <2>4. /\ first \in 1 .. Len(set)
        /\ set[first].mSecret = entry.mSecret /\ set[first].mSecret # NoSecret
    <3>1. \A i \in same : /\ i \in 1 .. Len(set)
                          /\ set[i].mSecret = entry.mSecret /\ set[i].mSecret # NoSecret
      BY DEF Same
    <3> HIDE DEF first, same
    <3> QED
      BY <2>3, <3>1
  <2>5. DeleteEntry(set, key, entry) = rest
    BY <1>2 DEF DeleteEntry
  <2> HIDE DEF first
  <2>6. /\ rest \in Seq(Stored) /\ Len(rest) = Len(set) - 1
        /\ \A j \in 1 .. Len(set) - 1 : rest[j] = set[IF j < first THEN j ELSE j + 1]
    BY <2>4, RemoveAtProperties
  <2> HIDE DEF rest
  <2>7. ASSUME NEW any, NEW i \in DOMAIN set, set[i].key = any, i # first
        PROVE  set[i] \in Under(rest, any)
    <3>1. i \in 1 .. Len(set) /\ DOMAIN rest = 1 .. Len(set) - 1
      BY <2>6
    <3> DEFINE j == IF i < first THEN i ELSE i - 1
    <3>2. j \in 1 .. Len(set) - 1 /\ (IF j < first THEN j ELSE j + 1) = i
      BY <2>1, <2>4, <2>7, <3>1
    <3> HIDE DEF j
    <3>3. rest[j] = set[i]
      BY <2>6, <3>2
    <3> QED
      BY <2>7, <3>1, <3>2, <3>3 DEF Under
  <2> QED
    BY <2>4, <2>5, <2>6, <2>7 DEF Under
<1> QED
  BY <1>1, <1>2

LEMMA EntriesTypes ==
    ASSUME HashTypeOK, NEW id
    PROVE  EntriesOf(id) \in Seq(Stored)
BY DEF HashTypeOK, EntriesOf

\* After Put only the entries under that id are others.
LEMMA PutEntries ==
    ASSUME NEW id \in HashIds, NEW set \in Seq(Stored), HashTypeOK, Put(id, set),
           UNCHANGED <<hashNow, hung>>
    PROVE  /\ HashTypeOK'
           /\ EntriesOf(id)' = set
           /\ \A other : other # id => EntriesOf(other)' = EntriesOf(other)
<1>1. /\ DOMAIN mHashTable' = DOMAIN mHashTable \cup {id}
      /\ \A i \in DOMAIN mHashTable' : mHashTable'[i] = IF i = id THEN set ELSE mHashTable[i]
  BY DEF Put
<1>2. HashTypeOK'
  BY <1>1 DEF HashTypeOK
<1>3. EntriesOf(id)' = set
  BY <1>1 DEF EntriesOf
<1>4. \A other : other # id => EntriesOf(other)' = EntriesOf(other)
  BY <1>1 DEF EntriesOf
<1> QED
  BY <1>2, <1>3, <1>4

LEMMA HashInitTypes == HashInit => HashTypeOK
<1> SUFFICES ASSUME HashInit PROVE HashTypeOK
  OBVIOUS
<1>1. DOMAIN mHashTable = {}
  BY DEF HashInit
<1>2. hashNow = 0 /\ hung = FALSE
  BY DEF HashInit
<1>3. 0 \in 0 .. MaxHashTime
  BY HashAssumption
<1> QED
  BY <1>1, <1>2, <1>3 DEF HashTypeOK

\* A cleaning leaves sequences of entries, whatever it erases.
LEMMA CleanTypes ==
    ASSUME HashTypeOK, NEW min, NEW max, NEW maxAge, cleanHashSpace(min, max, maxAge)
    PROVE  HashTypeOK'
<1>1. ASSUME NEW set \in Seq(Stored) PROVE cleanupHashSet(set, maxAge) \in Seq(Stored)
  <2> DEFINE kept == {i \in DOMAIN set : ~ Expired(set[i], maxAge)}
  <2>1. kept \in SUBSET DOMAIN set
    OBVIOUS
  <2>2. Kept(set, kept) \in Seq(Stored)
    <3> HIDE DEF kept
    <3> QED
      BY <2>1, KeptProperties
  <2> QED
    BY <2>2 DEF cleanupHashSet
<1> DEFINE eraseList == {id \in DOMAIN mHashTable : id < min \/ max < id}
           erased == {id \in eraseList : \A other \in eraseList : id <= other}
           clean(id) == IF id \in eraseList THEN mHashTable[id]
                        ELSE cleanupHashSet(mHashTable[id], maxAge)
<1>2. /\ mHashTable' = [id \in DOMAIN mHashTable \ erased |-> clean(id)]
      /\ hung' = (eraseList # {}) /\ hashNow' = hashNow
  BY DEF cleanHashSpace
<1>3. \A id \in DOMAIN mHashTable : clean(id) \in Seq(Stored)
  BY <1>1 DEF HashTypeOK
<1> HIDE DEF erased, clean
<1> QED
  BY <1>2, <1>3 DEF HashTypeOK

\* What a call of Modify does, to the entries under any id and key.
LEMMA Modified ==
    ASSUME HashTypeOK, NEW entry \in HashEntry, Modify(entry)
    PROVE  /\ HashTypeOK'
           /\ \A id, key : \A old \in Under(EntriesOf(id), key) :
                \/ old \in Under(EntriesOf(id)', key)
                \/ /\ old.mSecret = entry.mSecret
                   /\ old.mSecret = NoSecret => LivesOn(old, Under(EntriesOf(id)', key))
<1>1. PICK at \in HashIds, under \in Keys :
        addHash(at, under, entry) \/ deleteHash(at, under, entry)
  BY DEF Modify
<1>2. EntriesOf(at) \in Seq(Stored) /\ hashNow \in 0 .. MaxHashTime
  BY EntriesTypes DEF HashTypeOK
<1>3. ASSUME NEW set \in Seq(Stored), Put(at, set), UNCHANGED <<hashNow, hung>>,
             \A key : \A old \in Under(EntriesOf(at), key) :
                \/ old \in Under(set, key)
                \/ /\ old.mSecret = entry.mSecret
                   /\ old.mSecret = NoSecret => LivesOn(old, Under(set, key))
      PROVE  /\ HashTypeOK'
             /\ \A id, key : \A old \in Under(EntriesOf(id), key) :
                  \/ old \in Under(EntriesOf(id)', key)
                  \/ /\ old.mSecret = entry.mSecret
                     /\ old.mSecret = NoSecret => LivesOn(old, Under(EntriesOf(id)', key))
  <2>1. /\ HashTypeOK' /\ EntriesOf(at)' = set
        /\ \A other : other # at => EntriesOf(other)' = EntriesOf(other)
    BY <1>3, PutEntries
  <2>2. ASSUME NEW id, NEW key, NEW old \in Under(EntriesOf(id), key)
        PROVE  \/ old \in Under(EntriesOf(id)', key)
               \/ /\ old.mSecret = entry.mSecret
                  /\ old.mSecret = NoSecret => LivesOn(old, Under(EntriesOf(id)', key))
    <3>1. CASE id = at
      BY <1>3, <2>1, <2>2, <3>1, Zenon
    <3>2. CASE id # at
      BY <2>1, <2>2, <3>2, Zenon
    <3> QED
      BY <3>1, <3>2
  <2> QED
    BY <2>1, <2>2
<1>4. CASE addHash(at, under, entry)
  <2>1. Put(at, AddEntry(EntriesOf(at), under, entry)) /\ UNCHANGED <<hashNow, hung>>
    BY <1>4 DEF addHash
  <2> QED
    BY <1>2, <1>3, <2>1, AddedEntries
<1>5. CASE deleteHash(at, under, entry)
  <2>1. Put(at, DeleteEntry(EntriesOf(at), under, entry)) /\ UNCHANGED <<hashNow, hung>>
    BY <1>5 DEF deleteHash
  <2> QED
    BY <1>2, <1>3, <2>1, DeletedEntries
<1> QED
  BY <1>1, <1>4, <1>5

LEMMA HashStep == HashTypeOK /\ [HashNext]_hashVars => HashTypeOK'
<1> SUFFICES ASSUME HashTypeOK, [HashNext]_hashVars PROVE HashTypeOK'
  OBVIOUS
<1>1. ASSUME NEW id \in HashIds, NEW key \in Keys, NEW entry \in HashEntry,
             addHash(id, key, entry) \/ deleteHash(id, key, entry)
      PROVE  HashTypeOK'
  <2>1. Modify(entry)
    BY <1>1 DEF Modify
  <2> QED
    BY <1>1, <2>1, Modified
<1>2. ASSUME NEW min \in HashIds, NEW max \in HashIds, NEW maxAge \in 0 .. MaxHashTime,
             cleanHashSpace(min, max, maxAge)
      PROVE  HashTypeOK'
  BY <1>2, CleanTypes
<1>3. CASE clearHash \/ HashLost
  BY <1>3 DEF clearHash, HashLost, HashTypeOK
<1>4. CASE HashTime
  <2>1. hashNow' \in 0 .. MaxHashTime
    BY <1>4, HashAssumption DEF HashTime, HashTypeOK
  <2> QED
    BY <1>4, <2>1 DEF HashTime, HashTypeOK
<1>5. CASE UNCHANGED hashVars
  BY <1>5 DEF hashVars, HashTypeOK
<1> QED
  BY <1>1, <1>2, <1>3, <1>4, <1>5 DEF HashNext, HashRuns

\* Under every id there are entries, none of them from the future (bdHashSpace,
\* bdhash.cc:193).
THEOREM HashTypeCorrect == HashSpec => []HashTypeOK
BY HashInitTypes, HashStep, PTL DEF HashSpec

\* An entry that vanishes in a step vanishes for a call that says the secret it has.
LEMMA SecretStep ==
    ASSUME HashTypeOK, HashTypeOK', NEW id, NEW key, NEW old \in Found(id, key) \ Found(id, key)',
           NEW entry \in HashEntry, Modify(entry)
    PROVE  /\ old.mSecret = entry.mSecret
           /\ old.mSecret = NoSecret => LivesOn(old, Found(id, key)')
<1>1. Found(id, key) = Under(EntriesOf(id), key)
  BY FoundNow
<1>2. Found(id, key)' = Under(EntriesOf(id)', key)
  BY FoundThen
<1>3. /\ old \in Under(EntriesOf(id), key) /\ old \notin Under(EntriesOf(id)', key)
  BY <1>1, <1>2
<1>4. /\ old.mSecret = entry.mSecret
      /\ old.mSecret = NoSecret => LivesOn(old, Under(EntriesOf(id)', key))
  BY <1>3, Modified
<1>5. LivesOn(old, Under(EntriesOf(id)', key)) => LivesOn(old, Found(id, key)')
  BY <1>2, Zenon
<1> QED
  BY <1>4, <1>5

\* Nobody changes or deletes an entry that has a secret without saying that secret
\* (bdHashSet::modify, bdhash.cc:68), whatever else is stored under the key.
THEOREM SecretsProtect == HashSpec => SecretProtects
<1>1. HashTypeOK /\ HashTypeOK' =>
        \A id \in HashIds, key \in Keys : \A old \in Found(id, key) \ Found(id, key)' :
          old.mSecret # NoSecret =>
            \A entry \in HashEntry : Modify(entry) => entry.mSecret = old.mSecret
  BY SecretStep
<1> QED
  BY <1>1, HashTypeCorrect, PTL DEF SecretProtects

\* Nobody shortens the life of an entry that has no secret, not even with another such
\* entry of the same value (bdHashSet::modify, bdhash.cc:67).
THEOREM SecretlessStay == HashSpec => SecretlessKept
<1>1. HashTypeOK /\ HashTypeOK' =>
        \A id \in HashIds, key \in Keys : \A old \in Found(id, key) \ Found(id, key)' :
          old.mSecret = NoSecret /\ ~ LivesOn(old, Found(id, key)') =>
            \A entry \in HashEntry : ~ Modify(entry)
  BY SecretStep
<1> QED
  BY <1>1, HashTypeCorrect, PTL DEF SecretlessKept

-----------------------------------------------------------------------------
(***************************************************************************)
(* The process.  Each of its steps is a step or a stutter of each part, so *)
(* that what is proved of a part holds in the process.                     *)
(***************************************************************************)
LEMMA NodePart == [ProcessNext]_processVars => [NodeNext]_nodeVars
BY DEF ProcessNext, processVars, NodeAlone, Shutdown, Die, TunnelAlone, HashAlone,
       NodeNext, Environment

LEMMA TunnelPart == [ProcessNext]_processVars => [TunnelNext]_tunnelVars
BY DEF ProcessNext, processVars, NodeAlone, Shutdown, Die, TunnelAlone, HashAlone, TunnelNext

LEMMA HashPart == [ProcessNext]_processVars => [HashNext]_hashVars
BY DEF ProcessNext, processVars, NodeAlone, Shutdown, Die, TunnelAlone, HashAlone,
       HashNext, HashRuns

\* The process is a node, a tunnel and a hash space: a shutdown of the node that clears the
\* hash space, or a crash of all, is nothing that one of them could not do by itself.
THEOREM PartsAreImplemented == ProcessSpec => NodeSpec /\ TunnelSpec /\ HashSpec
<1>1. ProcessInit => NodeInit /\ TunnelInit /\ HashInit
  BY DEF ProcessInit
<1> QED
  BY <1>1, NodePart, TunnelPart, HashPart, PTL DEF ProcessSpec, NodeSpec, TunnelSpec, HashSpec

\* All that is in the process keeps its type, through shutdowns, restarts and crashes.
THEOREM ProcessTypeCorrect == ProcessSpec => []TypeOK
BY PartsAreImplemented, NodeTypeCorrect, TunnelTypeCorrect, HashTypeCorrect, PTL DEF TypeOK
=============================================================================
