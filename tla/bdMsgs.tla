------------------------------- MODULE bdMsgs -------------------------------
(***************************************************************************)
(* The messages of bdmsgs.cc.  A bencoded dictionary is a record, and what *)
(* be_encode and be_decoden make of it is left out: the functions below    *)
(* say which keys a message carries, and how a receiver tells from them    *)
(* what it has got.                                                        *)
(*                                                                         *)
(* An address is an ip and a port in one; a bdId is a node id with an      *)
(* address.  The eight bytes that bitdht_ecrypt appends (a checksum and a  *)
(* token) are not part of the dictionary: see bdNode.                      *)
(***************************************************************************)
EXTENDS Integers, Sequences

(************************ The messages the program sends *******************)

Query(tid, q, args) == [y |-> "q", q |-> q, t |-> tid, a |-> args]
Reply(tid, ret) == [y |-> "r", t |-> tid, r |-> ret]

\* encodeCompactNodeId: 20 bytes of id, then 6 bytes of address
CompactParts == 2
encodeCompactNodeId(id) == <<id.id, id.addr>>

\* Packed back to back, with no separators.
makeCompactIdListString(nodes) ==
    [k \in 1 .. CompactParts * Len(nodes) |->
        encodeCompactNodeId(nodes[(k + 1) \div 2])[IF k % 2 = 1 THEN 1 ELSE 2]]

bitdht_create_ping_msg(tid, id) == Query(tid, "ping", [id |-> id])

bitdht_response_ping_msg(tid, id, vid) ==
    [y |-> "r", t |-> tid, r |-> [id |-> id], v |-> vid]

bitdht_find_node_msg(tid, id, target) ==
    Query(tid, "find_node", [id |-> id, target |-> target])

bitdht_resp_node_msg(tid, id, nodes) ==
    Reply(tid, [id |-> id, nodes |-> makeCompactIdListString(nodes)])

bitdht_get_peers_msg(tid, id, info_hash) ==
    Query(tid, "get_peers", [id |-> id, info_hash |-> info_hash])

bitdht_peers_reply_hash_msg(tid, id, token, values) ==
    Reply(tid, [id |-> id, token |-> token, values |-> values])

bitdht_peers_reply_closest_msg(tid, id, token, nodes) ==
    Reply(tid, [id |-> id, token |-> token, nodes |-> makeCompactIdListString(nodes)])

bitdht_announce_peers_msg(tid, id, info_hash, port, token) ==
    Query(tid, "announce_peer",
          [id |-> id, info_hash |-> info_hash, port |-> port, token |-> token])

\* "This is the same as a PONG msg!", short of its version.
bitdht_reply_announce_msg(tid, id) == Reply(tid, [id |-> id])

bitdht_ask_myip_msg(tid, id) == Query(tid, "newconn", [id |-> id])

\* peerId is the asker, at the address its question came from.
bitdht_reply_myip_msg(tid, id, peerId, started) ==
    [y |-> "r", t |-> tid, n |-> IF started THEN "y" ELSE "n",
     r |-> [id |-> id, newconn |-> "hello", pid |-> encodeCompactNodeId(peerId)]]

bitdht_broadcast_conn_msg(tid, id, nodeId, peerId) ==
    Query(tid, "brconn", [id |-> id, nid |-> nodeId, pid |-> peerId])

bitdht_ask_conn_msg(tid, id, nodeId, peerId) ==
    Query(tid, "askconn", [id |-> id, nid |-> nodeId, pid |-> encodeCompactNodeId(peerId)])

bitdht_reply_conn_msg(tid, id, started) ==
    [y |-> "r", t |-> tid, n |-> IF started THEN "y" ELSE "n",
     r |-> [id |-> id, askconn |-> "hello"]]

(************************ What a receiver takes it for *********************)

\* beMsgGetDictNode finds the key
Has(dict, key) == key \in DOMAIN dict

\* Any string for y whose first letter is neither q nor r, an error say, is unknown.
\* Defined, like beMsgType, for the messages that every program of the network sends:
\* they have a y, and the questions a q.  The code does not ask whether the keys are
\* there before it reads their values (lines 742 and 721), so that without them it
\* reads through a null pointer; there is no state after that.
beMsgGetY(m) == IF m.y \in {"q", "r"} THEN m.y ELSE "unknown"

QueryType ==
    [ping |-> "PING", find_node |-> "FIND_NODE", get_peers |-> "GET_HASH",
     announce_peer |-> "POST_HASH", newconn |-> "NEWCONN", brconn |-> "BROADCAST_CONN",
     askconn |-> "ASK_CONN"]

\* The keys of a reply decide what it answers, in this order.
ReplyType(r) ==
    IF ~ Has(r, "id") THEN "UNKNOWN"
    ELSE IF Has(r, "token") /\ Has(r, "values") THEN "REPLY_HASH"
    ELSE IF Has(r, "token") /\ Has(r, "nodes") THEN "REPLY_NEAR"
    ELSE IF Has(r, "nodes") THEN "REPLY_NODE"
    ELSE IF Has(r, "newconn") THEN "REPLY_NEWCONN"
    ELSE IF Has(r, "askconn") THEN "REPLY_CONN"
    ELSE "PONG"

beMsgType(m) ==
    IF beMsgGetY(m) = "q" /\ m.q \in DOMAIN QueryType THEN QueryType[m.q]
    ELSE IF beMsgGetY(m) = "r" /\ Has(m, "r") THEN ReplyType(m.r)
    ELSE "UNKNOWN"

\* decodeCompactNodeId refuses what is too short and ignores what is too long.
Decodes(enc) == Len(enc) >= CompactParts
decodeCompactNodeId(enc) == [id |-> enc[1], addr |-> enc[2]]

\* The rest of a string that is no multiple of the length is ignored.
beMsgGetListBdIds(enc) ==
    [i \in 1 .. Len(enc) \div CompactParts |->
        decodeCompactNodeId(SubSeq(enc, CompactParts * i - 1, CompactParts * i))]

(************************ What recvPkt insists on **************************)

BodyKey(m) == IF beMsgGetY(m) = "q" THEN "a" ELSE "r"
Body(m) == m[BodyKey(m)]

\* The keys it does not do without, by type; Rendezvous has those of its messages.
Needed(type) ==
    CASE type = "FIND_NODE"      -> {"id", "target"}
      [] type = "GET_HASH"       -> {"id", "info_hash"}
      [] type = "POST_HASH"      -> {"id", "info_hash", "token", "port"}
      [] type = "REPLY_NODE"     -> {"id", "nodes"}
      [] type = "REPLY_HASH"     -> {"id", "values", "token"}
      [] type = "REPLY_NEAR"     -> {"id", "nodes", "token"}
      [] type = "REPLY_NEWCONN"  -> {"id", "newconn", "pid"}
      [] OTHER                   -> {"id"}

Parses(m) ==
    LET type == beMsgType(m)
    IN  /\ type # "UNKNOWN"
        /\ Has(m, "t") /\ Has(m, BodyKey(m))
        /\ Needed(type) \subseteq DOMAIN Body(m)
        /\ type = "REPLY_NEWCONN" => Decodes(Body(m).pid)
=============================================================================
