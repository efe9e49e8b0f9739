------------------------------- MODULE bdNode -------------------------------
(***************************************************************************)
(* The message loop of a node (bdnode.cc) and its store of peers           *)
(* (bdstore.cc): what a turn of the DHT thread does with the messages that *)
(* came in, whom it pings, which searches get to ask, which question of    *)
(* another node it answers, what it writes to its file; and what is left   *)
(* of all that when the DHT is stopped, started again, or killed.          *)
(*                                                                         *)
(* The thread holds dhtMtx for the whole turn.  A turn is taken in steps,  *)
(* pc saying where it is, and everybody else waits for pc = "idle".        *)
(*                                                                         *)
(* The routing table is the set of peers that have been added to it        *)
(* (module bdSpace has it in detail), a query is the id it looks for       *)
(* (bdQuery), and the store is a set of addresses, which is all that is    *)
(* read of its peers.  The messages of the rendezvous are in Rendezvous.   *)
(***************************************************************************)
EXTENDS bdMsgs, FiniteSets, SequencesExt, Lists

CONSTANTS
    NodeIds, Addrs, OwnId,
    TransIds,               \* transaction ids
    Version,                \* mDhtVersion
    BootFile, WhiteNodes,   \* the addresses in the files a fresh installation has
    MaxMsgs, AllowedPings,  \* 50 and 90 % of it
    MaxEntries, MinEntries, \* of the store: 1000, and 90 % of it to be worth writing
    MaxRemoteQueryAge,      \* BITDHT_MAX_REMOTE_QUERY_AGE, 10 seconds
    NeighbourPeers,         \* BITDHT_QUERY_NEIGHBOUR_PEERS, 8
    BroadcastPeriod,        \* every 10th turn
    MaxMsgPerTick,          \* MAX_MSG_PER_TICK, 100
    Worlds,                 \* what a node may meet: see below
    MaxLoad, MaxQueries     \* bounds on what waits for the node, and on its searches

BdId == [id : NodeIds, addr : Addrs]

\* An error message, and a question that does not say what it asks for.
Malformed ==
    {[y |-> "e", t |-> tid] : tid \in TransIds}
      \cup {Query(tid, "find_node", [id |-> id]) : tid \in TransIds, id \in NodeIds}

\* What the nodes of a network send each other.
Message ==
    {bitdht_create_ping_msg(tid, id) : tid \in TransIds, id \in NodeIds}
    \cup {bitdht_response_ping_msg(tid, id, Version) : tid \in TransIds, id \in NodeIds}
    \cup {bitdht_find_node_msg(tid, id, x) : tid \in TransIds, id, x \in NodeIds}
    \cup {bitdht_resp_node_msg(tid, id, nodes) :
            tid \in TransIds, id \in NodeIds, nodes \in SeqOf(BdId, NeighbourPeers)}
    \cup {bitdht_get_peers_msg(tid, id, x) : tid \in TransIds, id, x \in NodeIds}
    \cup {bitdht_peers_reply_hash_msg(tid, id, tid, <<>>) : tid \in TransIds, id \in NodeIds}
    \cup {bitdht_peers_reply_closest_msg(tid, id, tid, nodes) :
            tid \in TransIds, id \in NodeIds, nodes \in SeqOf(BdId, NeighbourPeers)}
    \cup {bitdht_announce_peers_msg(tid, id, x, 0, tid) : tid \in TransIds, id, x \in NodeIds}
    \cup {bitdht_reply_announce_msg(tid, id) : tid \in TransIds, id \in NodeIds}
    \cup {bitdht_ask_myip_msg(tid, id) : tid \in TransIds, id \in NodeIds}
    \cup {bitdht_reply_myip_msg(tid, id, p, TRUE) :
            tid \in TransIds, id \in NodeIds, p \in BdId}
    \cup {bitdht_reply_conn_msg(tid, id, TRUE) : tid \in TransIds, id \in NodeIds}
    \cup Malformed

\* sealed: bitdht_ecrypt has added a checksum and a token.  addr is the other side.
Datagram == [msg : Message, addr : Addrs, sealed : BOOLEAN]

\* A world: the datagrams that come, the ids the manager searches for, whether the
\* application stops and starts the DHT, and whether the process may be killed.
World == [datagrams : SUBSET Datagram, searches : SUBSET NodeIds,
          stops : BOOLEAN, crashes : BOOLEAN]

ASSUME NodeAssumption ==
    /\ OwnId \in NodeIds
    /\ TransIds # {}
    /\ IsFiniteSet(Addrs)
    /\ BootFile \subseteq Addrs /\ Cardinality(BootFile) <= MaxEntries
    /\ WhiteNodes \subseteq Addrs
    /\ MaxMsgs \in Nat /\ AllowedPings \in Nat /\ AllowedPings < MaxMsgs
    /\ MaxEntries \in Nat /\ MinEntries \in Nat
    /\ MaxRemoteQueryAge \in Nat \ {0}
    /\ NeighbourPeers \in Nat
    /\ BroadcastPeriod \in Nat \ {0}
    /\ MaxMsgPerTick \in Nat \ {0}
    /\ Worlds \subseteq World
    /\ MaxLoad \in Nat /\ MaxQueries \in Nat

VARIABLES
    world,
    mode,               \* of the manager: "OFF" or "ON"
    pc,
    sentMsgs,           \* in this turn
    queriesLeft,        \* numQueries - i, while the queries are asked
    mIncomingMsgs, mOutgoingMsgs,
    mLocalQueries,      \* ids searched for
    mRemoteQueries,     \* questions of others, oldest first
    mPotentialPeers,    \* addresses to be pinged
    mNodeSpace,
    mStore, mStoreFile,
    mBlackNodes, mMyIPs,
    mRandomTokens,      \* whether mRandomTokenArray holds any token
    broadcast_count,    \* modulo BroadcastPeriod
    torn                \* whether the process died while it wrote the file

turn == <<pc, sentMsgs, queriesLeft, broadcast_count>>
questions == <<mLocalQueries, mRemoteQueries, mPotentialPeers>>
peers == <<mNodeSpace, mStore>>
file == <<mStoreFile, torn>>
handshake == <<mBlackNodes, mMyIPs, mRandomTokens>>
nodeVars == <<world, mode, turn, mIncomingMsgs, mOutgoingMsgs, questions, peers, file, handshake>>

RemoteQuery == [mId : BdId, mQuery : NodeIds, mTransId : TransIds,
                mQueryType : {"BD_QUERY_NEIGHBOURS", "BD_QUERY_HASH"},
                age : 0 .. MaxRemoteQueryAge]
Label == {"idle", "write", "recv", "ping", "query", "remote", "stale", "broadcast"}

NodeTypeOK ==
    /\ world \in Worlds
    /\ mode \in {"OFF", "ON"}
    /\ pc \in Label
    /\ sentMsgs \in 0 .. MaxMsgs
    /\ queriesLeft \in 0 .. Len(mLocalQueries)
    /\ mIncomingMsgs \in Seq(Datagram)
    /\ mOutgoingMsgs \in Seq(Datagram)
    /\ mLocalQueries \in Seq(NodeIds)
    /\ mRemoteQueries \in Seq(RemoteQuery)
    /\ mPotentialPeers \in Seq(Addrs)
    /\ mNodeSpace \in SUBSET BdId
    /\ mStore \in SUBSET Addrs
    /\ mStoreFile \in SUBSET Addrs
    /\ mBlackNodes \in SUBSET Addrs
    /\ mMyIPs \in SUBSET Addrs
    /\ mRandomTokens \in BOOLEAN
    /\ broadcast_count \in 0 .. BroadcastPeriod - 1
    /\ torn \in BOOLEAN

(******************************* Peers *************************************)

\* The entry for the address goes, the new one is pushed to the back, and what is above
\* the limit is popped from the back: at the limit a new address does not get in.
addStore(store, addr) ==
    IF addr \in store \/ Cardinality(store) < MaxEntries THEN store \cup {addr} ELSE store

addPeer(id) ==
    /\ mNodeSpace' = mNodeSpace \cup {id}
    /\ mStore' = addStore(mStore, id.addr)

(******************************* recvPkt ***********************************)

Sound(dgram) == dgram.addr \notin mBlackNodes /\ Parses(dgram.msg)

\* id and transId of the message at hand, and its source
Current == Head(mIncomingMsgs)
transId == Current.msg.t
srcId == [id |-> Body(Current.msg).id, addr |-> Current.addr]

\* recvPkt takes the next message and finds it to be of this type.
Receive(type) ==
    /\ pc = "recv"
    /\ mIncomingMsgs # <<>>
    /\ Sound(Current)
    /\ beMsgType(Current.msg) = type
    /\ mIncomingMsgs' = Tail(mIncomingMsgs)
    /\ UNCHANGED <<world, mode, turn, mLocalQueries, file>>

sendPkt(addr, msg, sealed) ==
    mOutgoingMsgs' = Append(mOutgoingMsgs, [msg |-> msg, addr |-> addr, sealed |-> sealed])

dropPkt ==
    /\ pc = "recv"
    /\ mIncomingMsgs # <<>>
    /\ ~ Sound(Current)
    /\ mIncomingMsgs' = Tail(mIncomingMsgs)
    /\ UNCHANGED <<world, mode, turn, mOutgoingMsgs, questions, peers, file, handshake>>

msgin_ping ==
    /\ Receive("PING")
    /\ addPeer(srcId)
    /\ sendPkt(srcId.addr, bitdht_response_ping_msg(transId, OwnId, Version), FALSE)
    /\ UNCHANGED <<mRemoteQueries, mPotentialPeers, handshake>>

\* The answer to an announcement comes here too.  The flags made of the version are for
\* the routing table.
msgin_pong ==
    /\ Receive("PONG")
    /\ addPeer(srcId)
    /\ UNCHANGED <<mOutgoingMsgs, mRemoteQueries, mPotentialPeers, handshake>>

\* Mutant: the last to ask is the first to be answered.
QueuedInFront(id, query, tid, type) ==
    mRemoteQueries' =
        <<[mId |-> id, mQuery |-> query, mTransId |-> tid, mQueryType |-> type, age |-> 0]>>
          \o mRemoteQueries

queueQuery(id, query, tid, type) ==
    mRemoteQueries' =
        Append(mRemoteQueries, [mId |-> id, mQuery |-> query, mTransId |-> tid,
                                mQueryType |-> type, age |-> 0])

msgin_find_node ==
    /\ Receive("FIND_NODE")
    /\ queueQuery(srcId, Body(Current.msg).target, transId, "BD_QUERY_NEIGHBOURS")
    /\ addPeer(srcId)
    /\ UNCHANGED <<mOutgoingMsgs, mPotentialPeers, handshake>>

msgin_get_hash ==
    /\ Receive("GET_HASH")
    /\ queueQuery(srcId, Body(Current.msg).info_hash, transId, "BD_QUERY_HASH")
    /\ UNCHANGED <<mOutgoingMsgs, mPotentialPeers, peers, handshake>>

\* Which of the peers are worth a ping, some query decides (bdQuery!addPotentialPeer).
\* Mutant: a peer that is reported now is pinged next.
PotentialInFront(worthy) == mPotentialPeers' = worthy \o mPotentialPeers

addPotentialPeers(worthy) == mPotentialPeers' = mPotentialPeers \o worthy

msgin_reply_find_node ==
    /\ Receive("REPLY_NODE")
    /\ LET nodes == beMsgGetListBdIds(Body(Current.msg).nodes)
       IN  \E worthy \in SUBSET DOMAIN nodes :
             /\ mLocalQueries = <<>> => worthy = {}
             /\ LET reported == Kept(nodes, worthy)
                IN  addPotentialPeers([i \in DOMAIN reported |-> reported[i].addr])
    /\ addPeer(srcId)
    /\ UNCHANGED <<mOutgoingMsgs, mRemoteQueries, handshake>>

\* Handlers that do nothing.
Ignored == {"REPLY_HASH", "REPLY_NEAR", "POST_HASH", "REPLY_CONN"}

msgin_ignored ==
    /\ \E type \in Ignored : Receive(type)
    /\ UNCHANGED <<mOutgoingMsgs, mRemoteQueries, mPotentialPeers, peers, handshake>>

(******************************* ask_myip **********************************)

\* bitdht_decrypt takes the token from beyond the end of a union of four bytes, so that it
\* may be any, one of the node's own included.
IsUsedToken == {FALSE, mRandomTokens}

AddBlackList ==
    /\ mBlackNodes' = mBlackNodes \cup {Current.addr}
    /\ UNCHANGED <<mOutgoingMsgs, mMyIPs, mRandomTokens>>

\* A message without checksum (the tunnel sends such ones) is not valid.
Invalid == ~ Current.sealed /\ UNCHANGED <<mOutgoingMsgs, handshake>>

msgin_ask_myip ==
    /\ Receive("NEWCONN")
    /\ \E used \in IsUsedToken :
         \/ used /\ AddBlackList
         \/ ~ used /\ Invalid
         \/ /\ ~ used /\ Current.sealed
            /\ sendPkt(srcId.addr, bitdht_reply_myip_msg(transId, OwnId, srcId, TRUE), TRUE)
            /\ mRandomTokens' = TRUE
            /\ UNCHANGED <<mBlackNodes, mMyIPs>>
    /\ UNCHANGED <<mRemoteQueries, mPotentialPeers, peers>>

msgin_reply_ask_myip ==
    /\ Receive("REPLY_NEWCONN")
    /\ \E used \in IsUsedToken :
         \/ used /\ AddBlackList
         \/ ~ used /\ Invalid
         \/ /\ ~ used /\ Current.sealed
            /\ LET me == decodeCompactNodeId(Body(Current.msg).pid)
               IN  mMyIPs' = mMyIPs \cup IF me.id = OwnId THEN {me.addr} ELSE {}
            /\ UNCHANGED <<mOutgoingMsgs, mBlackNodes, mRandomTokens>>
    /\ UNCHANGED <<mRemoteQueries, mPotentialPeers, peers>>

recvPkt ==
    \/ dropPkt \/ msgin_ping \/ msgin_pong \/ msgin_find_node \/ msgin_get_hash
    \/ msgin_reply_find_node \/ msgin_ignored \/ msgin_ask_myip \/ msgin_reply_ask_myip

(******************************* A turn ************************************)

\* bdNodeManager::iteration: what waits to be sent goes first (UdpThreads); in the mode
\* REFRESH the manager writes the store before it lets the node go on.
iterationOff ==
    /\ pc = "idle" /\ mode = "OFF"
    /\ mIncomingMsgs' = <<>>
    /\ UNCHANGED <<world, mode, turn, mOutgoingMsgs, questions, peers, file, handshake>>

beginTurn ==
    /\ pc = "idle" /\ mode = "ON"
    /\ mOutgoingMsgs = <<>>
    /\ pc' = "recv"
    /\ UNCHANGED <<world, mode, sentMsgs, queriesLeft, broadcast_count, mIncomingMsgs,
                   mOutgoingMsgs, questions, peers, file, handshake>>

\* Mutant: a store is written however few peers it has.
AnyIsEnough == TRUE

EnoughToSave == Cardinality(mStore) >= MinEntries

\* fopen empties the file, fclose leaves all of it.
updateStore ==
    /\ pc = "idle" /\ mode = "ON"
    /\ mOutgoingMsgs = <<>>
    /\ EnoughToSave
    /\ pc' = "write"
    /\ mStoreFile' = {}
    /\ UNCHANGED <<world, mode, sentMsgs, queriesLeft, broadcast_count, mIncomingMsgs,
                   mOutgoingMsgs, questions, peers, torn, handshake>>

storeWritten ==
    /\ pc = "write"
    /\ pc' = "recv"
    /\ mStoreFile' = mStore
    /\ torn' = FALSE
    /\ UNCHANGED <<world, mode, sentMsgs, queriesLeft, broadcast_count, mIncomingMsgs,
                   mOutgoingMsgs, questions, peers, handshake>>

allReceived ==
    /\ pc = "recv" /\ mIncomingMsgs = <<>>
    /\ pc' = "ping"
    /\ UNCHANGED <<world, mode, sentMsgs, queriesLeft, broadcast_count, mIncomingMsgs,
                   mOutgoingMsgs, questions, peers, file, handshake>>

\* Transaction ids are echoed and otherwise not looked at.
genNewTransId == CHOOSE tid \in TransIds : TRUE

\* Mutant: pings use up the messages of a turn.
MayPingLikeAll == sentMsgs < MaxMsgs

MayPing == sentMsgs < AllowedPings

pingPotential ==
    /\ pc = "ping" /\ mPotentialPeers # <<>> /\ MayPing
    /\ sendPkt(Head(mPotentialPeers), bitdht_create_ping_msg(genNewTransId, OwnId), FALSE)
    /\ mPotentialPeers' = Tail(mPotentialPeers)
    /\ sentMsgs' = sentMsgs + 1
    /\ UNCHANGED <<world, mode, pc, queriesLeft, broadcast_count, mIncomingMsgs,
                   mLocalQueries, mRemoteQueries, peers, file, handshake>>

allPinged ==
    /\ pc = "ping" /\ ~ (mPotentialPeers # <<>> /\ MayPing)
    /\ pc' = "query"
    /\ queriesLeft' = Len(mLocalQueries)
    /\ UNCHANGED <<world, mode, sentMsgs, broadcast_count, mIncomingMsgs, mOutgoingMsgs,
                   questions, peers, file, handshake>>

\* Mutant: one more.
MayQueryOneMore == queriesLeft > 0 /\ sentMsgs <= MaxMsgs

MayQuery == queriesLeft > 0 /\ sentMsgs < MaxMsgs

\* nextQuery: the query asks one of the peers it was told of, or nobody, what it looks for
\* or, disguised, a point nearby (bdQuery).
askQuery ==
    /\ pc = "query" /\ MayQuery
    /\ mLocalQueries' = Append(Tail(mLocalQueries), Head(mLocalQueries))
    /\ queriesLeft' = queriesLeft - 1
    /\ \/ UNCHANGED <<sentMsgs, mOutgoingMsgs>>
       \/ \E id \in mNodeSpace :
            /\ sendPkt(id.addr, bitdht_find_node_msg(genNewTransId, OwnId, Head(mLocalQueries)),
                       FALSE)
            /\ sentMsgs' = sentMsgs + 1
    /\ UNCHANGED <<world, mode, pc, broadcast_count, mIncomingMsgs, mRemoteQueries,
                   mPotentialPeers, peers, file, handshake>>

allAsked ==
    /\ pc = "query" /\ ~ MayQuery
    /\ pc' = "remote"
    /\ queriesLeft' = 0
    /\ UNCHANGED <<world, mode, sentMsgs, broadcast_count, mIncomingMsgs, mOutgoingMsgs,
                   questions, peers, file, handshake>>

\* What is too old at the front goes unanswered, the first that is not is answered, and
\* the rest waits for another turn.
Fresh(q) == q.age < MaxRemoteQueryAge

IsNext(i) ==
    /\ i \in DOMAIN mRemoteQueries
    /\ Fresh(mRemoteQueries[i])
    /\ \A j \in 1 .. i - 1 : ~ Fresh(mRemoteQueries[j])

\* Peers of the table, nearest first (bdSpace!find_nearest_nodes); nothing for a hash.
AnswerRemote(q) ==
    \/ /\ q.mQueryType = "BD_QUERY_NEIGHBOURS"
       /\ \E nodes \in SeqOf(mNodeSpace, NeighbourPeers) :
            /\ IsInjective(nodes)
            /\ sendPkt(q.mId.addr, bitdht_resp_node_msg(q.mTransId, OwnId, nodes), FALSE)
    \/ q.mQueryType = "BD_QUERY_HASH" /\ UNCHANGED mOutgoingMsgs

processRemoteQuery ==
    /\ pc = "remote"
    /\ pc' = "stale"
    /\ \/ \E i \in DOMAIN mRemoteQueries :
            /\ IsNext(i)
            /\ AnswerRemote(mRemoteQueries[i])
            /\ mRemoteQueries' = SubSeq(mRemoteQueries, i + 1, Len(mRemoteQueries))
       \/ /\ \A i \in DOMAIN mRemoteQueries : ~ Fresh(mRemoteQueries[i])
          /\ mRemoteQueries' = <<>>
          /\ UNCHANGED mOutgoingMsgs
    /\ UNCHANGED <<world, mode, sentMsgs, queriesLeft, broadcast_count, mIncomingMsgs,
                   mLocalQueries, mPotentialPeers, peers, file, handshake>>

\* The message to each address, one after the other.
ToAll(addrs, msg, sealed) ==
    [i \in DOMAIN SetToSeq(addrs) |->
        [msg |-> msg, addr |-> SetToSeq(addrs)[i], sealed |-> sealed]]

\* Whose ping is due, the table knows (bdSpace!out_of_date_peer).
pingOutOfDate ==
    /\ pc = "stale"
    /\ pc' = "broadcast"
    /\ \E due \in SUBSET {id.addr : id \in mNodeSpace} :
         mOutgoingMsgs' =
            mOutgoingMsgs \o ToAll(due, bitdht_create_ping_msg(genNewTransId, OwnId), FALSE)
    /\ UNCHANGED <<world, mode, sentMsgs, queriesLeft, broadcast_count, mIncomingMsgs,
                   questions, peers, file, handshake>>

AskedForMyIP == ToAll(WhiteNodes, bitdht_ask_myip_msg(genNewTransId, OwnId), TRUE)
                  \o ToAll(mStore, bitdht_ask_myip_msg(genNewTransId, OwnId), TRUE)

\* The end of the turn, with broadcastPeers every now and then.
endTurn ==
    /\ pc = "broadcast"
    /\ pc' = "idle"
    /\ sentMsgs' = 0
    /\ broadcast_count' = (broadcast_count + 1) % BroadcastPeriod
    /\ IF broadcast_count' = 0
       THEN /\ mOutgoingMsgs' = mOutgoingMsgs \o AskedForMyIP
            /\ mRandomTokens' = (mRandomTokens \/ AskedForMyIP # <<>>)
       ELSE UNCHANGED <<mOutgoingMsgs, mRandomTokens>>
    /\ UNCHANGED <<world, mode, queriesLeft, mIncomingMsgs, questions, peers, file,
                   mBlackNodes, mMyIPs>>

\* UdpBitDht::tick: what is queued goes out, up to MaxMsgPerTick at a time.
tick ==
    /\ pc = "idle" /\ mOutgoingMsgs # <<>>
    /\ mOutgoingMsgs' = SubSeq(mOutgoingMsgs, MaxMsgPerTick + 1, Len(mOutgoingMsgs))
    /\ UNCHANGED <<world, mode, turn, mIncomingMsgs, questions, peers, file, handshake>>

DhtThread ==
    \/ iterationOff \/ beginTurn \/ updateStore \/ storeWritten \/ recvPkt \/ allReceived
    \/ pingPotential \/ allPinged \/ askQuery \/ allAsked \/ processRemoteQuery
    \/ pingOutOfDate \/ endTurn \/ tick

(******************************* Everybody else ****************************)

Load == Len(mIncomingMsgs) + Len(mRemoteQueries) + Len(mPotentialPeers)

\* UdpBitDht::recvPkt lets in what has a type.
incomingMsg(dgram) ==
    /\ pc = "idle"
    /\ Load < MaxLoad
    /\ beMsgType(dgram.msg) # "UNKNOWN"
    /\ mIncomingMsgs' = Append(mIncomingMsgs, dgram)
    /\ UNCHANGED <<world, mode, turn, mOutgoingMsgs, questions, peers, file, handshake>>

addQuery(id) ==
    /\ pc = "idle" /\ mode = "ON"
    /\ Len(mLocalQueries) < MaxQueries
    /\ mLocalQueries' = Append(mLocalQueries, id)
    /\ UNCHANGED <<world, mode, turn, mIncomingMsgs, mOutgoingMsgs, mRemoteQueries,
                   mPotentialPeers, peers, file, handshake>>

clearQuery(id) ==
    /\ pc = "idle"
    /\ mLocalQueries' = Kept(mLocalQueries, {i \in DOMAIN mLocalQueries : mLocalQueries[i] # id})
    /\ UNCHANGED <<world, mode, turn, mIncomingMsgs, mOutgoingMsgs, mRemoteQueries,
                   mPotentialPeers, peers, file, handshake>>

\* stopDht.  What has come in waits for the next turn, and addresses learned in the
\* handshake stay.
\* Mutant: the questions of others wait for the next start.
ForgetOwnQuestions ==
    /\ mLocalQueries' = <<>> /\ mPotentialPeers' = <<>>
    /\ UNCHANGED mRemoteQueries

ForgetQuestions == mLocalQueries' = <<>> /\ mRemoteQueries' = <<>> /\ mPotentialPeers' = <<>>

shutdownNode ==
    /\ pc = "idle" /\ world.stops
    /\ mode' = "OFF"
    /\ ForgetQuestions
    /\ mNodeSpace' = {}
    /\ mStore' = {}
    /\ mOutgoingMsgs' = <<>>
    /\ UNCHANGED <<world, turn, mIncomingMsgs, file, handshake>>

\* startDht, whether it runs or not.  White nodes are a store of their own that nobody adds to.
restartNode ==
    /\ pc = "idle"
    /\ mode = "OFF" \/ (world.stops /\ Load < MaxLoad)
    /\ mode' = "ON"
    /\ mStore' = mStoreFile
    /\ mPotentialPeers' = mPotentialPeers \o SetToSeq(mStoreFile) \o SetToSeq(WhiteNodes)
    /\ UNCHANGED <<world, turn, mIncomingMsgs, mOutgoingMsgs, mLocalQueries, mRemoteQueries,
                   mNodeSpace, file, handshake>>

\* A file written in part has some of the lines and perhaps the beginning of one more,
\* which may read as another address.
Cut(store) ==
    (SUBSET store) \cup {lines \cup {addr} : lines \in (SUBSET store) \ {store}, addr \in Addrs}

\* The process dies and is started again: all but the file is as it was at first.
Crash ==
    /\ world.crashes
    /\ mStoreFile' \in IF pc = "write" THEN Cut(mStore) ELSE {mStoreFile}
    /\ torn' = (torn \/ pc = "write")
    /\ mStore' = mStoreFile'
    /\ mode' = "OFF" /\ pc' = "idle"
    /\ sentMsgs' = 0 /\ queriesLeft' = 0 /\ broadcast_count' = 0
    /\ mIncomingMsgs' = <<>> /\ mOutgoingMsgs' = <<>>
    /\ mLocalQueries' = <<>> /\ mRemoteQueries' = <<>> /\ mPotentialPeers' = <<>>
    /\ mNodeSpace' = {}
    /\ mBlackNodes' = {} /\ mMyIPs' = {} /\ mRandomTokens' = FALSE
    /\ UNCHANGED world

\* A second goes by.
Aged(q) == [q EXCEPT !.age = IF @ < MaxRemoteQueryAge THEN @ + 1 ELSE @]

Tick ==
    /\ \E i \in DOMAIN mRemoteQueries : Fresh(mRemoteQueries[i])
    /\ mRemoteQueries' = [i \in DOMAIN mRemoteQueries |-> Aged(mRemoteQueries[i])]
    /\ UNCHANGED <<world, mode, turn, mIncomingMsgs, mOutgoingMsgs, mLocalQueries,
                   mPotentialPeers, peers, file, handshake>>

\* Of the application, the manager and the network.
Calls ==
    \/ \E dgram \in world.datagrams : incomingMsg(dgram)
    \/ \E id \in world.searches : addQuery(id) \/ clearQuery(id)
    \/ restartNode

Environment == Calls \/ Tick \/ shutdownNode \/ Crash

NodeInit ==
    /\ world \in Worlds
    /\ mode = "OFF" /\ pc = "idle"
    /\ sentMsgs = 0 /\ queriesLeft = 0 /\ broadcast_count = 0
    /\ mIncomingMsgs = <<>> /\ mOutgoingMsgs = <<>>
    /\ mLocalQueries = <<>> /\ mRemoteQueries = <<>> /\ mPotentialPeers = <<>>
    /\ mNodeSpace = {}
    /\ mStore = BootFile /\ mStoreFile = BootFile /\ torn = FALSE
    /\ mBlackNodes = {} /\ mMyIPs = {} /\ mRandomTokens = FALSE

NodeNext == DhtThread \/ Environment

NodeSpec == NodeInit /\ [][NodeNext]_nodeVars

\* UdpBitDht::run is an endless loop.
NodeFairness == WF_nodeVars(DhtThread)

(******************************* Properties ********************************)

\* A turn that has answered a remote question leaves only questions that may still be
\* answered: what is too old has been discarded, wherever it waited
\* (processRemoteQuery, bdnode.cc:697).
OnlyFreshWait ==
    [][pc = "remote" /\ pc' = "stale" =>
         \A i \in DOMAIN mRemoteQueries' : Fresh(mRemoteQueries'[i])]_nodeVars

\* A stopped node has no search, question, potential peer, routing entry or message left,
\* wherever in its turn the stop came (shutdownNode, bdnode.cc:117); messages that came in
\* are dropped.  This is what shutdownNode clears.  The peers it asked for and punches
\* holes to (mConnectRequests, mPunching, of module Rendezvous), its addresses and the
\* blacklist outlive a stop and count again after the next start.
OffKeepsNothing ==
    mode = "OFF" =>
        /\ pc = "idle"
        /\ mLocalQueries = <<>> /\ mRemoteQueries = <<>> /\ mPotentialPeers = <<>>
        /\ mNodeSpace = {} /\ mOutgoingMsgs = <<>>

\* The file is the one of the installation or holds enough peers: short sessions and
\* restarts do not wear it down (writeStore, bdstore.cc:155).  A process that dies while
\* it writes leaves a file cut short, which is left out: the code does not prevent it.
FileWorthReading ==
    pc # "write" /\ ~ torn => mStoreFile = BootFile \/ Cardinality(mStoreFile) >= MinEntries

\* "pop_front()" (bdstore.cc:119, the debug text of the loop that trims the store): at
\* its limit the store gives up the entry in front, the oldest, so that a peer the node
\* newly hears of is in the store.
NewcomersStored == [][\A id \in mNodeSpace' \ mNodeSpace : id.addr \in mStore']_nodeVars

\* Every search gets to ask again and again, however many peers are there to be pinged and
\* however many searches there are (iteration, bdnode.cc:316).
QueriesServed ==
    \A id \in NodeIds :
        []<>(\/ \A i \in DOMAIN mLocalQueries : mLocalQueries[i] # id
             \/ pc = "query" /\ MayQuery /\ Head(mLocalQueries) = id)

\* Every potential peer gets its ping, unless the node stops, however many are reported
\* after it (iteration, bdnode.cc:268).
PotentialPinged ==
    \A addr \in Addrs :
        []<>(\/ \A i \in DOMAIN mPotentialPeers : mPotentialPeers[i] # addr
             \/ pc = "ping" /\ MayPing /\ Head(mPotentialPeers) = addr)
=============================================================================
