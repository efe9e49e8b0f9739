------------------------------ MODULE bdSpace ------------------------------
(***************************************************************************)
(* The routing table of a node: class bdSpace of bitdht/bdpeer.cc.         *)
(*                                                                         *)
(* buckets[b] is the std::list of bdPeer whose distance to mOwnId has its  *)
(* highest set bit at b.  A bdId is a node id with an address; the address *)
(* stands for the ip and the port together.  Peer flags are the bits of    *)
(* mPeerFlags: the word is the set of its bits, | is \cup and < compares   *)
(* the highest bit in which two words differ.                              *)
(*                                                                         *)
(* The table has no lock of its own: UdpBitDht serialises all the callers  *)
(* with dhtMtx, so every method is one step.                               *)
(***************************************************************************)
EXTENDS bdStdDht, Sequences, SequencesExt

CONSTANTS
    mOwnId,             \* the id of this node
    Addr,               \* addresses (ip and port)
    Peers,              \* the bdIds that may be heard of
    PeerFlag,           \* bit positions of mPeerFlags
    NODES_PER_BUCKET,   \* BITDHT_STANDARD_BUCKET_SIZE, 10
    MAX_SEND_PERIOD,    \* BITDHT_MAX_SEND_PERIOD, 600 s
    MAX_RECV_PERIOD,    \* BITDHT_MAX_RECV_PERIOD, 1500 s
    MaxTime             \* bound on the clock

ASSUME SpaceAssumption ==
    /\ mOwnId \in NodeId
    /\ Peers \subseteq [id : NodeId, addr : Addr]
    /\ PeerFlag \subseteq Nat
    /\ NODES_PER_BUCKET \in Nat \ {0}
    /\ MAX_SEND_PERIOD \in Nat
    /\ MAX_RECV_PERIOD \in Nat
    /\ MaxTime \in Nat

VARIABLES
    buckets,    \* bdSpace::buckets
    now         \* time(NULL), which never runs backwards here

vars == <<buckets, now>>

BdId == [id : NodeId, addr : Addr]

Flags == SUBSET PeerFlag

\* class bdPeer
BdPeer == [mPeerId : BdId, mLastSendTime : Nat, mLastRecvTime : Nat, mPeerFlags : Flags]

\* BITDHT_STANDARD_N_BUCKETS buckets, as many as the key has bits.
Bucket == 0 .. KEY_BITLEN - 1

TypeOK ==
    /\ buckets \in [Bucket -> Seq(BdPeer)]
    /\ now \in 0 .. MaxTime

BucketOf(id) == bdStdBucketDistance(bdStdDistance(mOwnId, id.id))

\* f < g as unsigned words
FlagsLess(f, g) ==
    \E bit \in g \ f : \A higher \in PeerFlag : higher > bit => (higher \in f <=> higher \in g)

-----------------------------------------------------------------------------
\* The entry a full bucket gives up for a peer with these flags: the first one
\* with the lowest flags (minScore), if the newcomer's are higher.
IsVictimFirstLower(entries, peerflags, i) ==    \* mutant: any entry with lower flags
    /\ FlagsLess(entries[i].mPeerFlags, peerflags)
    /\ \A j \in 1 .. i - 1 : ~ FlagsLess(entries[j].mPeerFlags, peerflags)

IsVictim(entries, peerflags, i) ==
    /\ FlagsLess(entries[i].mPeerFlags, peerflags)
    /\ \A j \in DOMAIN entries : ~ FlagsLess(entries[j].mPeerFlags, entries[i].mPeerFlags)
    /\ \A j \in 1 .. i - 1 : entries[j].mPeerFlags # entries[i].mPeerFlags

\* The test on the head of a full bucket, with its operands in the order of the
\* source: it asks whether the peer was heard of in the future.
HeadOutOfDate(entries, ts) == entries[1].mLastRecvTime - ts > MAX_RECV_PERIOD

\* Mutant: keeps its position.
RefreshInPlace(entries, i, peerflags, ts) ==
    [entries EXCEPT ![i].mLastRecvTime = ts, ![i].mPeerFlags = @ \cup peerflags]

\* Mutant: forgets the erase.
RefreshNoErase(entries, i, peerflags, ts) ==
    Append(entries, [entries[i] EXCEPT !.mLastRecvTime = ts, !.mPeerFlags = @ \cup peerflags])

\* A peer that is found moves to the back of its list.
Refresh(entries, i, peerflags, ts) ==
    Append(RemoveAt(entries, i),
           [entries[i] EXCEPT !.mLastRecvTime = ts, !.mPeerFlags = @ \cup peerflags])

\* Mutant.
HasRoomOffByOne(entries) == Len(entries) <= NODES_PER_BUCKET

HasRoom(entries) == Len(entries) < NODES_PER_BUCKET

\* What add_peer leaves in the peer's bucket.
AddToBucket(entries, id, peerflags, ts) ==
    LET newPeer == [mPeerId |-> id, mLastSendTime |-> ts, mLastRecvTime |-> ts,
                    mPeerFlags |-> peerflags]
        IsPeer(i)  == entries[i].mPeerId = id
        Found      == CHOOSE i \in DOMAIN entries : IsPeer(i)
        Victim     == CHOOSE i \in DOMAIN entries : IsVictim(entries, peerflags, i)
    IN  IF \E i \in DOMAIN entries : IsPeer(i)
          THEN Refresh(entries, Found, peerflags, ts)
        ELSE IF HasRoom(entries)
          THEN Append(entries, newPeer)
        ELSE IF HeadOutOfDate(entries, ts)
          THEN Append(Tail(entries), newPeer)
        ELSE IF \E i \in DOMAIN entries : IsVictim(entries, peerflags, i)
          THEN Append(RemoveAt(entries, Victim), newPeer)
          ELSE entries

add_peer(id, peerflags) ==
    /\ buckets' = [buckets EXCEPT ![BucketOf(id)] = AddToBucket(@, id, peerflags, now)]
    /\ UNCHANGED now

\* The peers that have not been pinged for MAX_SEND_PERIOD.
IsStale(peer, ts) == ts - peer.mLastSendTime > MAX_SEND_PERIOD

StaleAt(b) == {i \in DOMAIN buckets[b] : IsStale(buckets[b][i], now)}

\* Returns the first stale peer, in bucket and list order, which the caller pings.
out_of_date_peer ==
    /\ \E b \in Bucket : \E i \in StaleAt(b) :
         /\ \A c \in Bucket : c < b => StaleAt(c) = {}
         /\ \A j \in StaleAt(b) : i <= j
         /\ buckets' = [buckets EXCEPT ![b][i].mLastSendTime = now]
    /\ UNCHANGED now

clear ==
    /\ buckets' = [b \in Bucket |-> <<>>]
    /\ UNCHANGED now

\* Time passes between two calls.
Tick ==
    /\ now < MaxTime
    /\ now' = now + 1
    /\ UNCHANGED buckets

\* Mutant: the constructor does not size the vector.
InitNoResize ==
    /\ buckets = <<>>
    /\ now = 0

Init ==
    /\ buckets = [b \in Bucket |-> <<>>]
    /\ now = 0

Next ==
    \/ \E id \in Peers, peerflags \in Flags : add_peer(id, peerflags)
    \/ out_of_date_peer
    \/ clear
    \/ Tick

Spec == Init /\ [][Next]_vars

-----------------------------------------------------------------------------
(***************************************************************************)
(* Queries of the table.                                                   *)
(***************************************************************************)
Entries == UNION {ToSet(buckets[b]) : b \in Bucket}

Known == {peer.mPeerId : peer \in Entries}

\* find_nearest_nodes: the first number entries of a multimap ordered by distance
\* to target.  Ties keep the order of insertion in the code; any choice among
\* equally distant entries is allowed here.
find_nearest_nodes(target, number) ==
    {S \in SUBSET Known :
       /\ Cardinality(S) <= number
       /\ Cardinality(S) < number => S = Known
       /\ \A in \in S, out \in Known \ S :
            ~ Less(bdStdDistance(target, out.id), bdStdDistance(target, in.id))}

-----------------------------------------------------------------------------
(***************************************************************************)
(* Properties.                                                             *)
(***************************************************************************)
\* Every entry sits in the bucket of its distance, and no bdId has two entries:
\* add_peer looks for the peer in one bucket only, so a misplaced entry would
\* be duplicated for good.
KnownOnce ==
    \A b, c \in Bucket : \A i \in DOMAIN buckets[b], j \in DOMAIN buckets[c] :
      /\ BucketOf(buckets[b][i].mPeerId) = b
      /\ buckets[b][i].mPeerId = buckets[c][j].mPeerId => b = c /\ i = j

\* A bucket never holds more than NODES_PER_BUCKET peers.
BucketsBounded == \A b \in Bucket : Len(buckets[b]) <= NODES_PER_BUCKET

\* "sorts bucket lists by lastRecvTime" (bdpeer.cc:469): refreshing moves a peer
\* to the back, so the head is always the peer heard of the longest ago, and no
\* timestamp lies in the future.  The head test of add_peer relies on it.
SortedByRecvTime ==
    \A b \in Bucket : \A i \in DOMAIN buckets[b] :
      /\ buckets[b][i].mLastRecvTime <= now
      /\ buckets[b][i].mLastSendTime <= now
      /\ \A j \in DOMAIN buckets[b] :
           i < j => buckets[b][i].mLastRecvTime <= buckets[b][j].mLastRecvTime

\* Nobody loses a place without cause.  Unless the whole table is cleared, one
\* call takes one peer out of a bucket, the bucket was full, a peer that was not
\* in the table takes the place, and either the one that goes is the head, not
\* heard of for more than MAX_RECV_PERIOD, which yields to any newcomer
\* (bdpeer.cc:555-567), or its priority is the lowest of the bucket and strictly
\* below the newcomer's (bdpeer.cc:568-596).
LostFrom(b) ==
    {i \in DOMAIN buckets[b] :
       \A j \in DOMAIN buckets'[b] : buckets'[b][j].mPeerId # buckets[b][i].mPeerId}

YieldsTo(entries, i, peer) ==
    \/ i = 1 /\ now - entries[i].mLastRecvTime > MAX_RECV_PERIOD
    \/ /\ \A j \in DOMAIN entries : ~ FlagsLess(entries[j].mPeerFlags, entries[i].mPeerFlags)
       /\ FlagsLess(entries[i].mPeerFlags, peer.mPeerFlags)

EvictionJustified ==
    [][\A b \in Bucket : \A i \in LostFrom(b) :
         \/ \A c \in Bucket : buckets'[c] = <<>>
         \/ /\ Len(buckets[b]) = NODES_PER_BUCKET
            /\ LostFrom(b) = {i}
            /\ \E j \in DOMAIN buckets'[b] :
                 /\ buckets'[b][j].mPeerId \notin Known
                 /\ YieldsTo(buckets[b], i, buckets'[b][j])]_vars

\* find_nearest_nodes never prefers a peer of another bucket to one that shares
\* the target's bucket: the table's layout and the XOR metric agree, so a lookup
\* always moves into the half of the key space that holds the target.
NearestInTargetBucket ==
    \A target \in NodeId : \A number \in 1 .. NODES_PER_BUCKET + 1 :
      \A S \in find_nearest_nodes(target, number) :
        LET b == BucketOf([id |-> target])
        IN  (\E id \in S : BucketOf(id) # b)
              => \A i \in DOMAIN buckets[b] : buckets[b][i].mPeerId \in S

\* "Dropping Out-of-Date peer in bucket" (bdpeer.cc:560, the debug text of the
\* branch): a new peer takes the place of the head of a full bucket when the head
\* has not been heard of for more than MAX_RECV_PERIOD.
OutOfDateHeadReplaced ==
    \A id \in Peers \ Known :
      LET entries == buckets[BucketOf(id)]
      IN  Len(entries) = NODES_PER_BUCKET /\ now - entries[1].mLastRecvTime > MAX_RECV_PERIOD
            => \E j \in DOMAIN entries : AddToBucket(entries, id, {}, now)[j].mPeerId = id

=============================================================================
