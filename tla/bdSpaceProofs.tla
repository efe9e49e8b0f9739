--------------------------- MODULE bdSpaceProofs ---------------------------
(***************************************************************************)
(* The routing table is sound for every key length, bucket size, period    *)
(* and set of peers.                                                       *)
(*                                                                         *)
(* The invariants of bdSpace are not inductive one by one: that a bucket   *)
(* stays sorted needs that no timestamp lies in the future, and that the   *)
(* search of one bucket finds a peer needs that every entry is in its own  *)
(* bucket.  BucketOK states them together for one list.                    *)
(***************************************************************************)
EXTENDS bdSpace, bdStdDhtProofs, SeqLemmas

BucketOK(entries, b, ts) ==
    /\ entries \in Seq(BdPeer)
    /\ Len(entries) <= NODES_PER_BUCKET
    /\ \A i \in 1 .. Len(entries) :
         /\ BucketOf(entries[i].mPeerId) = b
         /\ entries[i].mLastRecvTime <= ts
         /\ entries[i].mLastSendTime <= ts
    /\ \A i, j \in 1 .. Len(entries) :
         /\ entries[i].mPeerId = entries[j].mPeerId => i = j
         /\ i < j => entries[i].mLastRecvTime <= entries[j].mLastRecvTime

IInv ==
    /\ TypeOK
    /\ \A b \in Bucket : BucketOK(buckets[b], b, now)

-----------------------------------------------------------------------------
\* Every bdId has a bucket.
LEMMA BucketOfType ==
  ASSUME NEW id \in BdId
  PROVE  BucketOf(id) \in Bucket
  <1>1. id.id \in NodeId /\ mOwnId \in NodeId
    BY SpaceAssumption DEF BdId
  <1>2. QED
    BY <1>1, DistanceBits, BucketBits DEF BucketOf, Bucket

\* Erasing an entry keeps a bucket sound and makes room for one more.
LEMMA EraseOK ==
  ASSUME NEW b \in Bucket, NEW ts \in Nat, NEW entries, BucketOK(entries, b, ts),
         NEW i \in 1 .. Len(entries)
  PROVE  /\ BucketOK(RemoveAt(entries, i), b, ts)
         /\ Len(RemoveAt(entries, i)) = Len(entries) - 1
         /\ \A j \in 1 .. Len(entries) - 1 :
              RemoveAt(entries, i)[j].mPeerId # entries[i].mPeerId
  <1> DEFINE r == RemoveAt(entries, i)
  <1>1. entries \in Seq(BdPeer) /\ Len(entries) \in Nat
    BY DEF BucketOK
  <1>2. /\ r \in Seq(BdPeer)
        /\ Len(r) = Len(entries) - 1
        /\ \A j \in 1 .. Len(entries) - 1 : r[j] = entries[IF j < i THEN j ELSE j + 1]
    BY <1>1, RemoveAtProperties
  <1> HIDE DEF r
  <1> DEFINE p(j) == IF j < i THEN j ELSE j + 1
  <1>3. \A j \in 1 .. Len(r) : p(j) \in 1 .. Len(entries) /\ p(j) # i /\ r[j] = entries[p(j)]
    BY <1>1, <1>2
  <1>4. \A j, k \in 1 .. Len(r) : (p(j) = p(k) => j = k) /\ (j < k => p(j) < p(k))
    BY <1>1, <1>2
  <1> HIDE DEF p
  <1>5. BucketOK(r, b, ts)
    <2>1. \A j \in 1 .. Len(r) :
            /\ BucketOf(r[j].mPeerId) = b
            /\ r[j].mLastRecvTime <= ts
            /\ r[j].mLastSendTime <= ts
      BY <1>3 DEF BucketOK
    <2>2. \A j, k \in 1 .. Len(r) :
            /\ r[j].mPeerId = r[k].mPeerId => j = k
            /\ j < k => r[j].mLastRecvTime <= r[k].mLastRecvTime
      BY <1>3, <1>4, SMTT(20) DEF BucketOK
    <2>3. Len(r) <= NODES_PER_BUCKET
      BY <1>1, <1>2, SpaceAssumption DEF BucketOK
    <2>4. QED
      BY <1>2, <2>1, <2>2, <2>3 DEF BucketOK
  <1>6. ASSUME NEW j \in 1 .. Len(entries) - 1
        PROVE  r[j].mPeerId # entries[i].mPeerId
    <2>1. p(j) \in 1 .. Len(entries) /\ p(j) # i /\ r[j] = entries[p(j)]
      BY <1>2, <1>3
    <2>2. QED
      BY <2>1 DEF BucketOK
  <1>7. QED
    BY <1>2, <1>5, <1>6 DEF r

\* Appending a peer of the bucket that is not in it, heard of just now, keeps a
\* bucket with room sound.
LEMMA AppendOK ==
  ASSUME NEW b \in Bucket, NEW ts \in Nat, NEW entries, BucketOK(entries, b, ts),
         Len(entries) < NODES_PER_BUCKET,
         NEW peer \in BdPeer, BucketOf(peer.mPeerId) = b,
         peer.mLastRecvTime = ts, peer.mLastSendTime <= ts,
         \A j \in 1 .. Len(entries) : entries[j].mPeerId # peer.mPeerId
  PROVE  BucketOK(Append(entries, peer), b, ts)
  <1> DEFINE r == Append(entries, peer)
  <1>1. entries \in Seq(BdPeer) /\ Len(entries) \in Nat
    BY DEF BucketOK
  <1>2. /\ r \in Seq(BdPeer)
        /\ Len(r) = Len(entries) + 1
        /\ \A j \in 1 .. Len(entries) : r[j] = entries[j]
        /\ r[Len(entries) + 1] = peer
    BY <1>1
  <1> HIDE DEF r
  <1>3. Len(r) <= NODES_PER_BUCKET
    BY <1>1, <1>2, SpaceAssumption
  <1>4. \A j \in 1 .. Len(r) : \/ j \in 1 .. Len(entries) /\ r[j] = entries[j]
                               \/ j = Len(entries) + 1 /\ r[j] = peer
    BY <1>1, <1>2
  <1>5. \A j \in 1 .. Len(r) :
          /\ BucketOf(r[j].mPeerId) = b
          /\ r[j].mLastRecvTime <= ts
          /\ r[j].mLastSendTime <= ts
    BY <1>4 DEF BucketOK
  <1>6. ASSUME NEW j \in 1 .. Len(r), NEW k \in 1 .. Len(r)
        PROVE  /\ r[j].mPeerId = r[k].mPeerId => j = k
               /\ j < k => r[j].mLastRecvTime <= r[k].mLastRecvTime
    <2>1. r[j].mPeerId = r[k].mPeerId => j = k
      BY <1>4 DEF BucketOK
    <2>2. ASSUME j < k
          PROVE  r[j].mLastRecvTime <= r[k].mLastRecvTime
      <3>1. j \in 1 .. Len(entries) /\ r[j] = entries[j]
        BY <1>1, <1>2, <1>4, <2>2
      <3>2. QED
        BY <1>4, <1>5, <2>2, <3>1 DEF BucketOK
    <2>3. QED
      BY <2>1, <2>2
  <1>7. QED
    BY <1>2, <1>3, <1>5, <1>6 DEF BucketOK, r

-----------------------------------------------------------------------------
\* The four ways add_peer ends, told apart by what the bucket held before.
AddCase(entries, id, peerflags, ts, result) ==
    LET newPeer == [mPeerId |-> id, mLastSendTime |-> ts, mLastRecvTime |-> ts,
                    mPeerFlags |-> peerflags]
        Absent == \A i \in 1 .. Len(entries) : entries[i].mPeerId # id
    IN  \/ \E i \in 1 .. Len(entries) :
             /\ entries[i].mPeerId = id
             /\ result = Append(RemoveAt(entries, i),
                                [entries[i] EXCEPT !.mLastRecvTime = ts,
                                                   !.mPeerFlags = @ \cup peerflags])
        \/ /\ Absent
           /\ Len(entries) < NODES_PER_BUCKET
           /\ result = Append(entries, newPeer)
        \/ /\ Absent
           /\ Len(entries) = NODES_PER_BUCKET
           /\ \E i \in 1 .. Len(entries) :
                /\ IsVictim(entries, peerflags, i)
                /\ result = Append(RemoveAt(entries, i), newPeer)
        \/ result = entries

\* The branch for an out-of-date head is never taken: the head was not heard of
\* in the future, so the difference it looks at is not positive.
LEMMA AddCases ==
  ASSUME NEW b \in Bucket, NEW ts \in Nat, NEW entries, BucketOK(entries, b, ts),
         NEW id \in BdId, NEW peerflags \in Flags
  PROVE  AddCase(entries, id, peerflags, ts, AddToBucket(entries, id, peerflags, ts))
  <1>0. entries \in Seq(BdPeer) /\ Len(entries) <= NODES_PER_BUCKET
    BY DEF BucketOK
  <1>1. /\ entries \in Seq(BdPeer)
        /\ DOMAIN entries = 1 .. Len(entries)
    BY <1>0
  <1> DEFINE IsPeer(i) == entries[i].mPeerId = id
             Found  == CHOOSE i \in DOMAIN entries : IsPeer(i)
             Victim == CHOOSE i \in DOMAIN entries : IsVictim(entries, peerflags, i)
  <1>2. CASE \E i \in DOMAIN entries : IsPeer(i)
    <2>1. Found \in DOMAIN entries /\ IsPeer(Found)
      BY <1>2
    <2>2. AddToBucket(entries, id, peerflags, ts)
            = Append(RemoveAt(entries, Found),
                     [entries[Found] EXCEPT !.mLastRecvTime = ts,
                                            !.mPeerFlags = @ \cup peerflags])
      BY <1>2 DEF AddToBucket, Refresh, HasRoom
    <2> HIDE DEF Found
    <2>3. QED
      BY <1>1, <2>1, <2>2 DEF AddCase
  <1>3. CASE ~ \E i \in DOMAIN entries : IsPeer(i)
    <2>1. \A i \in 1 .. Len(entries) : entries[i].mPeerId # id
      BY <1>1, <1>3
    <2>2. CASE Len(entries) < NODES_PER_BUCKET
      BY <1>3, <2>1, <2>2 DEF AddToBucket, Refresh, HasRoom, AddCase
    <2>3. CASE ~ (Len(entries) < NODES_PER_BUCKET)
      <3>0. Len(entries) \in Nat /\ NODES_PER_BUCKET \in Nat \ {0}
        BY <1>0, SpaceAssumption
      <3>1. Len(entries) = NODES_PER_BUCKET /\ 1 \in 1 .. Len(entries)
        BY <1>0, <2>3, <3>0
      <3>2. entries[1] \in BdPeer /\ entries[1].mLastRecvTime <= ts
        BY <1>1, <3>1 DEF BucketOK
      <3>3. ~ HeadOutOfDate(entries, ts)
        BY <3>2, SpaceAssumption DEF HeadOutOfDate, BdPeer
      <3>4. CASE \E i \in DOMAIN entries : IsVictim(entries, peerflags, i)
        <4>1. Victim \in DOMAIN entries /\ IsVictim(entries, peerflags, Victim)
          BY <3>4
        <4>2. AddToBucket(entries, id, peerflags, ts)
                = Append(RemoveAt(entries, Victim),
                         [mPeerId |-> id, mLastSendTime |-> ts, mLastRecvTime |-> ts,
                          mPeerFlags |-> peerflags])
          BY <1>3, <2>3, <3>3, <3>4 DEF AddToBucket, Refresh, HasRoom
        <4> HIDE DEF Victim
        <4>3. QED
          BY <1>1, <2>1, <3>1, <4>1, <4>2 DEF AddCase
      <3>5. CASE ~ \E i \in DOMAIN entries : IsVictim(entries, peerflags, i)
        BY <1>3, <2>3, <3>3, <3>5 DEF AddToBucket, Refresh, HasRoom, AddCase
      <3>6. QED
        BY <3>4, <3>5
    <2>4. QED
      BY <2>2, <2>3
  <1>4. QED
    BY <1>2, <1>3

\* add_peer keeps the peer's bucket sound.
LEMMA AddToBucketOK ==
  ASSUME NEW b \in Bucket, NEW ts \in Nat, NEW entries, BucketOK(entries, b, ts),
         NEW id \in BdId, BucketOf(id) = b, NEW peerflags \in Flags
  PROVE  BucketOK(AddToBucket(entries, id, peerflags, ts), b, ts)
  <1> DEFINE result == AddToBucket(entries, id, peerflags, ts)
             newPeer == [mPeerId |-> id, mLastSendTime |-> ts, mLastRecvTime |-> ts,
                         mPeerFlags |-> peerflags]
  <1>1. AddCase(entries, id, peerflags, ts, result)
    BY AddCases
  <1> HIDE DEF result
  <1>2. entries \in Seq(BdPeer) /\ Len(entries) \in Nat /\ Len(entries) <= NODES_PER_BUCKET
        /\ NODES_PER_BUCKET \in Nat
    BY SpaceAssumption DEF BucketOK
  <1>3. newPeer \in BdPeer /\ newPeer.mPeerId = id
        /\ newPeer.mLastRecvTime = ts /\ newPeer.mLastSendTime <= ts
    BY DEF BdPeer
  <1>4. ASSUME NEW i \in 1 .. Len(entries), entries[i].mPeerId = id,
               result = Append(RemoveAt(entries, i),
                               [entries[i] EXCEPT !.mLastRecvTime = ts,
                                                  !.mPeerFlags = @ \cup peerflags])
        PROVE  BucketOK(result, b, ts)
    <2> DEFINE peer == [entries[i] EXCEPT !.mLastRecvTime = ts,
                                          !.mPeerFlags = @ \cup peerflags]
    <2>1. entries[i] \in BdPeer /\ entries[i].mLastSendTime <= ts
      BY <1>2 DEF BucketOK
    <2>2. /\ peer \in BdPeer /\ peer.mPeerId = id
          /\ peer.mLastRecvTime = ts /\ peer.mLastSendTime <= ts
      BY <1>4, <2>1 DEF BdPeer, Flags
    <2> HIDE DEF peer
    <2>3. /\ BucketOK(RemoveAt(entries, i), b, ts)
          /\ Len(RemoveAt(entries, i)) = Len(entries) - 1
          /\ \A j \in 1 .. Len(entries) - 1 : RemoveAt(entries, i)[j].mPeerId # entries[i].mPeerId
      BY EraseOK
    <2>4. Len(RemoveAt(entries, i)) < NODES_PER_BUCKET
      BY <1>2, <2>3
    <2>5. BucketOK(Append(RemoveAt(entries, i), peer), b, ts)
      BY <1>4, <2>2, <2>3, <2>4, AppendOK
    <2>6. QED
      BY <1>4, <2>5 DEF peer
  <1>5. ASSUME \A i \in 1 .. Len(entries) : entries[i].mPeerId # id,
               Len(entries) < NODES_PER_BUCKET,
               result = Append(entries, newPeer)
        PROVE  BucketOK(result, b, ts)
    <2> HIDE DEF newPeer
    <2>1. QED
      BY <1>3, <1>5, AppendOK
  <1>6. ASSUME \A i \in 1 .. Len(entries) : entries[i].mPeerId # id,
               NEW i \in 1 .. Len(entries),
               result = Append(RemoveAt(entries, i), newPeer)
        PROVE  BucketOK(result, b, ts)
    <2> HIDE DEF newPeer
    <2>1. /\ BucketOK(RemoveAt(entries, i), b, ts)
          /\ Len(RemoveAt(entries, i)) = Len(entries) - 1
      BY EraseOK
    <2>2. Len(RemoveAt(entries, i)) < NODES_PER_BUCKET
      BY <1>2, <2>1
    <2>3. \A j \in 1 .. Len(entries) - 1 :
            RemoveAt(entries, i)[j] = entries[IF j < i THEN j ELSE j + 1]
      BY <1>2, RemoveAtProperties
    <2>4. \A j \in 1 .. Len(entries) - 1 : (IF j < i THEN j ELSE j + 1) \in 1 .. Len(entries)
      BY <1>2
    <2>5. \A j \in 1 .. Len(RemoveAt(entries, i)) : RemoveAt(entries, i)[j].mPeerId # id
      BY <1>6, <2>1, <2>3, <2>4
    <2>6. QED
      BY <1>3, <1>6, <2>1, <2>2, <2>5, AppendOK
  <1>7. QED
    BY <1>1, <1>4, <1>5, <1>6 DEF AddCase, result

-----------------------------------------------------------------------------
\* Pinging a peer changes only the time of the last send.
LEMMA PingOK ==
  ASSUME NEW b \in Bucket, NEW ts \in Nat, NEW entries, BucketOK(entries, b, ts),
         NEW i \in DOMAIN entries
  PROVE  BucketOK([entries EXCEPT ![i].mLastSendTime = ts], b, ts)
  <1> DEFINE r == [entries EXCEPT ![i].mLastSendTime = ts]
  <1>1. entries \in Seq(BdPeer) /\ Len(entries) \in Nat /\ i \in 1 .. Len(entries)
    BY DEF BucketOK
  <1>2. \A j \in 1 .. Len(entries) : entries[j] \in BdPeer
    BY <1>1
  <1>3. [entries[i] EXCEPT !.mLastSendTime = ts] \in BdPeer
    BY <1>1, <1>2 DEF BdPeer
  <1>4. r \in Seq(BdPeer) /\ Len(r) = Len(entries)
    BY <1>1, <1>3
  <1>5. ASSUME NEW j \in 1 .. Len(entries)
        PROVE  /\ r[j].mPeerId = entries[j].mPeerId
               /\ r[j].mLastRecvTime = entries[j].mLastRecvTime
               /\ r[j].mLastSendTime <= ts
    <2>1. CASE j = i
      BY <1>1, <1>2, <2>1 DEF BdPeer
    <2>2. CASE j # i
      <3>1. r[j] = entries[j]
        BY <1>1, <2>2
      <3>2. QED
        BY <3>1 DEF BucketOK
    <2>3. QED
      BY <2>1, <2>2
  <1> HIDE DEF r
  <1>6. QED
    BY <1>4, <1>5 DEF BucketOK, r

\* Init establishes the invariant.
LEMMA InitIInv == Init => IInv
  <1> SUFFICES ASSUME Init PROVE IInv
    OBVIOUS
  <1>1. TypeOK
    BY SpaceAssumption DEF Init, TypeOK
  <1>2. \A b \in Bucket : buckets[b] = <<>> /\ buckets[b] \in Seq(BdPeer) /\ Len(buckets[b]) = 0
    BY DEF Init
  <1>3. \A b \in Bucket : BucketOK(buckets[b], b, now)
    BY <1>2, SpaceAssumption DEF BucketOK
  <1>4. QED
    BY <1>1, <1>3 DEF IInv

\* Every step preserves it.
LEMMA NextIInv == IInv /\ [Next]_vars => IInv'
  <1> SUFFICES ASSUME IInv, [Next]_vars PROVE IInv'
    OBVIOUS
  <1>0. /\ buckets \in [Bucket -> Seq(BdPeer)] /\ now \in Nat /\ now <= MaxTime /\ MaxTime \in Nat
        /\ \A b \in Bucket : BucketOK(buckets[b], b, now)
    BY SpaceAssumption DEF IInv, TypeOK
  <1>1. ASSUME NEW id \in Peers, NEW peerflags \in Flags, add_peer(id, peerflags)
        PROVE  IInv'
    <2>1. id \in BdId /\ BucketOf(id) \in Bucket
      BY SpaceAssumption, BucketOfType DEF BdId
    <2> DEFINE b == BucketOf(id)
               r == AddToBucket(buckets[b], id, peerflags, now)
    <2>2. BucketOK(r, b, now)
      BY <1>0, <2>1, AddToBucketOK
    <2>3. buckets' = [buckets EXCEPT ![b] = r] /\ now' = now
      BY <1>1 DEF add_peer
    <2> HIDE DEF b, r
    <2>4. r \in Seq(BdPeer)
      BY <2>2 DEF BucketOK
    <2>5. TypeOK'
      <3>1. buckets' \in [Bucket -> Seq(BdPeer)]
        BY <1>0, <2>3, <2>4
      <3>2. QED
        BY <1>0, <2>3, <3>1 DEF TypeOK
    <2>6. \A c \in Bucket : buckets'[c] = IF c = b THEN r ELSE buckets[c]
      BY <1>0, <2>3
    <2>7. \A c \in Bucket : BucketOK(buckets'[c], c, now')
      BY <1>0, <2>2, <2>3, <2>6
    <2>8. QED
      BY <2>5, <2>7 DEF IInv
  <1>2. CASE out_of_date_peer
    <2>0. PICK b \in Bucket :
            \E i \in StaleAt(b) : buckets' = [buckets EXCEPT ![b][i].mLastSendTime = now]
      BY <1>2 DEF out_of_date_peer
    <2>1. PICK i \in StaleAt(b) : buckets' = [buckets EXCEPT ![b][i].mLastSendTime = now]
      BY <2>0
    <2>2. i \in DOMAIN buckets[b] /\ now' = now
      BY <1>2, <2>1 DEF StaleAt, out_of_date_peer
    <2> DEFINE r == [buckets[b] EXCEPT ![i].mLastSendTime = now]
    <2>3. BucketOK(r, b, now)
      BY <1>0, <2>2, PingOK
    <2>4. buckets' = [buckets EXCEPT ![b] = r]
      BY <2>1
    <2> HIDE DEF r
    <2>5. r \in Seq(BdPeer)
      BY <2>3 DEF BucketOK
    <2>6. TypeOK'
      BY <1>0, <2>2, <2>4, <2>5 DEF TypeOK
    <2>7. \A c \in Bucket : buckets'[c] = IF c = b THEN r ELSE buckets[c]
      BY <1>0, <2>4
    <2>8. \A c \in Bucket : BucketOK(buckets'[c], c, now')
      BY <1>0, <2>2, <2>3, <2>7
    <2>9. QED
      BY <2>6, <2>8 DEF IInv
  <1>3. CASE clear
    <2>1. buckets' = [b \in Bucket |-> <<>>] /\ now' = now
      BY <1>3 DEF clear
    <2>2. \A b \in Bucket :
            buckets'[b] = <<>> /\ buckets'[b] \in Seq(BdPeer) /\ Len(buckets'[b]) = 0
      BY <2>1
    <2>3. \A b \in Bucket : BucketOK(buckets'[b], b, now')
      BY <2>2, SpaceAssumption DEF BucketOK
    <2>4. TypeOK'
      BY <1>0, <2>1 DEF TypeOK
    <2>5. QED
      BY <2>3, <2>4 DEF IInv
  <1>4. CASE Tick
    <2>1. buckets' = buckets /\ now' = now + 1 /\ now' \in 0 .. MaxTime
      BY <1>0, <1>4 DEF Tick
    <2>2. \A b \in Bucket : \A i \in 1 .. Len(buckets[b]) : buckets[b][i] \in BdPeer
      BY <1>0
    <2>3. ASSUME NEW b \in Bucket
          PROVE  BucketOK(buckets[b], b, now + 1)
      <3>1. ASSUME NEW i \in 1 .. Len(buckets[b])
            PROVE  /\ buckets[b][i].mLastRecvTime <= now + 1
                   /\ buckets[b][i].mLastSendTime <= now + 1
        <4>1. /\ buckets[b][i].mLastRecvTime \in Nat /\ buckets[b][i].mLastRecvTime <= now
              /\ buckets[b][i].mLastSendTime \in Nat /\ buckets[b][i].mLastSendTime <= now
          BY <1>0, <2>2 DEF BucketOK, BdPeer
        <4>2. QED
          BY <1>0, <4>1
      <3>2. QED
        BY <1>0, <3>1 DEF BucketOK
    <2>4. TypeOK'
      BY <1>0, <2>1 DEF TypeOK
    <2>5. QED
      BY <2>1, <2>3, <2>4 DEF IInv
  <1>5. CASE UNCHANGED vars
    <2>1. buckets' = buckets /\ now' = now
      BY <1>5 DEF vars
    <2>2. TypeOK'
      BY <2>1 DEF TypeOK, IInv
    <2>3. QED
      BY <1>0, <2>1, <2>2 DEF IInv
  <1>6. QED
    BY <1>1, <1>2, <1>3, <1>4, <1>5 DEF Next

\* The inductive invariant holds in every reachable state.
THEOREM SpaceInvariant == Spec => []IInv
  BY InitIInv, NextIInv, PTL DEF Spec

\* The table is always well typed.
THEOREM TypeCorrect == Spec => []TypeOK
  <1>1. IInv => TypeOK
    BY DEF IInv
  <1>2. QED
    BY <1>1, SpaceInvariant, PTL

\* add_peer never stores a peer twice nor in the wrong bucket.
THEOREM PeersKnownOnce == Spec => []KnownOnce
  <1>1. IInv => KnownOnce
    <2> SUFFICES ASSUME IInv, NEW b \in Bucket, NEW c \in Bucket,
                        NEW i \in DOMAIN buckets[b], NEW j \in DOMAIN buckets[c]
                 PROVE  /\ BucketOf(buckets[b][i].mPeerId) = b
                        /\ buckets[b][i].mPeerId = buckets[c][j].mPeerId => b = c /\ i = j
      BY DEF KnownOnce
    <2>1. /\ BucketOK(buckets[b], b, now) /\ BucketOK(buckets[c], c, now)
          /\ i \in 1 .. Len(buckets[b]) /\ j \in 1 .. Len(buckets[c])
      BY DEF IInv, TypeOK
    <2>2. BucketOf(buckets[b][i].mPeerId) = b /\ BucketOf(buckets[c][j].mPeerId) = c
      BY <2>1 DEF BucketOK
    <2>3. ASSUME buckets[b][i].mPeerId = buckets[c][j].mPeerId
          PROVE  b = c /\ i = j
      BY <2>1, <2>2, <2>3 DEF BucketOK
    <2>4. QED
      BY <2>2, <2>3
  <1>2. QED
    BY <1>1, SpaceInvariant, PTL

\* No sequence of calls overfills a bucket.
THEOREM BucketsStayBounded == Spec => []BucketsBounded
  <1>1. IInv => BucketsBounded
    BY DEF IInv, BucketsBounded, BucketOK
  <1>2. QED
    BY <1>1, SpaceInvariant, PTL

\* Every bucket is sorted by the time its peers were last heard of.
THEOREM BucketsStaySorted == Spec => []SortedByRecvTime
  <1>1. IInv => SortedByRecvTime
    <2> SUFFICES ASSUME IInv, NEW b \in Bucket, NEW i \in DOMAIN buckets[b]
                 PROVE  /\ buckets[b][i].mLastRecvTime <= now
                        /\ buckets[b][i].mLastSendTime <= now
                        /\ \A j \in DOMAIN buckets[b] :
                             i < j => buckets[b][i].mLastRecvTime <= buckets[b][j].mLastRecvTime
      BY DEF SortedByRecvTime
    <2>1. /\ BucketOK(buckets[b], b, now)
          /\ DOMAIN buckets[b] = 1 .. Len(buckets[b])
      BY DEF IInv, TypeOK
    <2>2. QED
      BY <2>1 DEF BucketOK
  <1>2. QED
    BY <1>1, SpaceInvariant, PTL

\* A lookup never prefers a peer of another bucket to one of the target's bucket.
THEOREM NearestPrefersTargetBucket == Spec => []NearestInTargetBucket
  <1>1. IInv => NearestInTargetBucket
    <2> SUFFICES ASSUME IInv, NEW target \in NodeId,
                        NEW number \in 1 .. NODES_PER_BUCKET + 1,
                        NEW S \in find_nearest_nodes(target, number),
                        NEW far \in S, BucketOf(far) # BucketOf([id |-> target]),
                        NEW i \in DOMAIN buckets[BucketOf([id |-> target])],
                        buckets[BucketOf([id |-> target])][i].mPeerId \notin S
                 PROVE  FALSE
      BY DEF NearestInTargetBucket
    <2> DEFINE b == BucketOf([id |-> target])
               near == buckets[b][i].mPeerId
    <2>0. mOwnId \in NodeId
      BY SpaceAssumption
    <2>1. b = bdStdBucketDistance(bdStdDistance(mOwnId, target))
      BY DEF BucketOf
    <2>2. b \in Bucket
      BY <2>0, <2>1, DistanceBits, BucketBits DEF Bucket
    <2>3. /\ BucketOK(buckets[b], b, now) /\ i \in 1 .. Len(buckets[b])
          /\ buckets[b] \in Seq(BdPeer)
      BY <2>2 DEF IInv, TypeOK
    <2>4. near \in BdId /\ BucketOf(near) = b
      <3>1. buckets[b][i] \in BdPeer
        BY <2>3
      <3>2. BucketOf(near) = b
        BY <2>3 DEF BucketOK
      <3>3. QED
        BY <3>1, <3>2 DEF BdPeer
    <2>5. near \in Known \ S
      BY <2>2, <2>3 DEF Known, Entries, ToSet
    <2>6. far \in Known
      BY DEF find_nearest_nodes
    <2>7. far \in BdId
      <3>1. PICK c \in Bucket : \E j \in DOMAIN buckets[c] : far = buckets[c][j].mPeerId
        BY <2>6 DEF Known, Entries, ToSet
      <3>2. PICK j \in DOMAIN buckets[c] : far = buckets[c][j].mPeerId
        BY <3>1
      <3>3. buckets[c] \in Seq(BdPeer)
        BY DEF IInv, TypeOK
      <3>4. buckets[c][j] \in BdPeer
        BY <3>3
      <3>5. QED
        BY <3>2, <3>4 DEF BdPeer
    <2>8. ~ Less(bdStdDistance(target, near.id), bdStdDistance(target, far.id))
      BY <2>5 DEF find_nearest_nodes
    <2>9. near.id \in NodeId /\ far.id \in NodeId
      BY <2>4, <2>7 DEF BdId
    <2>10. /\ bdStdBucketDistance(bdStdDistance(mOwnId, near.id)) = b
           /\ bdStdBucketDistance(bdStdDistance(mOwnId, far.id)) # b
      BY <2>4 DEF BucketOf
    <2> HIDE DEF near, b
    <2>11. Less(bdStdDistance(target, near.id), bdStdDistance(target, far.id))
      BY <2>0, <2>1, <2>9, <2>10, SameBucketIsCloser
    <2>12. QED
      BY <2>8, <2>11
  <1>2. QED
    BY <1>1, SpaceInvariant, PTL

-----------------------------------------------------------------------------
\* r is entries with the entry at i replaced by peer at the back.
IsReplacement(entries, i, peer, r) ==
    /\ DOMAIN r = 1 .. Len(entries)
    /\ Len(entries) \in DOMAIN r
    /\ r[Len(entries)] = peer
    /\ \A j \in 1 .. Len(entries) : j # i => \E k \in 1 .. Len(entries) : r[k] = entries[j]
    /\ \A k \in 1 .. Len(entries) :
         k # Len(entries) => \E j \in 1 .. Len(entries) : j # i /\ r[k] = entries[j]

\* Erasing an entry and appending a peer keeps every other entry.
LEMMA ReplaceKeepsOthers ==
  ASSUME NEW entries \in Seq(BdPeer), NEW i \in 1 .. Len(entries), NEW peer \in BdPeer
  PROVE  IsReplacement(entries, i, peer, Append(RemoveAt(entries, i), peer))
  <1> DEFINE s == RemoveAt(entries, i)
             r == Append(s, peer)
  <1>1. /\ s \in Seq(BdPeer) /\ Len(s) = Len(entries) - 1
        /\ \A j \in 1 .. Len(entries) - 1 : s[j] = entries[IF j < i THEN j ELSE j + 1]
    BY RemoveAtProperties
  <1>2. Len(entries) \in Nat
    OBVIOUS
  <1> HIDE DEF s
  <1>3. /\ DOMAIN r = 1 .. Len(entries)
        /\ Len(entries) \in DOMAIN r
        /\ r[Len(entries)] = peer
        /\ \A k \in 1 .. Len(entries) - 1 : r[k] = s[k]
    BY <1>1, <1>2
  <1> HIDE DEF r
  <1>4. ASSUME NEW j \in 1 .. Len(entries), j # i
        PROVE  \E k \in 1 .. Len(entries) : r[k] = entries[j]
    <2> DEFINE k == IF j < i THEN j ELSE j - 1
    <2>1. k \in 1 .. Len(entries) - 1 /\ (IF k < i THEN k ELSE k + 1) = j
      BY <1>2, <1>4
    <2> HIDE DEF k
    <2>2. r[k] = s[k] /\ s[k] = entries[j]
      BY <1>1, <1>3, <2>1
    <2>3. k \in 1 .. Len(entries)
      BY <1>2, <2>1
    <2>4. QED
      BY <2>2, <2>3
  <1>5. ASSUME NEW k \in 1 .. Len(entries), k # Len(entries)
        PROVE  \E j \in 1 .. Len(entries) : j # i /\ r[k] = entries[j]
    <2> DEFINE j == IF k < i THEN k ELSE k + 1
    <2>1. k \in 1 .. Len(entries) - 1 /\ j \in 1 .. Len(entries) /\ j # i
      BY <1>2, <1>5
    <2>2. r[k] = entries[j]
      BY <1>1, <1>3, <2>1
    <2>3. QED
      BY <2>1, <2>2
  <1>6. QED
    BY <1>3, <1>4, <1>5 DEF IsReplacement, r, s

\* r keeps every entry, or all but one, and that one is the one IsVictim describes.
LosesOnlyVictim(entries, id, peerflags, r) ==
    LET Stays(i) == \E j \in DOMAIN r : r[j].mPeerId = entries[i].mPeerId
    IN  \/ \A i \in DOMAIN entries : Stays(i)
        \/ \E v \in DOMAIN entries :
             /\ ~ Stays(v)
             /\ \A i \in DOMAIN entries : i # v => Stays(i)
             /\ Len(entries) = NODES_PER_BUCKET
             /\ IsVictim(entries, peerflags, v)
             /\ \A i \in DOMAIN entries : entries[i].mPeerId # id
             /\ \E j \in DOMAIN r : r[j].mPeerId = id /\ r[j].mPeerFlags = peerflags

\* What add_peer does to the bucket of the peer, seen from the entries it had.
LEMMA AddLoses ==
  ASSUME NEW b \in Bucket, NEW ts \in Nat, NEW entries, BucketOK(entries, b, ts),
         NEW id \in BdId, NEW peerflags \in Flags
  PROVE  LosesOnlyVictim(entries, id, peerflags, AddToBucket(entries, id, peerflags, ts))
  <1> DEFINE r == AddToBucket(entries, id, peerflags, ts)
             Stays(i) == \E j \in DOMAIN r : r[j].mPeerId = entries[i].mPeerId
             newPeer == [mPeerId |-> id, mLastSendTime |-> ts, mLastRecvTime |-> ts,
                         mPeerFlags |-> peerflags]
  <1>1. AddCase(entries, id, peerflags, ts, r)
    BY AddCases
  <1> HIDE DEF r
  <1>2. entries \in Seq(BdPeer) /\ DOMAIN entries = 1 .. Len(entries) /\ Len(entries) \in Nat
    BY DEF BucketOK
  <1>3. newPeer \in BdPeer /\ newPeer.mPeerId = id /\ newPeer.mPeerFlags = peerflags
    BY DEF BdPeer
  <1> HIDE DEF newPeer
  <1>4. ASSUME NEW i \in 1 .. Len(entries), entries[i].mPeerId = id,
               r = Append(RemoveAt(entries, i),
                          [entries[i] EXCEPT !.mLastRecvTime = ts,
                                             !.mPeerFlags = @ \cup peerflags])
        PROVE  \A j \in DOMAIN entries : Stays(j)
    <2> DEFINE peer == [entries[i] EXCEPT !.mLastRecvTime = ts, !.mPeerFlags = @ \cup peerflags]
    <2>1. entries[i] \in BdPeer
      BY <1>2
    <2>2. peer \in BdPeer /\ peer.mPeerId = entries[i].mPeerId
      BY <2>1 DEF BdPeer, Flags
    <2> HIDE DEF peer
    <2>3. r = Append(RemoveAt(entries, i), peer)
      BY <1>4 DEF peer
    <2>4. IsReplacement(entries, i, peer, r)
      BY <1>2, <2>2, <2>3, ReplaceKeepsOthers
    <2>5. QED
      BY <1>2, <2>2, <2>4 DEF IsReplacement
  <1>5. ASSUME r = Append(entries, newPeer)
        PROVE  \A j \in DOMAIN entries : Stays(j)
    <2>1. \A j \in 1 .. Len(entries) : j \in DOMAIN r /\ r[j] = entries[j]
      BY <1>2, <1>3, <1>5
    <2>2. QED
      BY <1>2, <2>1
  <1>6. ASSUME \A i \in 1 .. Len(entries) : entries[i].mPeerId # id,
               Len(entries) = NODES_PER_BUCKET,
               NEW v \in 1 .. Len(entries), IsVictim(entries, peerflags, v),
               r = Append(RemoveAt(entries, v), newPeer)
        PROVE  /\ ~ Stays(v)
               /\ \A i \in DOMAIN entries : i # v => Stays(i)
               /\ \E j \in DOMAIN r : r[j].mPeerId = id /\ r[j].mPeerFlags = peerflags
    <2>1. IsReplacement(entries, v, newPeer, r)
      BY <1>2, <1>3, <1>6, ReplaceKeepsOthers
    <2>2. ~ Stays(v)
      <3> SUFFICES ASSUME NEW k \in DOMAIN r, r[k].mPeerId = entries[v].mPeerId
                   PROVE  FALSE
        OBVIOUS
      <3>1. CASE k = Len(entries)
        BY <1>2, <1>3, <1>6, <2>1, <3>1 DEF IsReplacement
      <3>2. CASE k # Len(entries)
        <4>1. PICK j \in 1 .. Len(entries) : j # v /\ r[k] = entries[j]
          BY <2>1, <3>2 DEF IsReplacement
        <4>2. QED
          BY <4>1 DEF BucketOK
      <3>3. QED
        BY <3>1, <3>2
    <2>3. QED
      BY <1>2, <1>3, <2>1, <2>2 DEF IsReplacement
  <1>7. QED
    BY <1>1, <1>2, <1>4, <1>5, <1>6 DEF AddCase, LosesOnlyVictim, r, newPeer

\* No call takes a peer's place away except as EvictionJustified allows.
THEOREM EvictionsAreJustified == Spec => EvictionJustified
  <1> DEFINE Justified(b, i) ==
               \/ \A c \in Bucket : buckets'[c] = <<>>
               \/ /\ Len(buckets[b]) = NODES_PER_BUCKET
                  /\ LostFrom(b) = {i}
                  /\ \E j \in DOMAIN buckets'[b] :
                       /\ buckets'[b][j].mPeerId \notin Known
                       /\ YieldsTo(buckets[b], i, buckets'[b][j])
             A == \A b \in Bucket : \A i \in LostFrom(b) : Justified(b, i)
  <1>1. ASSUME IInv, [Next]_vars
        PROVE  [A]_vars
    <2> SUFFICES ASSUME NEW b \in Bucket, NEW i \in LostFrom(b), Next
                 PROVE  Justified(b, i)
      BY <1>1
    <2>0. /\ buckets \in [Bucket -> Seq(BdPeer)] /\ now \in Nat
          /\ \A c \in Bucket : BucketOK(buckets[c], c, now)
          /\ i \in DOMAIN buckets[b]
          /\ \A j \in DOMAIN buckets'[b] : buckets'[b][j].mPeerId # buckets[b][i].mPeerId
      BY <1>1, SpaceAssumption DEF IInv, TypeOK, LostFrom
    <2>1. ASSUME buckets'[b] = buckets[b]
          PROVE  FALSE
      BY <2>0, <2>1
    <2>2. ASSUME NEW id \in Peers, NEW peerflags \in Flags, add_peer(id, peerflags)
          PROVE  Justified(b, i)
      <3> DEFINE r == AddToBucket(buckets[b], id, peerflags, now)
      <3>1. id \in BdId /\ BucketOf(id) \in Bucket
        BY SpaceAssumption, BucketOfType DEF BdId
      <3>2. BucketOf(id) = b /\ buckets'[b] = r
        BY <2>0, <2>1, <2>2, <3>1 DEF add_peer
      <3> DEFINE Stays(k) == \E j \in DOMAIN r : r[j].mPeerId = buckets[b][k].mPeerId
      <3>3. ~ Stays(i)
        BY <2>0, <3>2
      <3>4. LosesOnlyVictim(buckets[b], id, peerflags, r)
        BY <2>0, <3>1, AddLoses
      <3> HIDE DEF r
      <3>5. /\ \A k \in DOMAIN buckets[b] : k # i => Stays(k)
            /\ Len(buckets[b]) = NODES_PER_BUCKET
            /\ IsVictim(buckets[b], peerflags, i)
            /\ \A k \in DOMAIN buckets[b] : buckets[b][k].mPeerId # id
            /\ \E j \in DOMAIN r : r[j].mPeerId = id /\ r[j].mPeerFlags = peerflags
        BY <2>0, <3>3, <3>4 DEF LosesOnlyVictim
      <3>6. LostFrom(b) = {i}
        BY <3>2, <3>5 DEF LostFrom
      <3>7. id \notin Known
        <4> SUFFICES ASSUME NEW c \in Bucket, NEW k \in DOMAIN buckets[c],
                            buckets[c][k].mPeerId = id
                     PROVE  FALSE
          BY DEF Known, Entries, ToSet
        <4>1. BucketOK(buckets[c], c, now) /\ k \in 1 .. Len(buckets[c])
          BY <2>0
        <4>2. c = b
          BY <3>2, <4>1 DEF BucketOK
        <4>3. QED
          BY <3>5, <4>2
      <3>8. PICK j \in DOMAIN buckets'[b] :
              buckets'[b][j].mPeerId = id /\ buckets'[b][j].mPeerFlags = peerflags
        BY <3>2, <3>5
      <3>9. QED
        BY <3>5, <3>6, <3>7, <3>8 DEF IsVictim, YieldsTo
    <2>3. CASE out_of_date_peer
      <3>1. PICK c \in Bucket :
              \E k \in StaleAt(c) : buckets' = [buckets EXCEPT ![c][k].mLastSendTime = now]
        BY <2>3 DEF out_of_date_peer
      <3>2. PICK k \in StaleAt(c) : buckets' = [buckets EXCEPT ![c][k].mLastSendTime = now]
        BY <3>1
      <3>3. c = b
        BY <2>0, <2>1, <3>2
      <3>4. buckets'[b] = [buckets[b] EXCEPT ![k].mLastSendTime = now]
        BY <2>0, <3>2, <3>3
      <3>5. buckets[b][i] \in BdPeer
        BY <2>0
      <3>6. i \in DOMAIN buckets'[b] /\ buckets'[b][i].mPeerId = buckets[b][i].mPeerId
        BY <2>0, <3>4, <3>5 DEF BdPeer
      <3>7. QED
        BY <2>0, <3>6
    <2>4. CASE clear
      BY <2>4 DEF clear
    <2>5. CASE Tick
      BY <2>1, <2>5 DEF Tick
    <2>6. QED
      BY <2>2, <2>3, <2>4, <2>5 DEF Next
  <1>2. QED
    BY <1>1, SpaceInvariant, PTL DEF Spec, EvictionJustified

=============================================================================
