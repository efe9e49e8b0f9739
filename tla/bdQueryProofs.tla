--------------------------- MODULE bdQueryProofs ---------------------------
(***************************************************************************)
(* Proofs about module bdQuery, for every length of the lists, every set   *)
(* of peers and every order of answers, silence and turns of the node.     *)
(*                                                                         *)
(* The lists are sets with a bound on their cardinality; what makes the    *)
(* bound inductive is that an entry is replaced by one of the same peer,   *)
(* or added after the list has been trimmed to one less.                   *)
(***************************************************************************)
EXTENDS bdQuery, QueryOutcome, bdStdDhtProofs, FiniteSetTheorems

\* What ListsSound says of one list at time t, and what it takes to count it.
Sound(S, t) ==
    /\ S \subseteq QueryPeer
    /\ IsFiniteSet(S)
    /\ Cardinality(S) <= NODES_PER_BUCKET
    /\ \A p, q \in S : p.mPeerId = q.mPeerId => p = q
    /\ \A p \in S : p.mLastSendTime <= t /\ p.mLastRecvTime <= t

IInv ==
    /\ TypeOK
    /\ Sound(mClosest, now)
    /\ Sound(mPotentialClosest, now)
    /\ AskedPointIsCloser

-----------------------------------------------------------------------------
(***************************************************************************)
(* What can be done to a list.                                             *)
(***************************************************************************)
LEMMA SoundLater ==
    ASSUME NEW S, NEW t \in Nat, NEW u \in Nat, t <= u, Sound(S, t)
    PROVE  Sound(S, u)
BY DEF Sound, QueryPeer

LEMMA SoundSubset ==
    ASSUME NEW S, NEW t \in Nat, Sound(S, t), NEW T \in SUBSET S
    PROVE  Sound(T, t)
<1>1. IsFiniteSet(T) /\ Cardinality(T) <= Cardinality(S)
  BY FS_Subset DEF Sound
<1>2. Cardinality(T) \in Nat /\ Cardinality(S) \in Nat
  BY <1>1, FS_CardinalityType DEF Sound
<1>3. Cardinality(T) <= NODES_PER_BUCKET
  BY <1>1, <1>2, QueryAssumption DEF Sound
<1> QED
  BY <1>1, <1>3 DEF Sound

\* An entry is updated.
LEMMA SoundReplace ==
    ASSUME NEW S, NEW t \in Nat, Sound(S, t),
           NEW p \in S, NEW q \in QueryPeer,
           q.mPeerId = p.mPeerId, q.mLastSendTime <= t, q.mLastRecvTime <= t
    PROVE  Sound((S \ {p}) \cup {q}, t)
<1> DEFINE R == S \ {p}
           T == R \cup {q}
<1>1. IsFiniteSet(R) /\ Cardinality(R) = Cardinality(S) - 1
  BY FS_RemoveElement DEF Sound
<1>2. q \notin R
  BY DEF Sound
<1>3. IsFiniteSet(T) /\ Cardinality(T) = Cardinality(R) + 1
  BY <1>1, <1>2, FS_AddElement
<1>4. Cardinality(S) \in Nat
  BY FS_CardinalityType DEF Sound
<1>5. Cardinality(T) <= NODES_PER_BUCKET
  BY <1>1, <1>3, <1>4 DEF Sound
<1>6. \A a, b \in T : a.mPeerId = b.mPeerId => a = b
  BY DEF Sound
<1>7. T \subseteq QueryPeer /\ \A a \in T : a.mLastSendTime <= t /\ a.mLastRecvTime <= t
  BY DEF Sound
<1> QED
  BY <1>3, <1>5, <1>6, <1>7 DEF Sound

\* A new entry is added to a list that has room.
LEMMA SoundAdd ==
    ASSUME NEW S, NEW t \in Nat, Sound(S, t), Cardinality(S) <= NODES_PER_BUCKET - 1,
           NEW q \in QueryPeer, EntriesOf(S, q.mPeerId) = {},
           q.mLastSendTime <= t, q.mLastRecvTime <= t
    PROVE  Sound(S \cup {q}, t)
<1> DEFINE T == S \cup {q}
<1>1. \A a \in S : a.mPeerId # q.mPeerId
  BY DEF EntriesOf
<1>2. q \notin S
  BY <1>1
<1>3. IsFiniteSet(T) /\ Cardinality(T) = Cardinality(S) + 1
  BY <1>2, FS_AddElement DEF Sound
<1>4. Cardinality(S) \in Nat
  BY FS_CardinalityType DEF Sound
<1>5. Cardinality(T) <= NODES_PER_BUCKET
  BY <1>3, <1>4, QueryAssumption
<1>6. \A a, b \in T : a.mPeerId = b.mPeerId => a = b
  BY <1>1 DEF Sound
<1>7. T \subseteq QueryPeer /\ \A a \in T : a.mLastSendTime <= t /\ a.mLastRecvTime <= t
  BY DEF Sound
<1> QED
  BY <1>3, <1>5, <1>6, <1>7 DEF Sound

\* Trimming takes entries away, until no more than n are left.
LEMMA TrimmedFits ==
    ASSUME NEW S, NEW n \in Nat, NEW K \in Trimmed(S, n)
    PROVE  K \subseteq S /\ Cardinality(K) <= n
BY DEF Trimmed

-----------------------------------------------------------------------------
(***************************************************************************)
(* The initial state: the peers of the routing table, never asked.         *)
(***************************************************************************)
LEMMA StartingListSound ==
    ASSUME NEW S \in SUBSET Peers, Cardinality(S) <= QUERY_START_PEERS
    PROVE  Sound([mPeerId : S, mLastSendTime : {0}, mLastRecvTime : {0}], mQueryTS)
<1> DEFINE L == [mPeerId : S, mLastSendTime : {0}, mLastRecvTime : {0}]
           f == [id \in S |-> [mPeerId |-> id, mLastSendTime |-> 0, mLastRecvTime |-> 0]]
<1>1. IsFiniteSet(S) /\ Cardinality(S) \in Nat
  BY QueryAssumption, FS_Subset, FS_CardinalityType
<1>2. \A p \in L : /\ p.mPeerId \in S /\ p.mLastSendTime = 0 /\ p.mLastRecvTime = 0
                   /\ p = [mPeerId |-> p.mPeerId, mLastSendTime |-> 0, mLastRecvTime |-> 0]
  OBVIOUS
<1>3. f \in Bijection(S, L)
  <2>1. f \in [S -> L]
    OBVIOUS
  <2>2. \A a, b \in S : f[a] = f[b] => a = b
    OBVIOUS
  <2>3. \A p \in L : \E a \in S : f[a] = p
    BY <1>2
  <2> QED
    BY <2>1, <2>2, <2>3 DEF Bijection, Injection, Surjection, IsInjective
<1> HIDE DEF L, f
<1>4. IsFiniteSet(L) /\ Cardinality(L) = Cardinality(S)
  BY <1>1, <1>3, FS_Bijection DEF ExistsBijection
<1>5. Cardinality(L) <= NODES_PER_BUCKET
  BY <1>1, <1>4, QueryAssumption
<1>6. L \subseteq QueryPeer
  BY QueryAssumption DEF L, QueryPeer
<1>7. \A p, q \in L : p.mPeerId = q.mPeerId => p = q
  BY <1>2
<1> QED
  BY <1>2, <1>4, <1>5, <1>6, <1>7 DEF Sound, mQueryTS, L

LEMMA InitEstablishes == Init => IInv
<1> SUFFICES ASSUME Init PROVE IInv
  OBVIOUS
<1>1. PICK S \in SUBSET Peers :
        /\ Cardinality(S) <= QUERY_START_PEERS
        /\ mClosest = [mPeerId : S, mLastSendTime : {0}, mLastRecvTime : {0}]
  BY DEF Init
<1>2. Sound(mClosest, now)
  BY <1>1, StartingListSound DEF Init
<1>3. Sound(mPotentialClosest, now)
  BY FS_EmptySet, QueryAssumption DEF Init, Sound
<1>4. TypeOK
  BY <1>2, QueryAssumption DEF Init, TypeOK, Sound, QueryState, mQueryTS
<1>5. AskedPointIsCloser
  BY DEF Init, AskedPointIsCloser
<1> QED
  BY <1>2, <1>3, <1>4, <1>5 DEF IInv

-----------------------------------------------------------------------------
(***************************************************************************)
(* Reports.                                                                *)
(***************************************************************************)
\* The three ways through addPeer.
TooManyCloser(id) == Cardinality(LiveCloser(id, now)) > NODES_PER_BUCKET - 1

NewPeer(id, recv) == [mPeerId |-> id, mLastSendTime |-> 0, mLastRecvTime |-> recv]

Added(id) ==
    \E recv \in {0, now} : \E K \in Trimmed(mClosest \ Overdue(id, now), NODES_PER_BUCKET - 1) :
       mClosest' = K \cup {NewPeer(id, recv)}

LEMMA addPeerCases ==
    ASSUME IInv, NEW id \in Peers, NEW recvNodes \in BOOLEAN, addPeer(id, recvNodes)
    PROVE  \/ mClosest' = mClosest
           \/ \E e \in mClosest : \E q \in QueryPeer :
                /\ q.mPeerId = e.mPeerId
                /\ q.mLastSendTime = e.mLastSendTime
                /\ q.mLastRecvTime \in {e.mLastRecvTime, now}
                /\ mClosest' = (mClosest \ {e}) \cup {q}
           \/ /\ ~ TooManyCloser(id)
              /\ EntriesOf(mClosest, id) = {}
              /\ Added(id)
<1> DEFINE recv == IF recvNodes THEN now ELSE 0
           Upd(p) == [p EXCEPT !.mLastRecvTime = IF recvNodes THEN now ELSE @]
<1>1. CASE TooManyCloser(id)
  BY <1>1 DEF TooManyCloser, addPeer
<1>2. CASE ~ TooManyCloser(id) /\ EntriesOf(mClosest, id) # {}
  <2>1. mClosest' = (mClosest \ EntriesOf(mClosest, id))
                       \cup {Upd(p) : p \in EntriesOf(mClosest, id)}
    BY <1>2 DEF TooManyCloser, addPeer
  <2>2. PICK e \in mClosest : e.mPeerId = id
    BY <1>2 DEF EntriesOf
  <2>3. EntriesOf(mClosest, id) = {e}
    BY <2>2 DEF EntriesOf, IInv, Sound
  <2>4. mClosest' = (mClosest \ {e}) \cup {Upd(e)}
    BY <2>1, <2>3
  <2>5. e \in QueryPeer /\ now \in Nat
    BY DEF IInv, TypeOK, Sound
  <2>6. /\ Upd(e) \in QueryPeer
        /\ Upd(e).mPeerId = e.mPeerId /\ Upd(e).mLastSendTime = e.mLastSendTime
        /\ Upd(e).mLastRecvTime \in {e.mLastRecvTime, now}
    BY <2>5 DEF QueryPeer
  <2> QED
    BY <2>4, <2>6
<1>3. CASE ~ TooManyCloser(id) /\ EntriesOf(mClosest, id) = {}
  <2>1. \E K \in Trimmed(mClosest \ Overdue(id, now), NODES_PER_BUCKET - 1) :
           mClosest' = K \cup {NewPeer(id, recv)}
    BY <1>3 DEF TooManyCloser, addPeer, NewPeer
  <2>2. recv \in {0, now}
    OBVIOUS
  <2>3. Added(id)
    BY <2>1, <2>2 DEF Added
  <2> QED
    BY <1>3, <2>3
<1> QED
  BY <1>1, <1>2, <1>3

\* What is left for a newcomer is a sound list with room for it.
LEMMA TrimmedSound ==
    ASSUME NEW S, Sound(S, now), now \in Nat, NEW T \in SUBSET S,
           NEW K \in Trimmed(T, NODES_PER_BUCKET - 1),
           NEW id \in Peers, NEW recv \in {0, now}, EntriesOf(S, id) = {}
    PROVE  /\ K \subseteq T
           /\ Sound(K \cup {NewPeer(id, recv)}, now)
<1> DEFINE q == NewPeer(id, recv)
<1>1. NODES_PER_BUCKET - 1 \in Nat
  BY QueryAssumption
<1>2. K \subseteq T /\ Cardinality(K) <= NODES_PER_BUCKET - 1
  BY <1>1, TrimmedFits
<1>3. Sound(K, now)
  BY <1>2, SoundSubset
<1>4. EntriesOf(K, id) = {}
  BY <1>2 DEF EntriesOf
<1>5. q \in QueryPeer /\ q.mPeerId = id /\ q.mLastSendTime <= now /\ q.mLastRecvTime <= now
  BY DEF NewPeer, QueryPeer
<1> HIDE DEF q
<1> QED
  BY <1>2, <1>3, <1>4, <1>5, SoundAdd DEF q

LEMMA addPeerSound ==
    ASSUME IInv, NEW id \in Peers, NEW recvNodes \in BOOLEAN, addPeer(id, recvNodes)
    PROVE  Sound(mClosest', now)
<1>1. Sound(mClosest, now) /\ now \in Nat
  BY DEF IInv, TypeOK
<1>2. CASE mClosest' = mClosest
  BY <1>1, <1>2
<1>3. ASSUME NEW e \in mClosest, NEW q \in QueryPeer,
             q.mPeerId = e.mPeerId, q.mLastSendTime = e.mLastSendTime,
             q.mLastRecvTime \in {e.mLastRecvTime, now},
             mClosest' = (mClosest \ {e}) \cup {q}
      PROVE  Sound(mClosest', now)
  <2>1. q.mLastSendTime <= now /\ q.mLastRecvTime <= now
    BY <1>1, <1>3 DEF Sound
  <2> QED
    BY <1>1, <1>3, <2>1, SoundReplace
<1>4. CASE Added(id) /\ EntriesOf(mClosest, id) = {}
  <2>1. PICK recv \in {0, now} : \E K \in Trimmed(mClosest \ Overdue(id, now), NODES_PER_BUCKET - 1) :
                                   mClosest' = K \cup {NewPeer(id, recv)}
    BY <1>4 DEF Added
  <2>2. PICK K \in Trimmed(mClosest \ Overdue(id, now), NODES_PER_BUCKET - 1) :
          mClosest' = K \cup {NewPeer(id, recv)}
    BY <2>1
  <2>3. mClosest \ Overdue(id, now) \in SUBSET mClosest
    OBVIOUS
  <2>4. Sound(K \cup {NewPeer(id, recv)}, now)
    BY <1>1, <1>4, <2>3, TrimmedSound
  <2> QED
    BY <2>2, <2>4
<1> QED
  BY <1>2, <1>3, <1>4, addPeerCases

LEMMA addPotentialPeerSound ==
    ASSUME IInv, NEW id \in Peers, addPotentialPeer(id)
    PROVE  Sound(mPotentialClosest', now)
<1>1. Sound(mPotentialClosest, now) /\ now \in Nat
  BY DEF IInv, TypeOK
<1>2. CASE mPotentialClosest' = mPotentialClosest
  BY <1>1, <1>2
<1>3. ASSUME EntriesOf(mPotentialClosest, id) = {},
             NEW K \in Trimmed(mPotentialClosest, NODES_PER_BUCKET - 1),
             mPotentialClosest' = K \cup {NewPeer(id, now)}
      PROVE  Sound(mPotentialClosest', now)
  BY <1>1, <1>3, TrimmedSound
<1> QED
  BY <1>2, <1>3 DEF addPotentialPeer, NewPeer

LEMMA HeardKeeps ==
    ASSUME IInv, Heard
    PROVE  IInv'
<1>1. PICK id \in Peers :
        addPotentialPeer(id) \/ \E recvNodes \in BOOLEAN : addPeer(id, recvNodes)
  BY DEF Heard
<1>2. UNCHANGED <<mState, mSearchTime, mQueryIdlePeerRetryPeriod, mQueryFlags, now>>
  BY <1>1 DEF Heard, addPeer, addPotentialPeer
<1>3. Sound(mClosest', now) /\ Sound(mPotentialClosest', now)
  <2>1. CASE addPotentialPeer(id)
    BY <2>1, addPotentialPeerSound DEF addPotentialPeer, IInv
  <2>2. ASSUME NEW recvNodes \in BOOLEAN, addPeer(id, recvNodes)
        PROVE  Sound(mClosest', now) /\ Sound(mPotentialClosest', now)
    BY <2>2, addPeerSound DEF addPeer, IInv
  <2> QED
    BY <1>1, <2>1, <2>2
<1>4. asked' = Nobody /\ heard' \in 0 .. MaxHeard
  BY QueryAssumption DEF Heard, IInv, TypeOK
<1>5. TypeOK'
  BY <1>2, <1>3, <1>4 DEF IInv, TypeOK, Sound
<1>6. AskedPointIsCloser'
  BY <1>4 DEF AskedPointIsCloser
<1> QED
  BY <1>2, <1>3, <1>5, <1>6 DEF IInv

-----------------------------------------------------------------------------
(***************************************************************************)
(* Turns of the node.                                                      *)
(***************************************************************************)
LEMMA RetryPeriodType ==
    ASSUME IInv
    PROVE  RetryPeriod \in Nat /\ Age \in Nat
<1>1. now - mQueryTS \in Nat
  BY DEF IInv, TypeOK, mQueryTS
<1>2. (now - mQueryTS) \div 2 \in Nat
  BY <1>1
<1> QED
  BY <1>1, <1>2 DEF RetryPeriod, Age, IInv, TypeOK

\* The point that is asked for.
AskedTarget(p) ==
    IF mQueryFlags.disguise THEN bdStdRandomMidId(mId, p.mPeerId.id) ELSE {mId}

LEMMA AskedIsCloser ==
    ASSUME IInv, NEW p \in QueryPeer, NEW target \in AskedTarget(p)
    PROVE  /\ target \in NodeId
           /\ IF p.mPeerId.id = mId THEN target = mId
              ELSE Less(bdStdDistance(mId, target), bdStdDistance(mId, p.mPeerId.id))
<1>1. mId \in NodeId /\ p.mPeerId.id \in NodeId
  BY QueryAssumption DEF QueryPeer
<1>2. mId \in bdStdRandomMidId(mId, p.mPeerId.id)
  BY <1>1 DEF bdStdRandomMidId
<1>3. target \in bdStdRandomMidId(mId, p.mPeerId.id)
  BY <1>2 DEF AskedTarget
<1>4. CASE p.mPeerId.id = mId
  BY <1>1, <1>3, <1>4, MidIdOfTarget
<1>5. CASE p.mPeerId.id # mId
  BY <1>1, <1>3, <1>5, MidIdIsCloser
<1> QED
  BY <1>4, <1>5

LEMMA AskPeerKeeps ==
    ASSUME IInv, AskPeer
    PROVE  IInv'
<1>1. PICK p \in mClosest :
        /\ mClosest' = (mClosest \ {p}) \cup {[p EXCEPT !.mLastSendTime = now]}
        /\ \E target \in AskedTarget(p) : asked' = [to |-> p.mPeerId, target |-> target]
  BY DEF AskPeer, AskedTarget
<1>2. PICK target \in AskedTarget(p) : asked' = [to |-> p.mPeerId, target |-> target]
  BY <1>1
<1>3. /\ mQueryIdlePeerRetryPeriod' = RetryPeriod
      /\ UNCHANGED <<mPotentialClosest, mState, mSearchTime, mQueryFlags, now, heard>>
  BY DEF AskPeer
<1>4. p \in QueryPeer /\ now \in Nat /\ Sound(mClosest, now)
  BY DEF IInv, TypeOK
<1>5. Sound(mClosest', now)
  <2> DEFINE q == [p EXCEPT !.mLastSendTime = now]
  <2>1. /\ q \in QueryPeer /\ q.mPeerId = p.mPeerId
        /\ q.mLastSendTime <= now /\ q.mLastRecvTime <= now
    BY <1>4 DEF QueryPeer, Sound
  <2> HIDE DEF q
  <2>2. mClosest' = (mClosest \ {p}) \cup {q}
    BY <1>1 DEF q
  <2> QED
    BY <1>4, <2>1, <2>2, SoundReplace
<1>6. p.mPeerId \in Peers /\ target \in NodeId
  BY <1>4, AskedIsCloser DEF QueryPeer
<1>7. TypeOK'
  BY <1>2, <1>3, <1>5, <1>6, RetryPeriodType DEF IInv, TypeOK, Sound
<1>8. AskedPointIsCloser'
  BY <1>2, <1>4, AskedIsCloser DEF AskedPointIsCloser
<1> QED
  BY <1>3, <1>5, <1>7, <1>8 DEF IInv

LEMMA QuietKeeps ==
    ASSUME IInv, UNCHANGED <<mClosest, mPotentialClosest, mQueryFlags, heard>>, asked' = Nobody,
           now' \in 1 .. MaxTime, now <= now',
           mState' \in QueryState, mSearchTime' \in Nat, mQueryIdlePeerRetryPeriod' \in Nat
    PROVE  IInv'
<1>1. now \in Nat /\ now' \in Nat
  BY DEF IInv, TypeOK
<1>2. Sound(mClosest, now') /\ Sound(mPotentialClosest, now')
  BY <1>1, SoundLater DEF IInv
<1>3. TypeOK'
  BY DEF IInv, TypeOK
<1>4. AskedPointIsCloser'
  BY DEF AskedPointIsCloser
<1> QED
  BY <1>2, <1>3, <1>4 DEF IInv

LEMMA StepKeeps == IInv /\ [Next]_vars => IInv'
<1> SUFFICES ASSUME IInv, [Next]_vars PROVE IInv'
  OBVIOUS
<1>1. CASE Heard
  BY <1>1, HeardKeeps
<1>2. CASE AskPeer
  BY <1>2, AskPeerKeeps
<1>3. now \in 1 .. MaxTime /\ now <= now /\ mState \in QueryState
      /\ mSearchTime \in Nat /\ mQueryIdlePeerRetryPeriod \in Nat
  BY DEF IInv, TypeOK
<1>4. CASE Wait
  BY <1>3, <1>4, RetryPeriodType, QuietKeeps DEF Wait
<1>5. CASE Finish
  <2>1. mState' \in QueryState
    BY <1>5 DEF Finish, Verdicts, QueryState
  <2>2. mSearchTime' \in Nat
    BY <1>3, <1>5, RetryPeriodType DEF Finish, SearchTime
  <2> QED
    BY <1>3, <1>5, <2>1, <2>2, RetryPeriodType, QuietKeeps DEF Finish
<1>6. CASE Tick
  <2>1. now' \in 1 .. MaxTime /\ now <= now'
    BY <1>3, <1>6, QueryAssumption DEF Tick
  <2> QED
    BY <1>3, <1>6, <2>1, QuietKeeps DEF Tick
<1>7. CASE UNCHANGED vars
  BY <1>7 DEF IInv, TypeOK, AskedPointIsCloser, vars
<1> QED
  BY <1>1, <1>2, <1>4, <1>5, <1>6, <1>7 DEF Next, nextQuery

-----------------------------------------------------------------------------
(***************************************************************************)
(* The theorems.                                                           *)
(***************************************************************************)
\* The lists of a query stay sound and its requests point at the target
\* (bdQuery::addPeer, addPotentialPeer, nextQuery).
THEOREM QueryInvariant == Spec => []IInv
<1> QED
  BY InitEstablishes, StepKeeps, PTL DEF Spec

\* The state of a query keeps its type.
THEOREM TypeCorrect == Spec => []TypeOK
<1>1. IInv => TypeOK
  BY DEF IInv
<1> QED
  BY <1>1, QueryInvariant, PTL

\* Both lists hold at most M peers, each of them once (bdQuery::addPeer and
\* addPotentialPeer).
THEOREM ListsStaySound == Spec => []ListsSound
<1>1. IInv => ListsSound
  BY DEF IInv, Sound, ListsSound
<1> QED
  BY <1>1, QueryInvariant, PTL

\* Whoever is asked, it is for a point closer to the target (bdQuery::nextQuery).
THEOREM RequestsPointCloser == Spec => []AskedPointIsCloser
<1>1. IInv => AskedPointIsCloser
  BY DEF IInv
<1> QED
  BY <1>1, QueryInvariant, PTL

\* Closer to mId: a strict order in which peers at the same distance are alike.
LEMMA CloserOrder ==
    ASSUME NEW a \in Peers, NEW b \in Peers, NEW c \in Peers
    PROVE  /\ ~ Closer(a, a)
           /\ ~ Closer(b, a) /\ Closer(b, c) => Closer(a, c)
<1>1. a.id \in NodeId /\ b.id \in NodeId /\ c.id \in NodeId /\ mId \in NodeId
  BY QueryAssumption
<1> DEFINE x == bdStdDistance(mId, a.id)
           y == bdStdDistance(mId, b.id)
           z == bdStdDistance(mId, c.id)
<1>2. x \in NodeId /\ y \in NodeId /\ z \in NodeId
  BY <1>1, DistanceBits
<1> HIDE DEF x, y, z
<1>3. ~ Less(x, x)
  BY <1>2, LessIsStrictTotalOrder
<1>4. Less(x, y) \/ Less(y, x) \/ x = y
  BY <1>2, LessIsStrictTotalOrder
<1>5. Less(x, y) /\ Less(y, z) => Less(x, z)
  BY <1>2, LessIsStrictTotalOrder
<1> QED
  BY <1>3, <1>4, <1>5 DEF Closer, x, y, z

\* Who has to go for a newcomer, when nobody in front of the newcomer is overdue?
\* If p goes although it is closer, then everybody who stays is closer as well, and
\* together with p they are too many for the newcomer to be let in.
LEMMA OnlyTheFurthestGo ==
    ASSUME IInv, NEW id \in Peers, NEW recv \in {0, now}, NEW p \in mClosest,
           NEW K \in Trimmed(mClosest \ Overdue(id, now), NODES_PER_BUCKET - 1),
           p \notin K, ~ TimedOut(p, now), ~ TooManyCloser(id)
    PROVE  /\ Cardinality(K) = NODES_PER_BUCKET - 1
           /\ ~ Closer(p.mPeerId, id)
<1> DEFINE S == mClosest \ Overdue(id, now)
<1>1. Sound(mClosest, now) /\ now \in Nat
  BY DEF IInv, TypeOK
<1>2. S \in SUBSET mClosest /\ p \in S
  BY DEF Overdue
<1>3. /\ Cardinality(K) = NODES_PER_BUCKET - 1 /\ K \subseteq S
      /\ \A k \in K : ~ Closer(p.mPeerId, k.mPeerId)
  BY <1>2 DEF Trimmed
<1>4. ASSUME Closer(p.mPeerId, id) PROVE FALSE
  <2>1. \A k \in K \cup {p} : k \in mClosest /\ k.mPeerId \in Peers
    BY <1>1, <1>2, <1>3 DEF Sound, QueryPeer
  <2>2. \A k \in K : Closer(k.mPeerId, id)
    BY <1>3, <1>4, <2>1, CloserOrder
  <2>3. \A k \in K \cup {p} : k \in LiveCloser(id, now)
    BY <1>2, <1>3, <1>4, <2>1, <2>2 DEF LiveCloser, Overdue
  <2>4. IsFiniteSet(LiveCloser(id, now))
    BY <1>1, FS_Subset DEF LiveCloser, Sound
  <2>5. IsFiniteSet(K) /\ Cardinality(K) \in Nat
    BY <1>1, <1>2, <1>3, FS_Subset, FS_CardinalityType DEF Sound
  <2>6. IsFiniteSet(K \cup {p}) /\ Cardinality(K \cup {p}) = Cardinality(K) + 1
    BY <2>5, FS_AddElement
  <2>7. Cardinality(K \cup {p}) <= Cardinality(LiveCloser(id, now))
    BY <2>3, <2>4, FS_Subset
  <2>8. Cardinality(LiveCloser(id, now)) \in Nat
    BY <2>4, FS_CardinalityType
  <2> QED
    BY <1>3, <2>6, <2>7, <2>8, QueryAssumption DEF TooManyCloser
<1> QED
  BY <1>3, <1>4

\* A peer that answers loses its place only to one that is at least as close
\* (bdQuery::addPeer).
THEOREM CloserPeersStay == Spec => CloserPeersKept
<1> DEFINE Kept ==
      \A p \in mClosest :
         EntriesOf(mClosest', p.mPeerId) = {}
           => \/ TimedOut(p, now)
              \/ /\ Cardinality(mClosest') = NODES_PER_BUCKET
                 /\ \E q \in mClosest' :
                      /\ EntriesOf(mClosest, q.mPeerId) = {}
                      /\ ~ Closer(p.mPeerId, q.mPeerId)
<1>1. ASSUME mClosest' = mClosest PROVE Kept
  BY <1>1 DEF EntriesOf
<1>2. ASSUME NEW e \in mClosest, NEW q, q.mPeerId = e.mPeerId,
             mClosest' = (mClosest \ {e}) \cup {q}
      PROVE  Kept
  <2>1. ASSUME NEW p \in mClosest PROVE EntriesOf(mClosest', p.mPeerId) # {}
    <3>1. CASE p = e
      BY <1>2, <3>1 DEF EntriesOf
    <3>2. CASE p # e
      BY <1>2, <3>2 DEF EntriesOf
    <3> QED
      BY <3>1, <3>2
  <2> QED
    BY <2>1
<1>3. ASSUME IInv, NEW id \in Peers, ~ TooManyCloser(id), EntriesOf(mClosest, id) = {}, Added(id)
      PROVE  Kept
  <2>1. PICK recv \in {0, now} : \E K \in Trimmed(mClosest \ Overdue(id, now), NODES_PER_BUCKET - 1) :
                                   mClosest' = K \cup {NewPeer(id, recv)}
    BY <1>3 DEF Added
  <2>2. PICK K \in Trimmed(mClosest \ Overdue(id, now), NODES_PER_BUCKET - 1) :
          mClosest' = K \cup {NewPeer(id, recv)}
    BY <2>1
  <2>3. SUFFICES ASSUME NEW p \in mClosest, EntriesOf(mClosest', p.mPeerId) = {},
                        ~ TimedOut(p, now)
                 PROVE  /\ Cardinality(mClosest') = NODES_PER_BUCKET
                        /\ \E q \in mClosest' : /\ EntriesOf(mClosest, q.mPeerId) = {}
                                                /\ ~ Closer(p.mPeerId, q.mPeerId)
    OBVIOUS
  <2>4. p \notin K
    BY <2>2, <2>3 DEF EntriesOf
  <2>5. Cardinality(K) = NODES_PER_BUCKET - 1 /\ ~ Closer(p.mPeerId, id)
    BY <1>3, <2>3, <2>4, OnlyTheFurthestGo
  <2>6. Sound(mClosest, now)
    BY <1>3 DEF IInv
  <2>7. Cardinality(K \cup {NewPeer(id, recv)}) = Cardinality(K) + 1
    <3>1. NODES_PER_BUCKET - 1 \in Nat
      BY QueryAssumption
    <3>2. K \subseteq mClosest
      BY <3>1, TrimmedFits
    <3>3. IsFiniteSet(K)
      BY <2>6, <3>2, FS_Subset DEF Sound
    <3>4. NewPeer(id, recv) \notin K
      BY <1>3, <3>2 DEF EntriesOf, NewPeer
    <3> QED
      BY <3>3, <3>4, FS_AddElement
  <2>8. NewPeer(id, recv) \in mClosest' /\ NewPeer(id, recv).mPeerId = id
    BY <2>2 DEF NewPeer
  <2>9. Cardinality(mClosest') = NODES_PER_BUCKET
    BY <2>2, <2>5, <2>7, QueryAssumption
  <2> QED
    BY <1>3, <2>5, <2>8, <2>9
<1> HIDE DEF Kept
<1>4. ASSUME IInv, NEW id \in Peers, NEW recvNodes \in BOOLEAN, addPeer(id, recvNodes) PROVE Kept
  BY <1>1, <1>2, <1>3, <1>4, addPeerCases
<1>5. ASSUME IInv, AskPeer PROVE Kept
  <2>1. PICK p \in mClosest : mClosest' = (mClosest \ {p}) \cup {[p EXCEPT !.mLastSendTime = now]}
    BY <1>5 DEF AskPeer
  <2>2. [p EXCEPT !.mLastSendTime = now].mPeerId = p.mPeerId
    BY <1>5 DEF IInv, TypeOK, QueryPeer
  <2> QED
    BY <1>2, <2>1, <2>2
<1>6. ASSUME (\E id \in Peers : addPotentialPeer(id)) \/ Wait \/ Finish \/ Tick \/ UNCHANGED vars
      PROVE  Kept
  BY <1>1, <1>6 DEF addPotentialPeer, Wait, Finish, Tick, vars
<1>7. IInv /\ [Next]_vars => Kept
  BY <1>4, <1>5, <1>6 DEF Next, nextQuery, Heard
<1>8. Spec => [][Kept]_vars
  BY <1>7, QueryInvariant, PTL DEF Spec
<1> QED
  BY <1>8 DEF CloserPeersKept, Kept

-----------------------------------------------------------------------------
\* The query as bdNodeManager sees it.
Outcome == [mId |-> mId, doIdle |-> mQueryFlags.doIdle, mState |-> mState]

\* To bdNodeManager a query does nothing but come to a verdict: whatever answers come in and
\* whoever is asked, it never runs again once it has one, keeps it unless it idles, and
\* does not begin or cease to idle (bdQuery::nextQuery).
THEOREM OutcomesOnly == Spec => [][Outcome' \in Outcomes(Outcome, FinalState)]_vars
<1>1. ASSUME Next PROVE Outcome' \in Outcomes(Outcome, FinalState)
  <2>1. CASE UNCHANGED <<mState, mQueryFlags>>
    BY <2>1 DEF Outcome, Outcomes
  <2>2. CASE Finish
    <3>1. mState' \in FinalState /\ mQueryFlags' = mQueryFlags
      BY <2>2 DEF Finish, Verdicts, FinalState
    <3>2. ~ IsOver(Outcome)
      BY <2>2 DEF Finish, NothingToAsk, Active, IsOver, Finished, Outcome
    <3>3. Outcome' = [Outcome EXCEPT !.mState = mState']
      BY <3>1 DEF Outcome
    <3> QED
      BY <3>1, <3>2, <3>3 DEF Outcomes
  <2>3. Finish \/ UNCHANGED <<mState, mQueryFlags>>
    BY <1>1 DEF Next, Heard, addPeer, addPotentialPeer, nextQuery, AskPeer, Wait, Tick
  <2> QED
    BY <2>1, <2>2, <2>3
<1> QED
  BY <1>1, PTL DEF Spec
=============================================================================
