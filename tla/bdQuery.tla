------------------------------ MODULE bdQuery ------------------------------
(***************************************************************************)
(* One search for a node id: class bdQuery of bitdht/bdquery.cc.           *)
(*                                                                         *)
(* mClosest and mPotentialClosest are multimaps ordered by the distance of *)
(* the peer to mId.  They are sets of peers here, read through the order   *)
(* of the distances.  Two addresses of one node id are equally far: the    *)
(* order the multimap keeps them in is left open.                          *)
(*                                                                         *)
(* The query is driven by its node: addPeer and addPotentialPeer for every *)
(* answer the node receives, nextQuery once in every turn of its loop.     *)
(* Time 0 is "never", as in the source.                                    *)
(***************************************************************************)
EXTENDS bdStdDht, FiniteSets

CONSTANTS
    mId,                        \* the id searched for
    Peers,                      \* the bdIds that may be heard of
    NODES_PER_BUCKET,           \* the M of "M closest peers", 10
    QUERY_START_PEERS,          \* BITDHT_QUERY_START_PEERS, 10
    MIN_QUERY_AGE,              \* BITDHT_MIN_QUERY_AGE, 10 s
    MAX_QUERY_AGE,              \* BITDHT_MAX_QUERY_AGE, 1800 s
    EXPECTED_REPLY,             \* 20 s
    IDLE_RETRY_PEER_PERIOD,     \* QUERY_IDLE_RETRY_PEER_PERIOD, 300 s
    MaxTime,                    \* bound on the clock
    MaxHeard                    \* bound on the peers reported to the query

ASSUME QueryAssumption ==
    /\ mId \in NodeId
    /\ \A id \in Peers : id.id \in NodeId
    /\ IsFiniteSet(Peers)
    /\ NODES_PER_BUCKET \in Nat \ {0}
    /\ QUERY_START_PEERS \in 0 .. NODES_PER_BUCKET
    /\ MIN_QUERY_AGE \in Nat /\ MAX_QUERY_AGE \in Nat
    /\ EXPECTED_REPLY \in Nat /\ IDLE_RETRY_PEER_PERIOD \in Nat
    /\ MaxTime \in Nat \ {0} /\ MaxHeard \in Nat

VARIABLES
    mClosest,
    mPotentialClosest,
    mState,
    mQueryFlags,                \* [doIdle, disguise]: BITDHT_QFLAGS_DO_IDLE, _DISGUISE
    mSearchTime,
    mQueryIdlePeerRetryPeriod,
    asked,                      \* what this step asks: whom, and for what
    now,                        \* time(NULL)
    heard                       \* reports so far

vars == <<mClosest, mPotentialClosest, mState, mQueryFlags, mSearchTime,
          mQueryIdlePeerRetryPeriod, asked, now, heard>>

\* The query starts at time 1.
mQueryTS == 1

QueryPeer == [mPeerId : Peers, mLastSendTime : Nat, mLastRecvTime : Nat]

QueryState == {"QUERYING", "FAILURE", "FOUND_CLOSEST", "PEER_UNREACHABLE", "SUCCESS"}

Nobody == [to |-> "nobody"]

TypeOK ==
    /\ mClosest \subseteq QueryPeer
    /\ mPotentialClosest \subseteq QueryPeer
    /\ mState \in QueryState
    /\ mQueryFlags \in [doIdle : BOOLEAN, disguise : BOOLEAN]
    /\ mSearchTime \in Nat
    /\ mQueryIdlePeerRetryPeriod \in Nat
    /\ asked \in {Nobody} \cup [to : Peers, target : NodeId]
    /\ now \in 1 .. MaxTime
    /\ heard \in 0 .. MaxHeard

-----------------------------------------------------------------------------
\* a is strictly closer to mId than b.
Closer(a, b) == Less(bdStdDistance(mId, a.id), bdStdDistance(mId, b.id))

\* Mutant: trims one entry too few.
TrimmedLate(S, n) ==
    IF Cardinality(S) <= n + 1 THEN {S}
    ELSE {K \in SUBSET S :
            /\ Cardinality(K) = n + 1
            /\ \A p \in K, q \in S \ K : ~ Closer(q.mPeerId, p.mPeerId)}

\* What is left of a multimap when its furthest entries are erased until no more
\* than n remain.
Trimmed(S, n) ==
    IF Cardinality(S) <= n THEN {S}
    ELSE {K \in SUBSET S :
            /\ Cardinality(K) = n
            /\ \A p \in K, q \in S \ K : ~ Closer(q.mPeerId, p.mPeerId)}

\* Asked, not answered since, and the answer is overdue.
TimedOut(p, ts) ==
    /\ p.mLastSendTime # 0
    /\ ~ (p.mLastRecvTime >= p.mLastSendTime)
    /\ ts - p.mLastSendTime > EXPECTED_REPLY

\* The peers in front of id that count: those that have not timed out.
LiveCloser(id, ts) == {p \in mClosest : Closer(p.mPeerId, id) /\ ~ TimedOut(p, ts)}

\* Mutant: does not wait for EXPECTED_REPLY.
OverdueAtOnce(id, ts) ==
    {p \in mClosest : /\ Closer(p.mPeerId, id)
                      /\ p.mLastSendTime # 0
                      /\ ~ (p.mLastRecvTime >= p.mLastSendTime)}

Overdue(id, ts) == {p \in mClosest : Closer(p.mPeerId, id) /\ TimedOut(p, ts)}

EntriesOf(S, id) == {p \in S : p.mPeerId = id}

addPeer(id, recvNodes) ==
    LET recv    == IF recvNodes THEN now ELSE 0
        newPeer == [mPeerId |-> id, mLastSendTime |-> 0, mLastRecvTime |-> recv]
        Updated(p) == [p EXCEPT !.mLastRecvTime = IF recvNodes THEN now ELSE @]
    IN  /\ IF Cardinality(LiveCloser(id, now)) > NODES_PER_BUCKET - 1
             THEN UNCHANGED mClosest
           ELSE IF EntriesOf(mClosest, id) # {}
             THEN mClosest' = (mClosest \ EntriesOf(mClosest, id))
                                \cup {Updated(p) : p \in EntriesOf(mClosest, id)}
             ELSE \E K \in Trimmed(mClosest \ Overdue(id, now), NODES_PER_BUCKET - 1) :
                    mClosest' = K \cup {newPeer}
        /\ UNCHANGED <<mPotentialClosest, mState, mSearchTime, mQueryIdlePeerRetryPeriod>>

\* The node passes mode 0, so an entry that is already there is never updated.
addPotentialPeer(id) ==
    LET newPeer == [mPeerId |-> id, mLastSendTime |-> 0, mLastRecvTime |-> now]
        TooFar  == /\ \A p \in mClosest : Closer(p.mPeerId, id)
                   /\ Cardinality(mClosest) >= NODES_PER_BUCKET
        CloserPotential == {p \in mPotentialClosest : Closer(p.mPeerId, id)}
    IN  /\ IF \/ EntriesOf(mClosest, id) # {}
              \/ TooFar
              \/ Cardinality(CloserPotential) > NODES_PER_BUCKET - 1
              \/ EntriesOf(mPotentialClosest, id) # {}
             THEN UNCHANGED mPotentialClosest
             ELSE \E K \in Trimmed(mPotentialClosest, NODES_PER_BUCKET - 1) :
                    mPotentialClosest' = K \cup {newPeer}
        /\ UNCHANGED <<mClosest, mState, mSearchTime, mQueryIdlePeerRetryPeriod>>

Heard ==
    /\ heard < MaxHeard
    /\ heard' = heard + 1
    /\ \E id \in Peers : addPotentialPeer(id) \/ \E recvNodes \in BOOLEAN : addPeer(id, recvNodes)
    /\ asked' = Nobody
    /\ UNCHANGED <<mQueryFlags, now>>

-----------------------------------------------------------------------------
\* nextQuery stretches the retry period of an idling query as it ages.
RetryPeriod ==
    IF (now - mQueryTS) \div 2 > mQueryIdlePeerRetryPeriod
    THEN (now - mQueryTS) \div 2
    ELSE mQueryIdlePeerRetryPeriod

\* Mutant: skips peers that were heard of before they were asked.
MustAskUnheard(p) ==
    \/ p.mLastSendTime = 0 /\ p.mLastRecvTime = 0
    \/ mQueryFlags.doIdle /\ now - p.mLastSendTime > RetryPeriod

MustAsk(p) ==
    \/ p.mLastSendTime = 0
    \/ mQueryFlags.doIdle /\ now - p.mLastSendTime > RetryPeriod

Active == mState = "QUERYING" \/ mQueryFlags.doIdle

\* nextQuery returns 1: the closest peer that must be asked, and the id to ask for.
AskPeer ==
    /\ Active
    /\ \E p \in mClosest :
         /\ MustAsk(p)
         /\ \A q \in mClosest : MustAsk(q) => ~ Closer(q.mPeerId, p.mPeerId)
         /\ mClosest' = (mClosest \ {p}) \cup {[p EXCEPT !.mLastSendTime = now]}
         /\ \E target \in IF mQueryFlags.disguise
                          THEN bdStdRandomMidId(mId, p.mPeerId.id)
                          ELSE {mId} :
              asked' = [to |-> p.mPeerId, target |-> target]
    /\ mQueryIdlePeerRetryPeriod' = RetryPeriod
    /\ UNCHANGED <<mPotentialClosest, mState, mSearchTime, mQueryFlags, now, heard>>

Age == now - mQueryTS

\* Mutant: no maximal age.
MustWaitForList ==
    \/ Age < MIN_QUERY_AGE
    \/ Cardinality(mClosest) < NODES_PER_BUCKET
    \/ \E p \in mClosest : p.mLastRecvTime = 0

MustWait ==
    \/ Age < MIN_QUERY_AGE
    \/ /\ Age <= MAX_QUERY_AGE
       /\ \/ Cardinality(mClosest) < NODES_PER_BUCKET
          \/ \E p \in mClosest : p.mLastRecvTime = 0

NothingToAsk == Active /\ \A p \in mClosest : ~ MustAsk(p)

\* nextQuery returns 0: nobody to ask, but too early to stop.
Wait ==
    /\ NothingToAsk
    /\ MustWait
    /\ mQueryIdlePeerRetryPeriod' = RetryPeriod
    /\ asked' = Nobody
    /\ UNCHANGED <<mClosest, mPotentialClosest, mState, mSearchTime, mQueryFlags, now, heard>>

\* begin() of a multimap holds id exactly when some entry does: its distance is 0.
HoldsTarget(S) == \E p \in S : p.mPeerId.id = mId

\* The verdicts nextQuery can reach.  When mPotentialClosest is empty, line 268
\* reads past the end of the map: any comparison may come out.
Verdicts ==
    IF mClosest = {} THEN {"FAILURE"}
    ELSE IF HoldsTarget(mClosest) THEN {"SUCCESS"}
    ELSE IF mPotentialClosest = {} THEN {"PEER_UNREACHABLE", "FOUND_CLOSEST"}
    ELSE IF HoldsTarget(mPotentialClosest) THEN {"PEER_UNREACHABLE"}
    ELSE {"FOUND_CLOSEST"}

\* Mutant.
SearchTimeSwapped == IF mState = "QUERYING" THEN mQueryTS - now ELSE mSearchTime

SearchTime == IF mState = "QUERYING" THEN Age ELSE mSearchTime

Finish ==
    /\ NothingToAsk
    /\ ~ MustWait
    /\ mState' \in Verdicts
    /\ mSearchTime' = SearchTime
    /\ mQueryIdlePeerRetryPeriod' = RetryPeriod
    /\ asked' = Nobody
    /\ UNCHANGED <<mClosest, mPotentialClosest, mQueryFlags, now, heard>>

nextQuery == AskPeer \/ Wait \/ Finish

\* Time passes between two turns of the node's loop.
Tick ==
    /\ now < MaxTime
    /\ now' = now + 1
    /\ asked' = Nobody
    /\ UNCHANGED <<mClosest, mPotentialClosest, mState, mQueryFlags, mSearchTime,
                   mQueryIdlePeerRetryPeriod, heard>>

\* The constructor takes the nearest peers of the routing table.
Init ==
    /\ mClosest \in {[mPeerId : S, mLastSendTime : {0}, mLastRecvTime : {0}] :
                       S \in {T \in SUBSET Peers : Cardinality(T) <= QUERY_START_PEERS}}
    /\ mPotentialClosest = {}
    /\ mState = "QUERYING"
    /\ mQueryFlags \in [doIdle : BOOLEAN, disguise : BOOLEAN]
    /\ mSearchTime = 0
    /\ mQueryIdlePeerRetryPeriod = IDLE_RETRY_PEER_PERIOD
    /\ asked = Nobody
    /\ now = mQueryTS
    /\ heard = 0

Next == Heard \/ nextQuery \/ Tick

Spec == Init /\ [][Next]_vars

\* The node's loop keeps calling nextQuery, and time goes on.
FairSpec == Spec /\ WF_vars(nextQuery) /\ WF_vars(Tick)

-----------------------------------------------------------------------------
(***************************************************************************)
(* Properties.                                                             *)
(***************************************************************************)
\* Neither list outgrows the M closest peers, no peer is in a list twice, and no
\* time lies in the future.
ListsSound ==
    \A S \in {mClosest, mPotentialClosest} :
      /\ Cardinality(S) <= NODES_PER_BUCKET
      /\ \A p, q \in S : p.mPeerId = q.mPeerId => p = q
      /\ \A p \in S : p.mLastSendTime <= now /\ p.mLastRecvTime <= now

\* "maintain list of M closest peers to ID" (bdquery.cc:48): a peer that has not
\* timed out leaves the list only for a newcomer that is at least as close, and
\* only when the list is full.
CloserPeersKept ==
    [][\A p \in mClosest :
         EntriesOf(mClosest', p.mPeerId) = {}
           => \/ TimedOut(p, now)
              \/ /\ Cardinality(mClosest') = NODES_PER_BUCKET
                 /\ \E q \in mClosest' :
                      /\ EntriesOf(mClosest, q.mPeerId) = {}
                      /\ ~ Closer(p.mPeerId, q.mPeerId)]_vars

\* A disguised request still makes progress: the point it asks for is strictly
\* closer to the target than the peer it asks, and it is the target itself when
\* that peer is the target.
AskedPointIsCloser ==
    asked # Nobody =>
      IF asked.to.id = mId
      THEN asked.target = mId
      ELSE Less(bdStdDistance(mId, asked.target), bdStdDistance(mId, asked.to.id))

\* A query never runs for ever: with finitely many reports it reaches a verdict
\* once it is older than MAX_QUERY_AGE.
Terminates == <>(mState # "QUERYING")

\* "halt when we have asked all M closest peers about the ID" (bdquery.cc:50): a
\* peer that is reported while the query runs, however late, is asked before the
\* query gives its verdict, or loses its place in the list: no order of reports,
\* answers, retries of an idling query and clock ticks leaves it there unasked.
Unasked(id) == \E p \in EntriesOf(mClosest, id) : p.mLastSendTime = 0

ReportedPeersAsked ==
    \A id \in Peers : mState = "QUERYING" /\ Unasked(id) ~> ~ Unasked(id)

\* "track unreachable node ... this allows us to detect if peer are online - but
\* uncontactible by dht" (bdquery.cc:418): the verdict PEER_UNREACHABLE is given
\* only about a target that some peer has reported.
UnreachableWasReported == mState = "PEER_UNREACHABLE" => HoldsTarget(mPotentialClosest)

=============================================================================
