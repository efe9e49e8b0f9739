--------------------------- MODULE bdNodeManager ---------------------------
(***************************************************************************)
(* The searches an application asks for: class bdNodeManager of            *)
(* bitdht/bdmanager.cc over the list of queries of class bdNode.           *)
(*                                                                         *)
(* The application and the DHT thread call in at any time; UdpBitDht       *)
(* serialises them with dhtMtx, so every call is one step, and so is one   *)
(* turn of the DHT thread (iteration).                                     *)
(*                                                                         *)
(* A query is reduced to its outcome, which module bdQuery derives.  The   *)
(* size of the routing table counts by the two thresholds it is compared   *)
(* with.  modeAge is time(NULL) - mModeTS.  The address that checkStatus   *)
(* saves for an active peer (mDhtAddr) is left out.                        *)
(***************************************************************************)
EXTENDS Naturals, Sequences, SequencesExt, Lists, QueryOutcome

CONSTANTS
    Id,                 \* node ids
    mOwnId,             \* the id of this node
    SelfSearches,       \* what the node searches for itself: mOwnId, and the id in
                        \* line 273 of bdmanager.cc
    AppId,              \* ids the application may search
    Verdict,            \* final states of a query that may come out
    MAX_STARTUP_TIME,   \* 10 s
    MAX_FINDSELF_TIME,  \* 60 s
    MAX_REFRESH_TIME,   \* 10 s
    MinAsked,           \* messages that the pings of a turn leave to the queries: 5
                        \* of BDNODE_MED_MSG_RATE (50)
    MaxAge,             \* bound on modeAge
    MaxQueries          \* bound on the queries that addFindNode and startDht find

ASSUME ManagerAssumption ==
    /\ SelfSearches \in Seq(Id) /\ mOwnId \in ToSet(SelfSearches)
    /\ AppId \subseteq Id
    /\ Verdict \subseteq FinalState
    /\ MAX_STARTUP_TIME \in Nat /\ MAX_FINDSELF_TIME \in Nat /\ MAX_REFRESH_TIME \in Nat
    /\ MinAsked \in Nat \ {0}
    /\ MaxAge \in Nat
    /\ MaxAge > MAX_STARTUP_TIME /\ MaxAge > MAX_FINDSELF_TIME /\ MaxAge > MAX_REFRESH_TIME
    /\ MaxQueries \in Nat

VARIABLES
    mMode,
    modeAge,
    mActivePeers,       \* the searches of the application
    mLocalQueries,      \* the queries that run, the one to be served next in front
    callbacks           \* what this step told the application: ids and statuses

vars == <<mMode, modeAge, mActivePeers, mLocalQueries, callbacks>>

Mode == {"OFF", "STARTUP", "FINDSELF", "ACTIVE", "REFRESH", "FAILED"}

Query == [mId : Id, doIdle : BOOLEAN, mState : {"QUERYING"} \cup FinalState]

\* Inactive: the id is not a key of the map.
Inactive == [mStatus |-> "NONE"]

QueryPeer ==
    [mStatus : {"READY", "QUERYING"} \cup FinalState, doIdle : BOOLEAN]

CallbackStatus == {"NONE", "FAILURE", "OFFLINE", "UNREACHABLE", "ONLINE"}

TypeOK ==
    /\ mMode \in Mode
    /\ modeAge \in 0 .. MaxAge
    /\ mActivePeers \in [Id -> QueryPeer \cup {Inactive}]
    /\ mLocalQueries \in Seq(Query)
    /\ callbacks \subseteq Id \X CallbackStatus

IsActive(id) == mActivePeers[id] # Inactive

NewQuery(id, doIdle) == [mId |-> id, doIdle |-> doIdle, mState |-> "QUERYING"]

IdsOf(queries) == {queries[i].mId : i \in DOMAIN queries}

\* bdNode::clearQuery, for a set of ids: every query for them goes.
Cleared(queries, ids) == Kept(queries, {i \in DOMAIN queries : queries[i].mId \notin ids})

-----------------------------------------------------------------------------
(***************************************************************************)
(* The interface of the application.                                       *)
(***************************************************************************)
addFindNode(id, doIdle) ==
    /\ Len(mLocalQueries) <= MaxQueries
    /\ mActivePeers' =
         IF IsActive(id) THEN mActivePeers
         ELSE [mActivePeers EXCEPT ![id] = [mStatus |-> "READY", doIdle |-> doIdle]]
    /\ callbacks' = {}
    /\ UNCHANGED <<mMode, modeAge, mLocalQueries>>

removeFindNode(id) ==
    /\ IsActive(id)
    /\ mLocalQueries' = Cleared(mLocalQueries, {id})
    /\ mActivePeers' = [mActivePeers EXCEPT ![id] = Inactive]
    /\ callbacks' = {}
    /\ UNCHANGED <<mMode, modeAge>>

\* The node's search for itself is spared.
removeAllFindNode ==
    /\ mLocalQueries' = Cleared(mLocalQueries, {id \in Id \ {mOwnId} : IsActive(id)})
    /\ mActivePeers' = [id \in Id |-> Inactive]
    /\ callbacks' = {}
    /\ UNCHANGED <<mMode, modeAge>>

\* Mutant: stopping leaves the statuses alone.
KeepStatus == mActivePeers

\* stopDht: the searches of the application wait for the next start.
AllReady ==
    [id \in Id |-> IF IsActive(id) THEN [mActivePeers[id] EXCEPT !.mStatus = "READY"]
                   ELSE Inactive]

stopDht ==
    /\ mLocalQueries' = <<>>
    /\ mActivePeers' = AllReady
    /\ mMode' = "OFF"
    /\ modeAge' = 0
    /\ callbacks' = {}

\* Nothing asks whether the DHT is already running.
startDht ==
    /\ Len(mLocalQueries) <= MaxQueries
    /\ mMode' = "STARTUP"
    /\ modeAge' = 0
    /\ callbacks' = {}
    /\ UNCHANGED <<mActivePeers, mLocalQueries>>

-----------------------------------------------------------------------------
(***************************************************************************)
(* checkStatus looks at the status of every query by id, so that of two    *)
(* queries for one id the last of the list counts.                         *)
(***************************************************************************)
QueryStatus(queries, id) == queries[Max({i \in DOMAIN queries : queries[i].mId = id})]

\* Mutant: an idling query is removed as well.
IsRemovedAlways(q) == Finished(q)

IsRemoved(q) == Finished(q) /\ ~ q.doIdle

StatusOf(q) ==
    CASE q.mState = "QUERYING"         -> "NONE"
      [] q.mState = "FAILURE"          -> "FAILURE"
      [] q.mState = "FOUND_CLOSEST"    -> "OFFLINE"
      [] q.mState = "PEER_UNREACHABLE" -> "UNREACHABLE"
      [] q.mState = "SUCCESS"          -> "ONLINE"

\* Mutant: the status is left as it was.
UpdatedNever(active, queries) == active

\* An active peer takes over the state of its query.
Updated(active, queries) ==
    [id \in Id |->
       IF active[id] = Inactive \/ id \notin IdsOf(queries) THEN active[id]
       ELSE [active[id] EXCEPT !.mStatus = QueryStatus(queries, id).mState]]

\* The callbacks that are due: the query is final, or nothing has changed.
Due(active, queries) ==
    {id \in IdsOf(queries) :
       /\ active[id] # Inactive
       /\ LET q == QueryStatus(queries, id)
          IN  Finished(q) \/ active[id].mStatus = q.mState}

\* The ids whose queries are removed.
ToRemove(queries) == {id \in IdsOf(queries) : IsRemoved(QueryStatus(queries, id))}

\* A callback is made once per match of the first query for the id that is still
\* in the list, which then has what remains of the queries.  matched: the ids whose
\* first query knows a peer with that id.  The lists of a query go on changing after
\* its verdict, so that its state says nothing of them.
checkStatus(active, queries, remaining) ==
    /\ mActivePeers' = Updated(active, queries)
    /\ \E matched \in SUBSET (Due(active, queries) \cap IdsOf(remaining)) :
         callbacks' = {<<id, StatusOf(QueryStatus(queries, id))>> : id \in matched}

-----------------------------------------------------------------------------
(***************************************************************************)
(* One turn of the DHT thread.                                             *)
(***************************************************************************)
\* A query with its outcome: "no news" leaves it as it is.
WithOutcome(q, outcome) == IF outcome = "no news" THEN q ELSE [q EXCEPT !.mState = outcome]

\* bdNode::iteration, as far as the queries go.  It serves them in turn and moves each
\* to the back.  A query that is served and not over sends a message, waits or comes
\* to a verdict, an idling one to another verdict.  The loop ends before it has been
\* round only with the message that reaches the limit of the turn.
RunQueries(queries) ==
    \E served \in 0 .. Len(queries) :
    \E news \in [{i \in 1 .. served : ~ IsOver(queries[i])} -> Verdict \cup {"no news"}] :
      LET Asked == {i \in DOMAIN news : news[i] = "no news"}
      IN  /\ served = Len(queries) \/ (served \in Asked /\ Cardinality(Asked) >= MinAsked)
          /\ mLocalQueries' =
               Rotated([i \in DOMAIN queries |->
                          IF i \in DOMAIN news THEN WithOutcome(queries[i], news[i])
                          ELSE queries[i]], served)

GoTo(mode) == mMode' = mode /\ modeAge' = 0

Stay == UNCHANGED <<mMode, modeAge>>

Quiet == callbacks' = {} /\ UNCHANGED mActivePeers

Startup ==
    /\ mMode = "STARTUP"
    /\ IF modeAge > MAX_STARTUP_TIME
         THEN /\ GoTo("FINDSELF")
              /\ RunQueries(mLocalQueries
                             \o [i \in DOMAIN SelfSearches |-> NewQuery(SelfSearches[i], TRUE)])
         ELSE /\ Stay
              /\ RunQueries(mLocalQueries)
    /\ Quiet

\* space: calcSpaceSize() against MIN_OP_SPACE_SIZE and TRANSITION_OP_SPACE_SIZE.
FindSelf ==
    /\ mMode = "FINDSELF"
    /\ \E space \in {"small", "medium", "large"} :
         \/ /\ space = "large" \/ (modeAge > MAX_FINDSELF_TIME /\ space = "medium")
            /\ GoTo("REFRESH")
         \/ /\ modeAge > MAX_FINDSELF_TIME /\ space = "small"
            /\ GoTo("FAILED")
         \/ /\ modeAge <= MAX_FINDSELF_TIME /\ space # "large"
            /\ Stay
    /\ RunQueries(mLocalQueries)
    /\ Quiet

Active ==
    /\ mMode = "ACTIVE"
    /\ IF modeAge > MAX_REFRESH_TIME THEN GoTo("REFRESH") ELSE Stay
    /\ RunQueries(mLocalQueries)
    /\ Quiet

\* Mutants: starts what is already running, or what is over.
IsNotQuerying(id) == IsActive(id) /\ mActivePeers[id].mStatus # "QUERYING"
IsReadyOrQuerying(id) == IsActive(id) /\ mActivePeers[id].mStatus \in {"READY", "QUERYING"}

IsReady(id) == IsActive(id) /\ mActivePeers[id].mStatus = "READY"

\* startQueries, in any order of the ids, then status().
Started ==
    [id \in Id |-> IF IsReady(id) THEN [mActivePeers[id] EXCEPT !.mStatus = "QUERYING"]
                   ELSE mActivePeers[id]]

QueriesFor(ids) ==
    LET ready == SetToSeq(ids)
    IN  [i \in DOMAIN ready |-> NewQuery(ready[i], mActivePeers[ready[i]].doIdle)]

Refresh ==
    /\ mMode = "REFRESH"
    /\ GoTo("ACTIVE")
    /\ \E queries \in {mLocalQueries \o QueriesFor({id \in Id : IsReady(id)})} :
       \E over \in {ToRemove(queries)} :
       \E remaining \in {Cleared(queries, over)} :
         /\ checkStatus(Started, queries, remaining)
         /\ RunQueries(remaining)

\* stopDht, then startDht: the lists are cleared, the mode is STARTUP again.
Failed ==
    /\ mMode = "FAILED"
    /\ GoTo("STARTUP")
    /\ mLocalQueries' = <<>>
    /\ mActivePeers' = AllReady
    /\ callbacks' = {}

iteration == Startup \/ FindSelf \/ Active \/ Refresh \/ Failed

\* Time passes.
Tick ==
    /\ mMode # "OFF"
    /\ modeAge < MaxAge
    /\ modeAge' = modeAge + 1
    /\ callbacks' = {}
    /\ UNCHANGED <<mMode, mActivePeers, mLocalQueries>>

\* Mutant: no mode.
InitNoMode ==
    /\ mMode = "NONE"
    /\ modeAge = 0
    /\ mActivePeers = [id \in Id |-> Inactive]
    /\ mLocalQueries = <<>>
    /\ callbacks = {}

Init ==
    /\ mMode = "OFF"
    /\ modeAge = 0
    /\ mActivePeers = [id \in Id |-> Inactive]
    /\ mLocalQueries = <<>>
    /\ callbacks = {}

Next ==
    \/ \E id \in AppId :
         \/ \E doIdle \in BOOLEAN : addFindNode(id, doIdle)
         \/ removeFindNode(id)
    \/ removeAllFindNode
    \/ startDht
    \/ stopDht
    \/ iteration
    \/ Tick

Spec == Init /\ [][Next]_vars

\* A turn after which no query for id is unfinished: module bdQuery shows that
\* every query gets a verdict.
FinishingTurn(id) ==
    /\ iteration
    /\ \A i \in DOMAIN mLocalQueries' : mLocalQueries'[i].mId = id => Finished(mLocalQueries'[i])

\* The DHT thread keeps turning, time goes on and queries end.
FairSpec ==
    /\ Spec
    /\ WF_vars(Tick)
    /\ WF_vars(iteration)
    /\ \A id \in AppId : WF_vars(FinishingTurn(id))

-----------------------------------------------------------------------------
(***************************************************************************)
(* Properties.                                                             *)
(***************************************************************************)
\* A search that is shown as running has a query that can end it.  Without one the
\* status would stay QUERYING for ever: only READY searches are started, and only
\* a query changes a status.
QueryingHasQuery ==
    \A id \in Id : mActivePeers[id].mStatus = "QUERYING" => id \in IdsOf(mLocalQueries)

\* However often searches are added and removed and the DHT stopped and started, a
\* search has one query, and no query outlives the search it was made for.
OneQueryEach ==
    \A i \in DOMAIN mLocalQueries :
      LET id == mLocalQueries[i].mId
      IN  id \notin ToSet(SelfSearches)
            => /\ IsActive(id)
               /\ \A j \in DOMAIN mLocalQueries : mLocalQueries[j].mId = id => i = j

\* When the node stays connected, a search that is not withdrawn reaches a verdict.
SearchesEnd ==
    \A id \in AppId :
      []<>(mMode = "REFRESH") /\ <>[](IsActive(id) /\ mMode \in {"ACTIVE", "REFRESH"})
        => <>(mActivePeers[id].mStatus \in FinalState)

\* An idling search goes on after its verdict ("DO_IDLE"): until it is withdrawn
\* or the DHT stops, its query is kept and can tell when the peer comes back.  The
\* ids the node searches for by itself are left out: there a second query is in the
\* list, and whichever is last decides for both (QueryStatus, clearQuery).
IdleSearchKept ==
    \A id \in Id \ ToSet(SelfSearches) :
      IsActive(id) /\ mActivePeers[id].doIdle /\ mActivePeers[id].mStatus \in FinalState
        => id \in IdsOf(mLocalQueries)

\* The manager implements the searches of module Search: none is skipped, comes back
\* from its verdict or is reported as something else than it has become.
AbstractSearch ==
    INSTANCE Search WITH
      Background <- ToSet(SelfSearches),
      Verdict    <- FinalState,
      status     <- [id \in Id |-> mActivePeers[id].mStatus],
      idle       <- [id \in Id |-> IsActive(id) /\ mActivePeers[id].doIdle],
      told       <- callbacks

ImplementsSearch == AbstractSearch!Spec

\* "callback on new successful queries" (bdmanager.cc:586): the turn that finds a
\* search successful tells the application so, or leaves a query for it that can
\* still tell.
CallbackOnSuccess ==
    [][\A id \in AppId :
         (/\ mActivePeers[id].mStatus \in {"READY", "QUERYING"}
          /\ mActivePeers'[id].mStatus = "SUCCESS")
           => <<id, "ONLINE">> \in callbacks' \/ id \in IdsOf(mLocalQueries')]_vars

=============================================================================
