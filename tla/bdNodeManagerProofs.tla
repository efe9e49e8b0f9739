------------------------ MODULE bdNodeManagerProofs ------------------------
(***************************************************************************)
(* Proofs about the searches of the application (module bdNodeManager).    *)
(*                                                                         *)
(* An id that only the application searches for has one query at most, so  *)
(* the invariant says what that query looks like (Matches) and when there  *)
(* is one (Served).  An id that the node searches for as well may have     *)
(* several, which change places in every turn; of such an id the invariant *)
(* only says that a running search has a query.  It is stated of any list  *)
(* of queries and any statuses, because a turn goes through lists that are *)
(* never a state.                                                          *)
(***************************************************************************)
EXTENDS bdNodeManager, SeqLemmas

\* The last query of the list for id.
IsLast(queries, id, i) ==
    /\ i \in DOMAIN queries /\ queries[i].mId = id
    /\ \A j \in DOMAIN queries : queries[j].mId = id => j <= i

\* An id that only the application searches for.
IsForApp(id) == id \notin ToSet(SelfSearches)

\* A search has one query, and every query is of a search.
OneEach(queries, active) ==
    \A i \in DOMAIN queries :
      IsForApp(queries[i].mId) =>
        /\ active[queries[i].mId] # Inactive
        /\ \A j \in DOMAIN queries : queries[j].mId = queries[i].mId => i = j

\* What the search looks like that has this query.
Fits(q, p) ==
    /\ p.mStatus # "READY"
    /\ q.doIdle = p.doIdle
    /\ p.mStatus \in FinalState => p.doIdle /\ Finished(q)

Matches(queries, active) ==
    \A i \in DOMAIN queries :
      IsForApp(queries[i].mId) => Fits(queries[i], active[queries[i].mId])

\* Searches that need a query: to come to a verdict, or to another one.
Needs(id, p) ==
    \/ p.mStatus = "QUERYING"
    \/ IsForApp(id) /\ p.mStatus \in FinalState /\ p.doIdle

Served(queries, active) ==
    \A id \in Id : Needs(id, active[id]) => id \in IdsOf(queries)

Good(queries, active) ==
    /\ queries \in Seq(Query)
    /\ active \in [Id -> QueryPeer \cup {Inactive}]
    /\ OneEach(queries, active)
    /\ Matches(queries, active)
    /\ Served(queries, active)

\* The application has asked for finitely many searches.
Asked == {id \in Id : IsActive(id)}

IInv == TypeOK /\ Good(mLocalQueries, mActivePeers) /\ IsFiniteSet(Asked)

-----------------------------------------------------------------------------
(***************************************************************************)
(* Statuses and queries.                                                   *)
(***************************************************************************)
\* Inactive is none of the statuses of a search.
LEMMA Peers ==
    ASSUME NEW p \in QueryPeer \cup {Inactive}
    PROVE  /\ p # Inactive <=> p \in QueryPeer
           /\ p # Inactive <=> p.mStatus # "NONE"
           /\ p # Inactive => /\ p.mStatus \in {"READY", "QUERYING"} \cup FinalState
                              /\ p.doIdle \in BOOLEAN
<1>1. Inactive.mStatus = "NONE"
  BY DEF Inactive
<1>2. ASSUME p \in QueryPeer
      PROVE  /\ p.mStatus \in {"READY", "QUERYING"} \cup FinalState
             /\ p.doIdle \in BOOLEAN
             /\ p.mStatus # "NONE"
  BY <1>2 DEF QueryPeer, FinalState
<1> QED
  BY <1>1, <1>2

LEMMA QueryFields ==
    ASSUME NEW q \in Query
    PROVE  /\ q.mId \in Id /\ q.doIdle \in BOOLEAN
           /\ q.mState \in {"QUERYING"} \cup FinalState
           /\ Finished(q) <=> q.mState \in FinalState
BY DEF Query, Finished, FinalState

\* Of the queries for an id there is a last one, and checkStatus finds it.
LEMMA LastQuery ==
    ASSUME NEW queries \in Seq(Query), NEW id \in IdsOf(queries)
    PROVE  \E i \in DOMAIN queries :
             IsLast(queries, id, i) /\ QueryStatus(queries, id) = queries[i]
<1> DEFINE S == {i \in DOMAIN queries : queries[i].mId = id}
<1>1. S \subseteq 1 .. Len(queries) /\ Len(queries) \in Nat /\ S # {} /\ S \subseteq Nat
  BY DEF IdsOf
<1>2. IsFiniteSet(S) /\ Cardinality(S) \in Nat \ {0}
  <2>1. IsFiniteSet(1 .. Len(queries))
    BY <1>1, FS_Interval
  <2>2. IsFiniteSet(S)
    BY <1>1, <2>1, FS_Subset
  <2> QED
    BY <1>1, <2>2, FS_CardinalityType, FS_EmptySet
<1> DEFINE size == Cardinality(S)
           last == Nth(S, size)
<1> HIDE DEF S
<1>3. /\ last \in S
      /\ \A i \in S : \E n \in 1 .. size : Nth(S, n) = i
      /\ \A n \in 1 .. size : n < size => Nth(S, n) < last
  <2>1. /\ \A n \in 1 .. size : Nth(S, n) \in S
        /\ \A i \in S : \E n \in 1 .. size : Nth(S, n) = i
        /\ \A m, n \in 1 .. size : m < n => Nth(S, m) < Nth(S, n)
    BY <1>1, <1>2, NthProperties
  <2> HIDE DEF size
  <2>2. size \in 1 .. size
    BY <1>2 DEF size
  <2> QED
    BY <2>1, <2>2
<1>4. \A i \in S : i <= last
  <2> SUFFICES ASSUME NEW i \in S PROVE i <= last
    OBVIOUS
  <2>1. PICK n \in 1 .. size : Nth(S, n) = i
    BY <1>3
  <2>2. i \in Nat /\ last \in Nat
    BY <1>1, <1>3
  <2>3. CASE n = size
    BY <2>1, <2>2, <2>3
  <2>4. CASE n < size
    BY <1>3, <2>1, <2>2, <2>4
  <2> QED
    BY <1>2, <2>3, <2>4
<1> HIDE DEF last
<1>5. Max(S) = last
  <2>1. \A i \in S : last >= i
    BY <1>1, <1>3, <1>4
  <2>2. \A m \in S : (\A i \in S : m >= i) => m = last
    BY <1>1, <1>3, <2>1
  <2> QED
    BY <1>3, <2>1, <2>2 DEF Max
<1>6. QueryStatus(queries, id) = queries[last]
  BY <1>5 DEF QueryStatus, S
<1> QED
  BY <1>3, <1>4, <1>6 DEF IsLast, S

LEMMA LastIsUnique ==
    ASSUME NEW queries \in Seq(Query), NEW id, NEW i, NEW j,
           IsLast(queries, id, i), IsLast(queries, id, j)
    PROVE  i = j
BY DEF IsLast

\* clearQuery leaves the queries for other ids, in their order: the n-th that is left
\* has been the at[n]-th.
Leaves(at, queries, ids, left) ==
    /\ at \in [DOMAIN left -> DOMAIN queries]
    /\ \A n \in DOMAIN left : left[n] = queries[at[n]] /\ left[n].mId \notin ids
    /\ \A i \in DOMAIN queries : queries[i].mId \notin ids => \E n \in DOMAIN left : at[n] = i
    /\ \A m, n \in DOMAIN left : (at[m] = at[n] => m = n) /\ (at[m] <= at[n] => m <= n)

LEMMA ClearedProperties ==
    ASSUME NEW queries \in Seq(Query), NEW ids
    PROVE  /\ Cleared(queries, ids) \in Seq(Query)
           /\ \E at : Leaves(at, queries, ids, Cleared(queries, ids))
<1> DEFINE kept == {i \in DOMAIN queries : queries[i].mId \notin ids}
           list == Kept(queries, kept)
           at == [n \in DOMAIN list |-> Nth(kept, n)]
<1>0. kept \in SUBSET DOMAIN queries
  OBVIOUS
<1>1. /\ list \in Seq(Query)
      /\ DOMAIN list \subseteq Nat
      /\ \A n \in DOMAIN list : Nth(kept, n) \in kept /\ list[n] = queries[Nth(kept, n)]
      /\ \A i \in kept : \E n \in DOMAIN list : Nth(kept, n) = i
      /\ \A m, n \in DOMAIN list : m < n => Nth(kept, m) < Nth(kept, n)
  BY <1>0, KeptProperties
<1>2. Cleared(queries, ids) = list
  BY DEF Cleared
<1>3. \A i \in kept : i \in DOMAIN queries /\ i \in Nat /\ queries[i].mId \notin ids
  OBVIOUS
<1>4. at \in [DOMAIN list -> DOMAIN queries]
  BY <1>1, <1>3
<1>5. \A n \in DOMAIN list : list[n] = queries[at[n]] /\ list[n].mId \notin ids
  BY <1>1, <1>3
<1>6. \A i \in DOMAIN queries : queries[i].mId \notin ids => \E n \in DOMAIN list : at[n] = i
  BY <1>1
<1>7. ASSUME NEW m \in DOMAIN list, NEW n \in DOMAIN list
      PROVE  (at[m] = at[n] => m = n) /\ (at[m] <= at[n] => m <= n)
  <2>1. m \in Nat /\ n \in Nat /\ at[m] \in Nat /\ at[n] \in Nat
    BY <1>1, <1>3
  <2>2. (m < n => at[m] < at[n]) /\ (n < m => at[n] < at[m])
    BY <1>1
  <2> HIDE DEF at
  <2> QED
    BY <2>1, <2>2
<1> HIDE DEF at, list
<1>8. Leaves(at, queries, ids, list)
  BY <1>4, <1>5, <1>6, <1>7 DEF Leaves
<1> QED
  BY <1>1, <1>2, <1>8

\* The ids whose queries are cleared have none any more, the others keep theirs.
LEMMA ClearedIds ==
    ASSUME NEW queries \in Seq(Query), NEW ids
    PROVE  IdsOf(Cleared(queries, ids)) = IdsOf(queries) \ ids
<1> DEFINE list == Cleared(queries, ids)
<1>1. PICK at : Leaves(at, queries, ids, list)
  BY ClearedProperties
<1> HIDE DEF list
<1>2. IdsOf(list) \subseteq IdsOf(queries) \ ids
  BY <1>1 DEF Leaves, IdsOf
<1>3. IdsOf(queries) \ ids \subseteq IdsOf(list)
  BY <1>1 DEF Leaves, IdsOf
<1> QED
  BY <1>2, <1>3 DEF list

\* The last query of an id that gets one is among those that were appended.
LEMMA AppendedLast ==
    ASSUME NEW old \in Seq(Query), NEW new \in Seq(Query), NEW id
    PROVE  /\ old \o new \in Seq(Query)
           /\ \A i \in DOMAIN old : i \in DOMAIN (old \o new) /\ (old \o new)[i] = old[i]
           /\ \A i \in DOMAIN (old \o new) :
                \/ i \in DOMAIN old
                \/ \E k \in DOMAIN new : i = Len(old) + k /\ (old \o new)[i] = new[k]
           /\ \A k \in DOMAIN new : /\ Len(old) + k \in DOMAIN (old \o new)
                                    /\ (old \o new)[Len(old) + k] = new[k]
           /\ id \in IdsOf(new) =>
                \E k \in DOMAIN new : /\ (old \o new)[Len(old) + k] = new[k]
                                      /\ IsLast(old \o new, id, Len(old) + k)
<1> DEFINE both == old \o new
<1>1. /\ both \in Seq(Query)
      /\ Len(old) \in Nat /\ Len(new) \in Nat
      /\ DOMAIN old = 1 .. Len(old) /\ DOMAIN new = 1 .. Len(new)
      /\ DOMAIN both = 1 .. Len(old) + Len(new)
      /\ \A j \in 1 .. Len(old) + Len(new) :
           both[j] = IF j <= Len(old) THEN old[j] ELSE new[j - Len(old)]
  BY ConcatElements
<1> HIDE DEF both
<1>2. \A i \in DOMAIN old : i \in DOMAIN both /\ both[i] = old[i]
  BY <1>1
<1>3. \A k \in DOMAIN new : /\ Len(old) + k \in DOMAIN both
                            /\ both[Len(old) + k] = new[k]
                            /\ ~ (Len(old) + k <= Len(old))
  BY <1>1
<1>4. ASSUME NEW i \in DOMAIN both, i \notin DOMAIN old
      PROVE  \E k \in DOMAIN new : i = Len(old) + k /\ both[i] = new[k]
  <2>1. /\ i - Len(old) \in DOMAIN new /\ i = Len(old) + (i - Len(old))
        /\ both[i] = new[i - Len(old)]
    BY <1>1, <1>4
  <2> QED
    BY <2>1
<1>5. ASSUME id \in IdsOf(new)
      PROVE  \E k \in DOMAIN new : /\ both[Len(old) + k] = new[k]
                                   /\ IsLast(both, id, Len(old) + k)
  <2>1. PICK k \in DOMAIN new : IsLast(new, id, k)
    BY <1>5, LastQuery
  <2>2. k \in DOMAIN new /\ k \in Nat /\ new[k].mId = id
    BY <1>1, <2>1 DEF IsLast
  <2>3. ASSUME NEW j \in DOMAIN both, both[j].mId = id PROVE j <= Len(old) + k
    <3>1. j \in Nat
      BY <1>1
    <3>2. CASE j \in DOMAIN old
      BY <1>1, <2>2, <3>2
    <3>3. CASE j \notin DOMAIN old
      <4>1. PICK l \in DOMAIN new : j = Len(old) + l /\ both[j] = new[l]
        BY <1>4, <3>3
      <4>2. l <= k /\ l \in Nat
        BY <1>1, <2>1, <2>3, <4>1 DEF IsLast
      <4> QED
        BY <1>1, <2>2, <4>1, <4>2
    <3> QED
      BY <3>2, <3>3
  <2>4. IsLast(both, id, Len(old) + k)
    BY <1>3, <2>2, <2>3 DEF IsLast
  <2> QED
    BY <1>3, <2>2, <2>4
<1> QED
  BY <1>1, <1>2, <1>3, <1>4, <1>5 DEF both

-----------------------------------------------------------------------------
(***************************************************************************)
(* What a step may do to the queries and the statuses.                     *)
(***************************************************************************)
\* Running the queries changes verdicts, takes none back and moves the queries that
\* were served to the back: from[i] is where the i-th query has been.
Runs(from, queries, after) ==
    /\ from \in [DOMAIN queries -> DOMAIN queries]
    /\ DOMAIN after = DOMAIN queries
    /\ \A i \in DOMAIN queries :
         /\ after[i].mId = queries[from[i]].mId
         /\ after[i].doIdle = queries[from[i]].doIdle
         /\ Finished(queries[from[i]]) => Finished(after[i])
    /\ \A i, j \in DOMAIN queries : from[i] = from[j] => i = j
    /\ \A j \in DOMAIN queries : \E i \in DOMAIN queries : from[i] = j

LEMMA OutcomeProperties ==
    ASSUME NEW q \in Query, NEW outcome \in Verdict \cup {"no news"}
    PROVE  LET after == WithOutcome(q, outcome)
           IN  /\ after \in Query /\ after.mId = q.mId /\ after.doIdle = q.doIdle
               /\ Finished(q) => Finished(after)
<1>1. CASE outcome = "no news"
  BY <1>1 DEF WithOutcome
<1>2. CASE outcome # "no news"
  <2>1. outcome \in FinalState /\ "QUERYING" \notin FinalState
    BY <1>2, ManagerAssumption DEF FinalState
  <2>2. WithOutcome(q, outcome) = [q EXCEPT !.mState = outcome]
    BY <1>2 DEF WithOutcome
  <2> QED
    BY <2>1, <2>2 DEF Query, Finished
<1> QED
  BY <1>1, <1>2

LEMMA RunProperties ==
    ASSUME NEW queries \in Seq(Query), RunQueries(queries)
    PROVE  /\ mLocalQueries' \in Seq(Query)
           /\ \E from : Runs(from, queries, mLocalQueries')
<1>0. /\ DOMAIN queries = 1 .. Len(queries) /\ Len(queries) \in Nat
      /\ \A i \in DOMAIN queries : queries[i] \in Query
  OBVIOUS
<1>1. PICK served \in 0 .. Len(queries) :
      \E news \in [{i \in 1 .. served : ~ IsOver(queries[i])} -> Verdict \cup {"no news"}] :
        mLocalQueries' =
          Rotated([i \in DOMAIN queries |->
                     IF i \in DOMAIN news THEN WithOutcome(queries[i], news[i])
                     ELSE queries[i]], served)
  BY DEF RunQueries
<1>2. PICK news \in [{i \in 1 .. served : ~ IsOver(queries[i])} -> Verdict \cup {"no news"}] :
        mLocalQueries' =
          Rotated([i \in DOMAIN queries |->
                     IF i \in DOMAIN news THEN WithOutcome(queries[i], news[i])
                     ELSE queries[i]], served)
  BY <1>1
<1> DEFINE turned == [i \in DOMAIN queries |->
                        IF i \in DOMAIN news THEN WithOutcome(queries[i], news[i])
                        ELSE queries[i]]
<1>3. ASSUME NEW i \in DOMAIN queries
      PROVE  /\ turned[i] \in Query
             /\ turned[i].mId = queries[i].mId
             /\ turned[i].doIdle = queries[i].doIdle
             /\ Finished(queries[i]) => Finished(turned[i])
  <2>1. CASE i \in DOMAIN news
    <3>1. turned[i] = WithOutcome(queries[i], news[i]) /\ news[i] \in Verdict \cup {"no news"}
      BY <1>2, <2>1
    <3> HIDE DEF turned
    <3> QED
      BY <1>0, <3>1, OutcomeProperties
  <2>2. CASE i \notin DOMAIN news
    BY <1>0, <2>2
  <2> QED
    BY <2>1, <2>2
<1>4. turned \in Seq(Query) /\ Len(turned) = Len(queries) /\ DOMAIN turned = DOMAIN queries
  <2>1. turned \in [1 .. Len(queries) -> Query] /\ DOMAIN turned = 1 .. Len(queries)
    BY <1>0, <1>3
  <2> HIDE DEF turned
  <2>2. turned \in Seq(Query) /\ Len(turned) = Len(queries)
    BY <1>0, <2>1, FunctionToSeq
  <2> QED
    BY <1>0, <2>1, <2>2
<1>5. mLocalQueries' = Rotated(turned, served)
  BY <1>2
<1> HIDE DEF turned
<1>6. mLocalQueries' \in Seq(Query) /\ \E from : Moves(from, turned, mLocalQueries')
  <2>1. served \in 0 .. Len(turned)
    BY <1>1, <1>4
  <2> QED
    BY <1>4, <1>5, <2>1, RotatedProperties
<1>7. PICK from : Moves(from, turned, mLocalQueries')
  BY <1>6
<1>8. Runs(from, queries, mLocalQueries')
  <2>1. ASSUME NEW i \in DOMAIN queries
        PROVE  /\ mLocalQueries'[i].mId = queries[from[i]].mId
               /\ mLocalQueries'[i].doIdle = queries[from[i]].doIdle
               /\ Finished(queries[from[i]]) => Finished(mLocalQueries'[i])
    <3>1. from[i] \in DOMAIN queries /\ mLocalQueries'[i] = turned[from[i]]
      BY <1>4, <1>7 DEF Moves
    <3> QED
      BY <1>3, <3>1
  <2> QED
    BY <1>4, <1>7, <2>1 DEF Runs, Moves
<1> QED
  BY <1>6, <1>8

LEMMA RunGood ==
    ASSUME NEW queries, NEW active, Good(queries, active), RunQueries(queries)
    PROVE  Good(mLocalQueries', active)
<1>0. queries \in Seq(Query)
  BY DEF Good
<1>1. mLocalQueries' \in Seq(Query) /\ \E from : Runs(from, queries, mLocalQueries')
  BY <1>0, RunProperties
<1>2. PICK from : Runs(from, queries, mLocalQueries')
  BY <1>1
<1>3. OneEach(mLocalQueries', active)
  <2> SUFFICES ASSUME NEW i \in DOMAIN queries, IsForApp(mLocalQueries'[i].mId)
               PROVE  /\ active[mLocalQueries'[i].mId] # Inactive
                      /\ \A j \in DOMAIN queries :
                           mLocalQueries'[j].mId = mLocalQueries'[i].mId => i = j
    BY <1>2 DEF OneEach, Runs
  <2>1. from[i] \in DOMAIN queries /\ mLocalQueries'[i].mId = queries[from[i]].mId
    BY <1>2 DEF Runs
  <2>2. active[mLocalQueries'[i].mId] # Inactive
    BY <2>1 DEF Good, OneEach
  <2>3. ASSUME NEW j \in DOMAIN queries, mLocalQueries'[j].mId = mLocalQueries'[i].mId
        PROVE  i = j
    <3>1. from[j] \in DOMAIN queries /\ mLocalQueries'[j].mId = queries[from[j]].mId
      BY <1>2 DEF Runs
    <3>2. from[i] = from[j]
      BY <2>1, <2>3, <3>1 DEF Good, OneEach
    <3> QED
      BY <1>2, <3>2 DEF Runs
  <2> QED
    BY <2>2, <2>3
<1>4. Matches(mLocalQueries', active)
  <2> SUFFICES ASSUME NEW i \in DOMAIN queries, IsForApp(mLocalQueries'[i].mId)
               PROVE  Fits(mLocalQueries'[i], active[mLocalQueries'[i].mId])
    BY <1>2 DEF Matches, Runs
  <2>1. /\ from[i] \in DOMAIN queries /\ mLocalQueries'[i].mId = queries[from[i]].mId
        /\ mLocalQueries'[i].doIdle = queries[from[i]].doIdle
        /\ Finished(queries[from[i]]) => Finished(mLocalQueries'[i])
    BY <1>2 DEF Runs
  <2>2. Fits(queries[from[i]], active[mLocalQueries'[i].mId])
    BY <2>1 DEF Good, Matches
  <2> QED
    BY <2>1, <2>2 DEF Fits
<1>5. IdsOf(queries) \subseteq IdsOf(mLocalQueries')
  BY <1>2 DEF IdsOf, Runs
<1>6. Served(mLocalQueries', active)
  BY <1>5 DEF Good, Served
<1> QED
  BY <1>1, <1>3, <1>4, <1>6 DEF Good

\* A search is withdrawn together with its query; the search for an id that the node
\* searches for as well may be withdrawn alone.
LEMMA ClearGood ==
    ASSUME NEW queries, NEW active, Good(queries, active), NEW ids,
           NEW after \in [Id -> QueryPeer \cup {Inactive}],
           \A id \in Id : \/ after[id] = active[id] /\ id \notin ids
                          \/ /\ after[id] = Inactive
                             /\ id \in ids \/ active[id] = Inactive \/ ~ IsForApp(id)
    PROVE  Good(Cleared(queries, ids), after)
<1> DEFINE list == Cleared(queries, ids)
<1>0. queries \in Seq(Query)
  BY DEF Good
<1>1. list \in Seq(Query)
  BY <1>0, ClearedProperties
<1>2. PICK at : Leaves(at, queries, ids, list)
  BY <1>0, ClearedProperties
<1> HIDE DEF list
<1>3. ASSUME NEW n \in DOMAIN list, IsForApp(list[n].mId)
      PROVE  /\ list[n].mId \in Id /\ list[n].mId \notin ids
             /\ active[list[n].mId] # Inactive
             /\ after[list[n].mId] = active[list[n].mId]
  <2>1. at[n] \in DOMAIN queries /\ list[n] = queries[at[n]] /\ list[n].mId \notin ids
    BY <1>2 DEF Leaves
  <2>2. list[n].mId \in Id
    BY <1>0, <2>1, QueryFields
  <2>3. active[list[n].mId] # Inactive
    BY <1>3, <2>1 DEF Good, OneEach
  <2> QED
    BY <1>3, <2>1, <2>2, <2>3
<1>4. OneEach(list, after)
  <2> SUFFICES ASSUME NEW n \in DOMAIN list, IsForApp(list[n].mId)
               PROVE  /\ after[list[n].mId] # Inactive
                      /\ \A m \in DOMAIN list : list[m].mId = list[n].mId => n = m
    BY DEF OneEach
  <2>1. after[list[n].mId] # Inactive
    BY <1>3
  <2>2. ASSUME NEW m \in DOMAIN list, list[m].mId = list[n].mId PROVE n = m
    <3>1. /\ at[n] \in DOMAIN queries /\ list[n] = queries[at[n]]
          /\ at[m] \in DOMAIN queries /\ list[m] = queries[at[m]]
      BY <1>2 DEF Leaves
    <3>2. at[n] = at[m]
      BY <2>2, <3>1 DEF Good, OneEach
    <3> QED
      BY <1>2, <3>2 DEF Leaves
  <2> QED
    BY <2>1, <2>2
<1>5. Matches(list, after)
  <2> SUFFICES ASSUME NEW n \in DOMAIN list, IsForApp(list[n].mId)
               PROVE  Fits(list[n], after[list[n].mId])
    BY DEF Matches
  <2>1. at[n] \in DOMAIN queries /\ list[n] = queries[at[n]]
    BY <1>2 DEF Leaves
  <2>2. Fits(list[n], active[list[n].mId])
    BY <2>1 DEF Good, Matches
  <2> QED
    BY <1>3, <2>2
<1>6. Served(list, after)
  <2> SUFFICES ASSUME NEW id \in Id, Needs(id, after[id]) PROVE id \in IdsOf(list)
    BY DEF Served
  <2>1. Inactive.mStatus = "NONE"
    BY DEF Inactive
  <2>2. after[id] = active[id] /\ id \notin ids
    BY <2>1 DEF Needs, FinalState
  <2>3. id \in IdsOf(queries)
    BY <2>2 DEF Good, Served
  <2> QED
    BY <1>0, <2>2, <2>3, ClearedIds DEF list
<1> QED
  BY <1>1, <1>4, <1>5, <1>6 DEF Good, list

\* A search that is not under way has no query and needs none.
LEMMA AskGood ==
    ASSUME Good(mLocalQueries, mActivePeers), NEW id \in Id, ~ IsActive(id),
           NEW doIdle \in BOOLEAN,
           mActivePeers' = [mActivePeers EXCEPT ![id] = [mStatus |-> "READY", doIdle |-> doIdle]],
           mLocalQueries' = mLocalQueries
    PROVE  Good(mLocalQueries', mActivePeers')
<1> DEFINE p == [mStatus |-> "READY", doIdle |-> doIdle]
<1>1. p \in QueryPeer /\ p # Inactive /\ ~ Needs(id, p)
  <2>1. p \in QueryPeer
    BY DEF QueryPeer
  <2> QED
    BY <2>1, Peers DEF Needs, FinalState
<1>2. /\ mActivePeers \in [Id -> QueryPeer \cup {Inactive}]
      /\ mActivePeers' \in [Id -> QueryPeer \cup {Inactive}]
      /\ mActivePeers'[id] = p
      /\ \A other \in Id : other # id => mActivePeers'[other] = mActivePeers[other]
  BY <1>1 DEF Good
<1> HIDE DEF p
<1>3. \A i \in DOMAIN mLocalQueries : mLocalQueries[i].mId \in Id
  BY QueryFields DEF Good
<1>4. \A i \in DOMAIN mLocalQueries :
        IsForApp(mLocalQueries[i].mId) => mLocalQueries[i].mId # id
  BY DEF Good, OneEach, IsActive
<1>5. OneEach(mLocalQueries, mActivePeers')
  BY <1>2, <1>3, <1>4 DEF Good, OneEach
<1>6. Matches(mLocalQueries, mActivePeers')
  BY <1>2, <1>3, <1>4 DEF Good, Matches
<1>7. Served(mLocalQueries, mActivePeers')
  BY <1>1, <1>2 DEF Good, Served
<1> QED
  BY <1>2, <1>5, <1>6, <1>7 DEF Good

\* Without queries nothing is wrong as long as no search runs.
LEMMA AllReadyGood ==
    ASSUME mActivePeers \in [Id -> QueryPeer \cup {Inactive}]
    PROVE  /\ AllReady \in [Id -> QueryPeer \cup {Inactive}]
           /\ \A id \in Id : AllReady[id] # Inactive <=> IsActive(id)
           /\ \A id \in Id : IsActive(id) => AllReady[id].mStatus = "READY"
                                             /\ AllReady[id].doIdle = mActivePeers[id].doIdle
           /\ Good(<<>>, AllReady)
<1>1. ASSUME NEW id \in Id
      PROVE  /\ AllReady[id] \in QueryPeer \cup {Inactive}
             /\ AllReady[id] # Inactive <=> IsActive(id)
             /\ IsActive(id) => AllReady[id].mStatus = "READY"
                                /\ AllReady[id].doIdle = mActivePeers[id].doIdle
  <2>1. CASE IsActive(id)
    <3>1. mActivePeers[id] \in QueryPeer
      BY <2>1 DEF IsActive
    <3>2. AllReady[id] = [mActivePeers[id] EXCEPT !.mStatus = "READY"]
      BY <2>1 DEF AllReady
    <3>3. /\ AllReady[id] \in QueryPeer /\ AllReady[id].mStatus = "READY"
          /\ AllReady[id].doIdle = mActivePeers[id].doIdle
      BY <3>1, <3>2 DEF QueryPeer
    <3> QED
      BY <2>1, <3>3, Peers
  <2>2. CASE ~ IsActive(id)
    BY <2>2 DEF AllReady
  <2> QED
    BY <2>1, <2>2
<1>2. AllReady \in [Id -> QueryPeer \cup {Inactive}]
  BY <1>1 DEF AllReady
<1>3. \A id \in Id : ~ Needs(id, AllReady[id])
  BY <1>1 DEF Needs, FinalState, IsActive, Inactive
<1>4. OneEach(<<>>, AllReady) /\ Matches(<<>>, AllReady)
  BY DEF OneEach, Matches
<1>5. Served(<<>>, AllReady)
  BY <1>3 DEF Served
<1>6. <<>> \in Seq(Query)
  OBVIOUS
<1>7. Good(<<>>, AllReady)
  BY <1>2, <1>4, <1>5, <1>6 DEF Good
<1> QED
  BY <1>1, <1>2, <1>7

\* What the node searches for itself.
OwnQueries == [i \in DOMAIN SelfSearches |-> NewQuery(SelfSearches[i], TRUE)]

LEMMA OwnQueryProperties ==
    /\ OwnQueries \in Seq(Query)
    /\ \A k \in DOMAIN OwnQueries : ~ IsForApp(OwnQueries[k].mId)
<1>1. SelfSearches \in Seq(Id)
  BY ManagerAssumption
<1>2. \A i \in DOMAIN SelfSearches : SelfSearches[i] \in Id /\ SelfSearches[i] \in ToSet(SelfSearches)
  BY <1>1 DEF ToSet
<1>3. \A id \in Id : NewQuery(id, TRUE) \in Query /\ NewQuery(id, TRUE).mId = id
  BY DEF NewQuery, Query
<1>4. DOMAIN SelfSearches = 1 .. Len(SelfSearches) /\ Len(SelfSearches) \in Nat
  BY <1>1
<1>5. OwnQueries \in [1 .. Len(SelfSearches) -> Query]
  BY <1>2, <1>3, <1>4 DEF OwnQueries
<1>6. OwnQueries \in Seq(Query)
  BY <1>4, <1>5, FunctionToSeq
<1>7. ASSUME NEW k \in DOMAIN OwnQueries
      PROVE  ~ IsForApp(OwnQueries[k].mId)
  <2>1. k \in DOMAIN SelfSearches /\ OwnQueries[k] = NewQuery(SelfSearches[k], TRUE)
    BY DEF OwnQueries
  <2> QED
    BY <1>2, <1>3, <2>1 DEF IsForApp
<1> QED
  BY <1>6, <1>7

LEMMA StartupGood ==
    ASSUME NEW queries, NEW active, Good(queries, active)
    PROVE  Good(queries \o OwnQueries, active)
<1> DEFINE both == queries \o OwnQueries
<1>0. queries \in Seq(Query) /\ OwnQueries \in Seq(Query)
  BY OwnQueryProperties DEF Good
<1>1. /\ both \in Seq(Query)
      /\ \A i \in DOMAIN queries : i \in DOMAIN both /\ both[i] = queries[i]
      /\ \A i \in DOMAIN both :
           i \in DOMAIN queries \/ \E k \in DOMAIN OwnQueries : both[i] = OwnQueries[k]
  BY <1>0, AppendedLast
<1> HIDE DEF both
<1>3. \A i \in DOMAIN both : IsForApp(both[i].mId) => i \in DOMAIN queries /\ both[i] = queries[i]
  BY <1>1, OwnQueryProperties
<1>4. OneEach(both, active)
  <2> SUFFICES ASSUME NEW i \in DOMAIN both, IsForApp(both[i].mId)
               PROVE  /\ active[both[i].mId] # Inactive
                      /\ \A j \in DOMAIN both : both[j].mId = both[i].mId => i = j
    BY DEF OneEach
  <2>1. i \in DOMAIN queries /\ both[i] = queries[i]
    BY <1>3
  <2>2. \A j \in DOMAIN both : both[j].mId = both[i].mId => j \in DOMAIN queries /\ both[j] = queries[j]
    BY <1>3
  <2> QED
    BY <2>1, <2>2 DEF Good, OneEach
<1>5. Matches(both, active)
  BY <1>3 DEF Good, Matches
<1>6. Served(both, active)
  <2>1. IdsOf(queries) \subseteq IdsOf(both)
    BY <1>1 DEF IdsOf
  <2> QED
    BY <2>1 DEF Good, Served
<1> QED
  BY <1>1, <1>4, <1>5, <1>6 DEF Good, both

-----------------------------------------------------------------------------
(***************************************************************************)
(* The turn in REFRESH.                                                    *)
(***************************************************************************)
Ready == {id \in Id : IsReady(id)}

\* startQueries adds one query for every search that waits.
LEMMA QueriesForProperties ==
    ASSUME IInv
    PROVE  /\ QueriesFor(Ready) \in Seq(Query)
           /\ IdsOf(QueriesFor(Ready)) = Ready
           /\ \A k \in DOMAIN QueriesFor(Ready) :
                LET q == QueriesFor(Ready)[k]
                IN  /\ q.mId \in Ready /\ q.doIdle = mActivePeers[q.mId].doIdle
                    /\ q.mState = "QUERYING"
                    /\ \A l \in DOMAIN QueriesFor(Ready) :
                         QueriesFor(Ready)[l].mId = q.mId => k = l
<1> DEFINE ready == SetToSeq(Ready)
           new == QueriesFor(Ready)
<1>1. IsFiniteSet(Ready)
  <2>1. Ready \subseteq Asked
    BY DEF Ready, Asked, IsReady
  <2> QED
    BY <2>1, FS_Subset DEF IInv
<1>2. /\ ready \in Seq(Ready) /\ IsInjective(ready) /\ ToSet(ready) = Ready
  BY <1>1, SetToSeqProperties
<1>3. DOMAIN ready = 1 .. Len(ready) /\ Len(ready) \in Nat
  BY <1>2
<1> HIDE DEF ready
<1>4. \A k \in DOMAIN ready : ready[k] \in Ready
  BY <1>2
<1>5. new = [k \in DOMAIN ready |-> NewQuery(ready[k], mActivePeers[ready[k]].doIdle)]
  BY DEF QueriesFor, ready
<1> HIDE DEF new
<1>6. ASSUME NEW k \in DOMAIN ready
      PROVE  /\ new[k] \in Query /\ new[k].mId = ready[k] /\ new[k].mState = "QUERYING"
             /\ new[k].doIdle = mActivePeers[ready[k]].doIdle
  <2>1. ready[k] \in Id /\ IsActive(ready[k])
    BY <1>4 DEF Ready, IsReady
  <2>2. mActivePeers[ready[k]].doIdle \in BOOLEAN
    BY <2>1, Peers DEF IInv, TypeOK, IsActive
  <2> QED
    BY <1>5, <2>1, <2>2 DEF NewQuery, Query
<1>7. new \in Seq(Query) /\ DOMAIN new = DOMAIN ready
  <2>1. new \in [1 .. Len(ready) -> Query]
    BY <1>3, <1>5, <1>6
  <2> QED
    BY <1>3, <1>5, <2>1, FunctionToSeq
<1>8. IdsOf(new) = Ready
  BY <1>2, <1>4, <1>6, <1>7 DEF IdsOf, ToSet
<1>9. ASSUME NEW k \in DOMAIN new
      PROVE  /\ new[k].mId \in Ready /\ new[k].doIdle = mActivePeers[new[k].mId].doIdle
             /\ new[k].mState = "QUERYING"
             /\ \A l \in DOMAIN new : new[l].mId = new[k].mId => k = l
  <2>1. \A l \in DOMAIN ready : ready[l] = ready[k] => k = l
    BY <1>2, <1>7 DEF IsInjective
  <2> QED
    BY <1>4, <1>6, <1>7, <2>1
<1> QED
  BY <1>7, <1>8, <1>9 DEF new

LEMMA StartedProperties ==
    ASSUME mActivePeers \in [Id -> QueryPeer \cup {Inactive}]
    PROVE  /\ Started \in [Id -> QueryPeer \cup {Inactive}]
           /\ \A id \in Id :
                /\ Started[id] # Inactive <=> IsActive(id)
                /\ id \notin Ready => Started[id] = mActivePeers[id]
                /\ id \in Ready => /\ Started[id].mStatus = "QUERYING"
                                   /\ Started[id].doIdle = mActivePeers[id].doIdle
                /\ Started[id].mStatus # "READY"
<1>1. ASSUME NEW id \in Id
      PROVE  /\ Started[id] \in QueryPeer \cup {Inactive}
             /\ Started[id] # Inactive <=> IsActive(id)
             /\ id \notin Ready => Started[id] = mActivePeers[id]
             /\ id \in Ready => /\ Started[id].mStatus = "QUERYING"
                                /\ Started[id].doIdle = mActivePeers[id].doIdle
             /\ Started[id].mStatus # "READY"
  <2>1. CASE id \in Ready
    <3>1. mActivePeers[id] \in QueryPeer /\ IsActive(id)
      BY <2>1 DEF Ready, IsReady, IsActive
    <3>2. Started[id] = [mActivePeers[id] EXCEPT !.mStatus = "QUERYING"]
      BY <2>1 DEF Started, Ready
    <3>3. /\ Started[id] \in QueryPeer /\ Started[id].mStatus = "QUERYING"
          /\ Started[id].doIdle = mActivePeers[id].doIdle
      BY <3>1, <3>2 DEF QueryPeer
    <3> QED
      BY <2>1, <3>1, <3>3, Peers
  <2>2. CASE id \notin Ready
    <3>1. Started[id] = mActivePeers[id]
      BY <2>2 DEF Started, Ready
    <3>2. Started[id].mStatus # "READY"
      BY <2>2, <3>1, Peers DEF Ready, IsReady, IsActive
    <3> QED
      BY <2>2, <3>1, <3>2 DEF IsActive
  <2> QED
    BY <2>1, <2>2
<1>2. Started \in [Id -> QueryPeer \cup {Inactive}]
  BY <1>1 DEF Started
<1> QED
  BY <1>1, <1>2

\* The new queries are the ones of the searches that start.
LEMMA StartGood ==
    ASSUME IInv
    PROVE  Good(mLocalQueries \o QueriesFor(Ready), Started)
<1> DEFINE old == mLocalQueries
           new == QueriesFor(Ready)
           both == old \o new
<1>0. /\ old \in Seq(Query) /\ new \in Seq(Query) /\ IdsOf(new) = Ready
      /\ Good(old, mActivePeers) /\ mActivePeers \in [Id -> QueryPeer \cup {Inactive}]
  BY QueriesForProperties DEF IInv, Good
<1>1. ASSUME NEW k \in DOMAIN new
      PROVE  /\ new[k].mId \in Ready /\ new[k].doIdle = mActivePeers[new[k].mId].doIdle
             /\ \A l \in DOMAIN new : new[l].mId = new[k].mId => k = l
  BY QueriesForProperties
<1>2. /\ both \in Seq(Query)
      /\ \A i \in DOMAIN old : i \in DOMAIN both /\ both[i] = old[i]
      /\ \A i \in DOMAIN both :
           i \in DOMAIN old \/ \E k \in DOMAIN new : i = Len(old) + k /\ both[i] = new[k]
  BY <1>0, AppendedLast
<1>3. \A k \in DOMAIN new : Len(old) + k \in DOMAIN both /\ both[Len(old) + k] = new[k]
  BY <1>0, AppendedLast
<1>4. /\ Started \in [Id -> QueryPeer \cup {Inactive}]
      /\ \A id \in Id :
           /\ Started[id] # Inactive <=> IsActive(id)
           /\ id \notin Ready => Started[id] = mActivePeers[id]
           /\ id \in Ready => /\ Started[id].mStatus = "QUERYING"
                              /\ Started[id].doIdle = mActivePeers[id].doIdle
           /\ Started[id].mStatus # "READY"
  BY <1>0, StartedProperties
<1> HIDE DEF old, new, both
<1>5. ASSUME NEW i \in DOMAIN old, IsForApp(old[i].mId)
      PROVE  old[i].mId \in Id /\ old[i].mId \notin Ready /\ IsActive(old[i].mId)
  <2>1. old[i].mId \in Id
    BY <1>0, QueryFields
  <2>2. mActivePeers[old[i].mId].mStatus # "READY" /\ IsActive(old[i].mId)
    BY <1>0, <1>5 DEF Good, OneEach, Matches, Fits, IsActive
  <2> QED
    BY <2>1, <2>2 DEF Ready, IsReady
<1>6. OneEach(both, Started)
  <2> SUFFICES ASSUME NEW i \in DOMAIN both, IsForApp(both[i].mId)
               PROVE  /\ Started[both[i].mId] # Inactive
                      /\ \A j \in DOMAIN both : both[j].mId = both[i].mId => i = j
    BY DEF OneEach
  <2>1. CASE i \in DOMAIN old
    <3>1. both[i] = old[i] /\ old[i].mId \notin Ready /\ Started[both[i].mId] # Inactive
      BY <1>2, <1>4, <1>5, <2>1
    <3>2. ASSUME NEW j \in DOMAIN both, both[j].mId = both[i].mId
          PROVE  j \in DOMAIN old /\ both[j] = old[j]
      BY <1>1, <1>2, <3>1, <3>2
    <3> QED
      BY <1>0, <2>1, <3>1, <3>2 DEF Good, OneEach
  <2>2. CASE i \notin DOMAIN old
    <3>1. PICK k \in DOMAIN new : i = Len(old) + k /\ both[i] = new[k]
      BY <1>2, <2>2
    <3>2. both[i].mId \in Ready
      BY <1>1, <3>1
    <3>3. Started[both[i].mId] # Inactive
      BY <1>4, <3>2 DEF Ready, IsReady
    <3>4. ASSUME NEW j \in DOMAIN both, both[j].mId = both[i].mId PROVE i = j
      <4>1. j \notin DOMAIN old
        BY <1>2, <1>5, <3>2, <3>4
      <4>2. PICK l \in DOMAIN new : j = Len(old) + l /\ both[j] = new[l]
        BY <1>2, <4>1
      <4> QED
        BY <1>1, <3>1, <3>4, <4>2
    <3> QED
      BY <3>3, <3>4
  <2> QED
    BY <2>1, <2>2
<1>7. Matches(both, Started)
  <2> SUFFICES ASSUME NEW i \in DOMAIN both, IsForApp(both[i].mId)
               PROVE  Fits(both[i], Started[both[i].mId])
    BY DEF Matches
  <2>1. CASE i \in DOMAIN old
    <3>1. both[i] = old[i] /\ IsForApp(old[i].mId)
      BY <1>2, <2>1
    <3>2. Started[old[i].mId] = mActivePeers[old[i].mId]
      BY <1>4, <1>5, <2>1, <3>1
    <3>3. Fits(old[i], mActivePeers[old[i].mId])
      BY <1>0, <2>1, <3>1 DEF Good, Matches
    <3> QED
      BY <3>1, <3>2, <3>3
  <2>2. CASE i \notin DOMAIN old
    <3>1. PICK k \in DOMAIN new : both[i] = new[k]
      BY <1>2, <2>2
    <3>2. /\ both[i].mId \in Ready /\ both[i].mId \in Id
          /\ both[i].doIdle = mActivePeers[both[i].mId].doIdle
      BY <1>1, <3>1 DEF Ready
    <3> QED
      BY <1>4, <3>2 DEF Fits, FinalState
  <2> QED
    BY <2>1, <2>2
<1>8. Served(both, Started)
  <2> SUFFICES ASSUME NEW id \in Id, Needs(id, Started[id]) PROVE id \in IdsOf(both)
    BY DEF Served
  <2>1. CASE id \in Ready
    BY <1>0, <1>3, <2>1 DEF IdsOf
  <2>2. CASE id \notin Ready
    <3>1. id \in IdsOf(old)
      BY <1>0, <1>4, <2>2 DEF Good, Served
    <3> QED
      BY <1>2, <3>1 DEF IdsOf
  <2> QED
    BY <2>1, <2>2
<1> QED
  BY <1>2, <1>4, <1>6, <1>7, <1>8 DEF Good, both, old, new

\* checkStatus passes on what the last query has come to.
LEMMA UpdatedProperties ==
    ASSUME NEW queries \in Seq(Query), NEW active \in [Id -> QueryPeer \cup {Inactive}]
    PROVE  /\ Updated(active, queries) \in [Id -> QueryPeer \cup {Inactive}]
           /\ \A id \in Id :
                LET after == Updated(active, queries)[id]
                IN  /\ after # Inactive <=> active[id] # Inactive
                    /\ active[id] = Inactive \/ id \notin IdsOf(queries) => after = active[id]
                    /\ active[id] # Inactive /\ id \in IdsOf(queries) =>
                         /\ after.mStatus = QueryStatus(queries, id).mState
                         /\ after.doIdle = active[id].doIdle
<1> DEFINE after(id) == Updated(active, queries)[id]
<1>1. ASSUME NEW id \in Id
      PROVE  /\ after(id) \in QueryPeer \cup {Inactive}
             /\ after(id) # Inactive <=> active[id] # Inactive
             /\ active[id] = Inactive \/ id \notin IdsOf(queries) => after(id) = active[id]
             /\ active[id] # Inactive /\ id \in IdsOf(queries) =>
                  /\ after(id).mStatus = QueryStatus(queries, id).mState
                  /\ after(id).doIdle = active[id].doIdle
  <2>1. CASE active[id] = Inactive \/ id \notin IdsOf(queries)
    BY <2>1 DEF Updated
  <2>2. CASE active[id] # Inactive /\ id \in IdsOf(queries)
    <3>1. PICK i \in DOMAIN queries : QueryStatus(queries, id) = queries[i]
      BY <2>2, LastQuery
    <3> DEFINE state == QueryStatus(queries, id).mState
    <3>2. state \in {"QUERYING"} \cup FinalState
      BY <3>1, QueryFields
    <3>3. active[id] \in QueryPeer
      BY <2>2
    <3>4. after(id) = [active[id] EXCEPT !.mStatus = state]
      BY <2>2 DEF Updated
    <3> HIDE DEF state, after
    <3>5. after(id) \in QueryPeer /\ after(id).mStatus = state /\ after(id).doIdle = active[id].doIdle
      BY <3>2, <3>3, <3>4 DEF QueryPeer
    <3>6. after(id) # Inactive
      BY <3>5, Peers
    <3> QED
      BY <2>2, <3>5, <3>6 DEF state
  <2> QED
    BY <2>1, <2>2
<1>2. Updated(active, queries) \in [Id -> QueryPeer \cup {Inactive}]
  BY <1>1 DEF Updated
<1> QED
  BY <1>1, <1>2

\* A query is removed when its verdict is passed on, unless it idles.
LEMMA CheckGood ==
    ASSUME NEW queries, NEW active, Good(queries, active),
           \A id \in Id : active[id].mStatus # "READY"
    PROVE  Good(Cleared(queries, ToRemove(queries)), Updated(active, queries))
<1> DEFINE over == ToRemove(queries)
           list == Cleared(queries, over)
           after == Updated(active, queries)
<1>0. queries \in Seq(Query) /\ active \in [Id -> QueryPeer \cup {Inactive}]
  BY DEF Good
<1>1. list \in Seq(Query) /\ \E at : Leaves(at, queries, over, list)
  BY <1>0, ClearedProperties
<1>2. PICK at : Leaves(at, queries, over, list)
  BY <1>1
<1>3. /\ after \in [Id -> QueryPeer \cup {Inactive}]
      /\ \A id \in Id :
           /\ after[id] # Inactive <=> active[id] # Inactive
           /\ active[id] = Inactive \/ id \notin IdsOf(queries) => after[id] = active[id]
           /\ active[id] # Inactive /\ id \in IdsOf(queries) =>
                /\ after[id].mStatus = QueryStatus(queries, id).mState
                /\ after[id].doIdle = active[id].doIdle
  BY <1>0, UpdatedProperties
<1>4. \A id \in IdsOf(queries) :
        id \notin over => ~ IsRemoved(QueryStatus(queries, id))
  BY DEF ToRemove
<1>5. \A id \in over : id \in IdsOf(queries) /\ IsRemoved(QueryStatus(queries, id))
  BY DEF ToRemove
<1>6. IdsOf(list) = IdsOf(queries) \ over
  BY <1>0, ClearedIds
<1> HIDE DEF over, list, after
<1>7. ASSUME NEW n \in DOMAIN list, IsForApp(list[n].mId)
      PROVE  /\ at[n] \in DOMAIN queries /\ list[n] = queries[at[n]]
             /\ list[n].mId \in Id /\ list[n].mId \in IdsOf(queries) /\ list[n].mId \notin over
             /\ active[list[n].mId] # Inactive
             /\ QueryStatus(queries, list[n].mId) = list[n]
             /\ \A j \in DOMAIN queries : queries[j].mId = list[n].mId => at[n] = j
  <2>1. at[n] \in DOMAIN queries /\ list[n] = queries[at[n]] /\ list[n].mId \notin over
    BY <1>2 DEF Leaves
  <2>2. list[n].mId \in Id /\ list[n].mId \in IdsOf(queries)
    BY <1>0, <2>1, QueryFields DEF IdsOf
  <2>3. /\ active[list[n].mId] # Inactive
        /\ \A j \in DOMAIN queries : queries[j].mId = list[n].mId => at[n] = j
    BY <1>7, <2>1 DEF Good, OneEach
  <2>4. QueryStatus(queries, list[n].mId) = list[n]
    <3>1. PICK j \in DOMAIN queries :
            IsLast(queries, list[n].mId, j) /\ QueryStatus(queries, list[n].mId) = queries[j]
      BY <1>0, <2>2, LastQuery
    <3> QED
      BY <2>1, <2>3, <3>1 DEF IsLast
  <2> QED
    BY <2>1, <2>2, <2>3, <2>4
<1>8. OneEach(list, after)
  <2> SUFFICES ASSUME NEW n \in DOMAIN list, IsForApp(list[n].mId)
               PROVE  /\ after[list[n].mId] # Inactive
                      /\ \A m \in DOMAIN list : list[m].mId = list[n].mId => n = m
    BY DEF OneEach
  <2>1. after[list[n].mId] # Inactive
    BY <1>3, <1>7
  <2>2. ASSUME NEW m \in DOMAIN list, list[m].mId = list[n].mId PROVE n = m
    <3>1. at[n] = at[m]
      BY <1>7, <2>2
    <3> QED
      BY <1>2, <3>1 DEF Leaves
  <2> QED
    BY <2>1, <2>2
<1>9. Matches(list, after)
  <2> SUFFICES ASSUME NEW n \in DOMAIN list, IsForApp(list[n].mId)
               PROVE  Fits(list[n], after[list[n].mId])
    BY DEF Matches
  <2> DEFINE id == list[n].mId
  <2>1. /\ after[id].mStatus = list[n].mState /\ after[id].doIdle = active[id].doIdle
        /\ ~ IsRemoved(list[n])
    BY <1>3, <1>4, <1>7
  <2>2. list[n].doIdle = active[id].doIdle
    BY <1>7 DEF Good, Matches, Fits
  <2>3. list[n] \in Query
    BY <1>0, <1>7
  <2>4. list[n].mState # "READY" /\ (list[n].mState \in FinalState => Finished(list[n]))
    BY <2>3, QueryFields DEF FinalState
  <2> QED
    BY <2>1, <2>2, <2>4 DEF Fits, IsRemoved
<1>10. Served(list, after)
  <2> SUFFICES ASSUME NEW id \in Id, Needs(id, after[id]) PROVE id \in IdsOf(list)
    BY DEF Served
  <2>1. active[id] # Inactive /\ after[id] # Inactive
    BY <1>3 DEF Needs, FinalState, Inactive
  <2>2. id \in IdsOf(queries)
    BY <1>3 DEF Good, Served
  <2>3. PICK i \in DOMAIN queries : IsLast(queries, id, i) /\ QueryStatus(queries, id) = queries[i]
    BY <1>0, <2>2, LastQuery
  <2>4. after[id].mStatus = queries[i].mState /\ after[id].doIdle = active[id].doIdle
    BY <1>3, <2>1, <2>2, <2>3
  <2>5. ~ IsRemoved(queries[i])
    <3>1. CASE after[id].mStatus = "QUERYING"
      BY <2>4, <3>1 DEF IsRemoved, Finished
    <3>2. CASE IsForApp(id) /\ after[id].doIdle
      <4>1. queries[i].mId = id
        BY <2>3 DEF IsLast
      <4>2. Fits(queries[i], active[id])
        BY <3>2, <4>1 DEF Good, Matches
      <4> QED
        BY <2>4, <3>2, <4>2 DEF Fits, IsRemoved
    <3> QED
      BY <3>1, <3>2 DEF Needs
  <2>6. id \notin over
    BY <1>5, <2>3, <2>5
  <2> QED
    BY <1>6, <2>2, <2>6
<1> QED
  BY <1>1, <1>3, <1>8, <1>9, <1>10 DEF Good, list, after, over

\* The queries that the turn goes through.
Going == mLocalQueries \o QueriesFor(Ready)

LEMMA RefreshStep ==
    ASSUME IInv, Refresh
    PROVE  /\ mMode' = "ACTIVE" /\ modeAge' = 0
           /\ Good(Going, Started)
           /\ mActivePeers' = Updated(Started, Going)
           /\ RunQueries(Cleared(Going, ToRemove(Going)))
           /\ Good(Cleared(Going, ToRemove(Going)), mActivePeers')
           /\ callbacks' \subseteq {<<id, StatusOf(QueryStatus(Going, id))>> : id \in Due(Started, Going)}
<1>1. /\ mMode' = "ACTIVE" /\ modeAge' = 0
      /\ mActivePeers' = Updated(Started, Going)
      /\ RunQueries(Cleared(Going, ToRemove(Going)))
  BY DEF Refresh, GoTo, checkStatus, Going, Ready
<1>2. callbacks' \subseteq {<<id, StatusOf(QueryStatus(Going, id))>> : id \in Due(Started, Going)}
  BY DEF Refresh, checkStatus, Going, Ready
<1>3. Good(Going, Started)
  BY StartGood DEF Going
<1>4. \A id \in Id : Started[id].mStatus # "READY"
  BY StartedProperties DEF IInv, TypeOK
<1>5. Good(Cleared(Going, ToRemove(Going)), mActivePeers')
  BY <1>1, <1>3, <1>4, CheckGood
<1> QED
  BY <1>1, <1>2, <1>3, <1>5

\* What is told of a search is a status the application knows.
LEMMA StatusOfType ==
    ASSUME NEW queries \in Seq(Query), NEW id \in IdsOf(queries)
    PROVE  id \in Id /\ StatusOf(QueryStatus(queries, id)) \in CallbackStatus
<1>1. PICK i \in DOMAIN queries :
        IsLast(queries, id, i) /\ QueryStatus(queries, id) = queries[i]
  BY LastQuery
<1>2. queries[i].mId = id /\ queries[i] \in Query
  BY <1>1 DEF IsLast
<1> QED
  BY <1>1, <1>2 DEF StatusOf, CallbackStatus, Query, FinalState

-----------------------------------------------------------------------------
(***************************************************************************)
(* The invariant.                                                          *)
(***************************************************************************)
LEMMA InitInvariant == Init => IInv
<1> SUFFICES ASSUME Init PROVE IInv
  OBVIOUS
<1>1. TypeOK
  <2>1. 0 \in 0 .. MaxAge /\ <<>> \in Seq(Query)
    BY ManagerAssumption
  <2> QED
    BY <2>1 DEF Init, TypeOK, Mode
<1>2. \A id \in Id : ~ IsActive(id)
  BY DEF Init, IsActive
<1>3. Good(mLocalQueries, mActivePeers)
  BY <1>1, <1>2 DEF Init, Good, OneEach, Matches, Served, Needs, IsActive, TypeOK, Inactive, FinalState
<1>4. Asked = {}
  BY <1>2 DEF Asked
<1> QED
  BY <1>1, <1>3, <1>4, FS_EmptySet DEF IInv

\* No step but addFindNode makes a search, so there are finitely many.
LEMMA FinitelyMany ==
    ASSUME IsFiniteSet(Asked), NEW new \in Id,
           \A id \in Id \ {new} : mActivePeers'[id] # Inactive => IsActive(id)
    PROVE  IsFiniteSet(Asked')
<1>1. IsFiniteSet(Asked \cup {new})
  BY FS_AddElement
<1>2. Asked' \subseteq Asked \cup {new}
  BY DEF Asked, IsActive
<1> QED
  BY <1>1, <1>2, FS_Subset

LEMMA StepInvariant ==
    ASSUME IInv, [Next]_vars
    PROVE  IInv'
<1>0. /\ TypeOK /\ Good(mLocalQueries, mActivePeers) /\ IsFiniteSet(Asked)
      /\ mActivePeers \in [Id -> QueryPeer \cup {Inactive}]
      /\ mOwnId \in Id /\ AppId \subseteq Id
      /\ 0 \in 0 .. MaxAge
  <2>1. mOwnId \in Id
    BY ManagerAssumption DEF ToSet
  <2> QED
    BY <2>1, ManagerAssumption DEF IInv, TypeOK
<1>1. ASSUME mMode' \in Mode, modeAge' \in 0 .. MaxAge,
             Good(mLocalQueries', mActivePeers'),
             callbacks' \subseteq Id \X CallbackStatus,
             NEW new \in Id,
             \A id \in Id \ {new} : mActivePeers'[id] # Inactive => IsActive(id)
      PROVE  IInv'
  <2>1. TypeOK'
    BY <1>1 DEF TypeOK, Good
  <2>2. IsFiniteSet(Asked')
    BY <1>0, <1>1, FinitelyMany
  <2> QED
    BY <1>1, <2>1, <2>2 DEF IInv
<1>2. ASSUME NEW id \in AppId, NEW doIdle \in BOOLEAN, addFindNode(id, doIdle) PROVE IInv'
  <2>1. /\ mMode' \in Mode /\ modeAge' \in 0 .. MaxAge /\ callbacks' = {} /\ id \in Id
        /\ mLocalQueries' = mLocalQueries
    BY <1>0, <1>2 DEF addFindNode, TypeOK
  <2>2. CASE IsActive(id)
    <3>1. mActivePeers' = mActivePeers
      BY <1>2, <2>2 DEF addFindNode
    <3> QED
      BY <1>0, <1>1, <2>1, <3>1 DEF IsActive
  <2>3. CASE ~ IsActive(id)
    <3>1. mActivePeers' = [mActivePeers EXCEPT ![id] = [mStatus |-> "READY", doIdle |-> doIdle]]
      BY <1>2, <2>3 DEF addFindNode
    <3>2. Good(mLocalQueries', mActivePeers')
      BY <1>0, <2>1, <2>3, <3>1, AskGood
    <3>3. \A other \in Id \ {id} : mActivePeers'[other] # Inactive => IsActive(other)
      BY <1>0, <3>1 DEF IsActive
    <3> QED
      BY <1>1, <2>1, <3>2, <3>3
  <2> QED
    BY <2>2, <2>3
<1>3. ASSUME NEW id \in AppId, removeFindNode(id) PROVE IInv'
  <2>1. /\ mMode' \in Mode /\ modeAge' \in 0 .. MaxAge /\ callbacks' = {} /\ id \in Id
        /\ mLocalQueries' = Cleared(mLocalQueries, {id})
        /\ mActivePeers' = [mActivePeers EXCEPT ![id] = Inactive]
    BY <1>0, <1>3 DEF removeFindNode, TypeOK
  <2>2. /\ mActivePeers' \in [Id -> QueryPeer \cup {Inactive}]
        /\ \A other \in Id :
             \/ mActivePeers'[other] = mActivePeers[other] /\ other \notin {id}
             \/ /\ mActivePeers'[other] = Inactive
                /\ other \in {id} \/ mActivePeers[other] = Inactive \/ ~ IsForApp(other)
    BY <1>0, <2>1
  <2>3. Good(mLocalQueries', mActivePeers')
    <3> DEFINE ids == {id}
    <3> HIDE DEF ids
    <3>1. Good(Cleared(mLocalQueries, ids), mActivePeers')
      BY <1>0, <2>2, ClearGood DEF ids
    <3> QED
      BY <2>1, <3>1 DEF ids
  <2> QED
    BY <1>1, <2>1, <2>2, <2>3 DEF IsActive
<1>4. ASSUME removeAllFindNode PROVE IInv'
  <2> DEFINE ids == {id \in Id \ {mOwnId} : IsActive(id)}
  <2>1. /\ mMode' \in Mode /\ modeAge' \in 0 .. MaxAge /\ callbacks' = {}
        /\ mLocalQueries' = Cleared(mLocalQueries, ids)
        /\ mActivePeers' = [id \in Id |-> Inactive]
    BY <1>0, <1>4 DEF removeAllFindNode, TypeOK
  <2>2. ~ IsForApp(mOwnId)
    BY ManagerAssumption DEF IsForApp
  <2>3. /\ mActivePeers' \in [Id -> QueryPeer \cup {Inactive}]
        /\ \A id \in Id : /\ mActivePeers'[id] = Inactive
                          /\ id \in ids \/ mActivePeers[id] = Inactive \/ ~ IsForApp(id)
    BY <2>1, <2>2 DEF IsActive
  <2> HIDE DEF ids
  <2>4. Good(mLocalQueries', mActivePeers')
    BY <1>0, <2>1, <2>3, ClearGood
  <2> QED
    BY <1>0, <1>1, <2>1, <2>3, <2>4
<1>5. CASE startDht
  BY <1>0, <1>1, <1>5 DEF startDht, Mode, IsActive
<1>6. ASSUME mLocalQueries' = <<>>, mActivePeers' = AllReady, modeAge' = 0, callbacks' = {},
             mMode' \in Mode
      PROVE  IInv'
  <2>1. Good(mLocalQueries', mActivePeers')
    BY <1>0, <1>6, AllReadyGood
  <2>2. \A id \in Id : mActivePeers'[id] # Inactive => IsActive(id)
    BY <1>0, <1>6, AllReadyGood
  <2> QED
    BY <1>0, <1>1, <1>6, <2>1, <2>2
<1>7. CASE stopDht
  BY <1>6, <1>7 DEF stopDht, Mode
<1>8. CASE iteration
  <2>0. ASSUME NEW queries, Good(queries, mActivePeers), RunQueries(queries), Quiet,
               mMode' \in Mode, modeAge' \in 0 .. MaxAge
        PROVE  IInv'
    <3>1. Good(mLocalQueries', mActivePeers)
      BY <2>0, RunGood
    <3> QED
      BY <1>0, <1>1, <2>0, <3>1 DEF Quiet, IsActive
  <2>1. CASE Startup
    <3>1. mMode' \in Mode /\ modeAge' \in 0 .. MaxAge /\ Quiet
      BY <1>0, <2>1 DEF Startup, GoTo, Stay, TypeOK, Mode
    <3>2. RunQueries(mLocalQueries) \/ RunQueries(mLocalQueries \o OwnQueries)
      BY <2>1 DEF Startup, OwnQueries
    <3>3. Good(mLocalQueries \o OwnQueries, mActivePeers)
      BY <1>0, StartupGood
    <3> QED
      BY <1>0, <2>0, <3>1, <3>2, <3>3
  <2>2. CASE FindSelf \/ Active
    <3>1. mMode' \in Mode /\ modeAge' \in 0 .. MaxAge /\ Quiet /\ RunQueries(mLocalQueries)
      BY <1>0, <2>2 DEF FindSelf, Active, GoTo, Stay, TypeOK, Mode
    <3> QED
      BY <1>0, <2>0, <3>1
  <2>3. CASE Refresh
    <3>1. /\ mMode' = "ACTIVE" /\ modeAge' = 0
          /\ Good(Going, Started)
          /\ mActivePeers' = Updated(Started, Going)
          /\ Good(mLocalQueries', mActivePeers')
      BY <2>3, RefreshStep, RunGood
    <3>2. callbacks' \subseteq {<<id, StatusOf(QueryStatus(Going, id))>> : id \in Due(Started, Going)}
      BY <2>3, RefreshStep
    <3>3. Going \in Seq(Query) /\ Started \in [Id -> QueryPeer \cup {Inactive}]
      BY <3>1 DEF Good
    <3>4. callbacks' \subseteq Id \X CallbackStatus
      <4>1. Due(Started, Going) \subseteq IdsOf(Going)
        BY DEF Due
      <4> QED
        BY <3>2, <3>3, <4>1, StatusOfType
    <3>5. \A id \in Id : mActivePeers'[id] # Inactive => IsActive(id)
      BY <1>0, <3>1, <3>3, UpdatedProperties, StartedProperties
    <3> QED
      BY <1>0, <1>1, <3>1, <3>4, <3>5 DEF Mode
  <2>4. CASE Failed
    BY <1>6, <2>4 DEF Failed, GoTo, Mode
  <2> QED
    BY <1>8, <2>1, <2>2, <2>3, <2>4 DEF iteration
<1>9. CASE Tick
  <2>1. modeAge' \in 0 .. MaxAge
    BY <1>0, <1>9, ManagerAssumption DEF Tick, TypeOK
  <2> QED
    BY <1>0, <1>1, <1>9, <2>1 DEF Tick, TypeOK, IsActive
<1>10. CASE UNCHANGED vars
  BY <1>0, <1>1, <1>10 DEF vars, TypeOK, IsActive
<1> QED
  BY <1>2, <1>3, <1>4, <1>5, <1>7, <1>8, <1>9, <1>10 DEF Next

-----------------------------------------------------------------------------
(***************************************************************************)
(* The searches of module Search.                                          *)
(***************************************************************************)
\* A search that starts in this turn has the state of the query that starts it.
LEMMA StartedQuery ==
    ASSUME IInv, NEW id \in Ready
    PROVE  id \in IdsOf(Going) /\ QueryStatus(Going, id).mState = "QUERYING"
<1> DEFINE new == QueriesFor(Ready)
           both == mLocalQueries \o new
<1>0. mLocalQueries \in Seq(Query) /\ new \in Seq(Query) /\ id \in IdsOf(new)
  BY QueriesForProperties DEF IInv, TypeOK
<1>1. \A k \in DOMAIN new : new[k].mState = "QUERYING"
  BY QueriesForProperties
<1>2. /\ both \in Seq(Query)
      /\ \E k \in DOMAIN new : /\ both[Len(mLocalQueries) + k] = new[k]
                               /\ IsLast(both, id, Len(mLocalQueries) + k)
  BY <1>0, AppendedLast
<1> HIDE DEF new, both
<1>3. PICK k \in DOMAIN new : /\ both[Len(mLocalQueries) + k] = new[k]
                              /\ IsLast(both, id, Len(mLocalQueries) + k)
  BY <1>2
<1>4. id \in IdsOf(both)
  BY <1>3 DEF IsLast, IdsOf
<1>5. PICK i \in DOMAIN both : IsLast(both, id, i) /\ QueryStatus(both, id) = both[i]
  BY <1>2, <1>4, LastQuery
<1>6. i = Len(mLocalQueries) + k
  BY <1>2, <1>3, <1>5, LastIsUnique
<1> QED
  BY <1>1, <1>3, <1>4, <1>5, <1>6 DEF Going, both, new

\* What a turn may make of a search.
LEMMA TurnOfSearch ==
    ASSUME IInv, Refresh, NEW id \in Id
    PROVE  /\ IsActive(id)' <=> IsActive(id)
           /\ IsActive(id) => mActivePeers'[id].doIdle = mActivePeers[id].doIdle
           /\ mActivePeers'[id].mStatus \in AbstractSearch!After(id)
           /\ IsActive(id) /\ id \in IdsOf(Going) =>
                mActivePeers'[id].mStatus = QueryStatus(Going, id).mState
<1>0. /\ mActivePeers \in [Id -> QueryPeer \cup {Inactive}]
      /\ Going \in Seq(Query) /\ Started \in [Id -> QueryPeer \cup {Inactive}]
      /\ Good(Going, Started) /\ mActivePeers' = Updated(Started, Going)
  BY RefreshStep DEF IInv, TypeOK, Good
<1>1. /\ Started[id] # Inactive <=> IsActive(id)
      /\ id \notin Ready => Started[id] = mActivePeers[id]
      /\ id \in Ready => Started[id].doIdle = mActivePeers[id].doIdle
  BY <1>0, StartedProperties
<1>2. /\ mActivePeers'[id] # Inactive <=> Started[id] # Inactive
      /\ Started[id] = Inactive \/ id \notin IdsOf(Going) => mActivePeers'[id] = Started[id]
      /\ Started[id] # Inactive /\ id \in IdsOf(Going) =>
           /\ mActivePeers'[id].mStatus = QueryStatus(Going, id).mState
           /\ mActivePeers'[id].doIdle = Started[id].doIdle
  BY <1>0, UpdatedProperties
<1> DEFINE was == mActivePeers[id].mStatus
           is == mActivePeers'[id].mStatus
<1>3. \/ is = was
      \/ was = "READY" /\ is = "QUERYING"
      \/ was = "QUERYING" /\ is \in FinalState
      \/ was \in FinalState /\ mActivePeers[id].doIdle /\ IsActive(id) /\ is \in FinalState
      \/ was # "NONE" /\ ~ IsForApp(id) /\ is \in {"QUERYING"} \cup FinalState
  <2>1. CASE ~ IsActive(id) \/ id \notin IdsOf(Going)
    <3>1. id \notin Ready
      <4>1. id \in Ready => IsActive(id) /\ id \in IdsOf(Going)
        BY StartedQuery DEF Ready, IsReady
      <4> QED
        BY <2>1, <4>1
    <3> QED
      BY <1>1, <1>2, <2>1, <3>1
  <2>2. CASE id \in Ready
    <3>1. IsActive(id) /\ was = "READY" /\ id \in IdsOf(Going)
      BY <2>2, StartedQuery DEF Ready, IsReady
    <3>2. QueryStatus(Going, id).mState = "QUERYING"
      BY <2>2, StartedQuery
    <3> QED
      BY <1>1, <1>2, <3>1, <3>2
  <2>3. CASE IsActive(id) /\ id \in IdsOf(Going) /\ id \notin Ready
    <3>1. Started[id] = mActivePeers[id] /\ is = QueryStatus(Going, id).mState
      BY <1>1, <1>2, <2>3
    <3>2. PICK i \in DOMAIN Going : IsLast(Going, id, i) /\ QueryStatus(Going, id) = Going[i]
      BY <1>0, <2>3, LastQuery
    <3>3. is \in {"QUERYING"} \cup FinalState /\ Going[i].mId = id
      BY <1>0, <3>1, <3>2, QueryFields DEF IsLast
    <3>4. was \in {"QUERYING"} \cup FinalState /\ was # "NONE"
      <4>1. was \in {"READY", "QUERYING"} \cup FinalState /\ was # "NONE"
        BY <1>0, <2>3, Peers DEF IsActive
      <4> QED
        BY <2>3, <4>1 DEF Ready, IsReady
    <3>5. CASE ~ IsForApp(id)
      BY <3>3, <3>4, <3>5
    <3>6. CASE IsForApp(id)
      <4>1. Fits(Going[i], mActivePeers[id])
        BY <1>0, <3>1, <3>3, <3>6 DEF Good, Matches
      <4>2. was \in FinalState => mActivePeers[id].doIdle /\ is # "QUERYING"
        BY <3>1, <3>2, <4>1 DEF Fits, Finished
      <4> QED
        BY <2>3, <3>3, <3>4, <4>2
    <3> QED
      BY <3>5, <3>6
  <2> QED
    BY <2>1, <2>2, <2>3
<1> HIDE DEF was, is
<1>4. is \in AbstractSearch!After(id)
  BY <1>3 DEF AbstractSearch!After, AbstractSearch!Searched, IsForApp, was
<1>5. IsActive(id)' <=> IsActive(id)
  BY <1>1, <1>2 DEF IsActive
<1>6. IsActive(id) => mActivePeers'[id].doIdle = mActivePeers[id].doIdle
  BY <1>1, <1>2
<1> QED
  BY <1>1, <1>2, <1>4, <1>5, <1>6 DEF is

LEMMA StatusIsNone ==
    ASSUME IInv, NEW id \in Id
    PROVE  /\ IsActive(id) <=> mActivePeers[id].mStatus # "NONE"
           /\ IsActive(id) => mActivePeers[id].doIdle \in BOOLEAN
BY Peers DEF IInv, TypeOK, IsActive

LEMMA InitImplements == Init => AbstractSearch!Init
<1> SUFFICES ASSUME Init PROVE AbstractSearch!Init
  OBVIOUS
<1>1. \A id \in Id : mActivePeers[id].mStatus = "NONE" /\ ~ IsActive(id)
  BY DEF Init, Inactive, IsActive
<1>2. [id \in Id |-> mActivePeers[id].mStatus] = [id \in Id |-> "NONE"]
  BY <1>1
<1>3. [id \in Id |-> IsActive(id) /\ mActivePeers[id].doIdle] = [id \in Id |-> FALSE]
  BY <1>1
<1> QED
  BY <1>2, <1>3 DEF Init, AbstractSearch!Init

LEMMA StepImplements ==
    ASSUME IInv, IInv', [Next]_vars
    PROVE  [AbstractSearch!Next]_AbstractSearch!vars
<1>0. /\ mActivePeers \in [Id -> QueryPeer \cup {Inactive}]
      /\ mActivePeers' \in [Id -> QueryPeer \cup {Inactive}]
      /\ AppId \subseteq Id
  BY ManagerAssumption DEF IInv, TypeOK
<1>1. \A id \in Id : /\ IsActive(id) <=> mActivePeers[id].mStatus # "NONE"
                     /\ IsActive(id) => mActivePeers[id].doIdle \in BOOLEAN
  BY StatusIsNone
<1>2. ASSUME NEW id \in AppId, NEW doIdle \in BOOLEAN, addFindNode(id, doIdle)
      PROVE  AbstractSearch!Ask(id, doIdle)
  <2>0. id \in Id /\ callbacks' = {}
    BY <1>0, <1>2 DEF addFindNode
  <2>1. CASE IsActive(id)
    <3>1. mActivePeers' = mActivePeers
      BY <1>2, <2>1 DEF addFindNode
    <3> QED
      BY <1>1, <2>0, <2>1, <3>1
      DEF AbstractSearch!Ask, AbstractSearch!Searched, IsActive
  <2>2. CASE ~ IsActive(id)
    <3> DEFINE p == [mStatus |-> "READY", doIdle |-> doIdle]
    <3>1. mActivePeers' = [mActivePeers EXCEPT ![id] = p]
      BY <1>2, <2>2 DEF addFindNode
    <3>2. p # Inactive /\ p.mStatus = "READY" /\ p.doIdle = doIdle
      <4>1. p \in QueryPeer
        BY DEF QueryPeer
      <4> QED
        BY <4>1, Peers
    <3> HIDE DEF p
    <3>3. [other \in Id |-> mActivePeers'[other].mStatus]
            = [[other \in Id |-> mActivePeers[other].mStatus] EXCEPT ![id] = "READY"]
      BY <1>0, <2>0, <3>1, <3>2
    <3>4. [other \in Id |-> IsActive(other)' /\ mActivePeers'[other].doIdle]
            = [[other \in Id |-> IsActive(other) /\ mActivePeers[other].doIdle]
                 EXCEPT ![id] = doIdle]
      BY <1>0, <2>0, <3>1, <3>2 DEF IsActive
    <3> QED
      BY <1>1, <2>0, <2>2, <3>3, <3>4 DEF AbstractSearch!Ask, AbstractSearch!Searched
  <2> QED
    BY <2>1, <2>2
<1>3. ASSUME NEW ids \in SUBSET Id, callbacks' = {},
             \A id \in Id : mActivePeers'[id] = IF id \in ids THEN Inactive ELSE mActivePeers[id]
      PROVE  AbstractSearch!Next
  <2>1. [id \in Id |-> mActivePeers'[id].mStatus]
          = [id \in Id |-> IF id \in ids THEN "NONE"
                           ELSE [other \in Id |-> mActivePeers[other].mStatus][id]]
    BY <1>3 DEF Inactive
  <2>2. [id \in Id |-> IsActive(id)' /\ mActivePeers'[id].doIdle]
          = [id \in Id |-> /\ [other \in Id |-> IsActive(other) /\ mActivePeers[other].doIdle][id]
                           /\ id \notin ids]
    BY <1>3 DEF IsActive
  <2>3. AbstractSearch!Withdraw(ids)
    BY <1>3, <2>1, <2>2 DEF AbstractSearch!Withdraw
  <2> QED
    BY <2>3 DEF AbstractSearch!Next
<1>4. ASSUME NEW id \in AppId, removeFindNode(id) PROVE AbstractSearch!Next
  <2>1. {id} \in SUBSET Id /\ callbacks' = {} /\ mActivePeers' = [mActivePeers EXCEPT ![id] = Inactive]
    BY <1>0, <1>4 DEF removeFindNode
  <2>2. \A other \in Id :
          mActivePeers'[other] = IF other \in {id} THEN Inactive ELSE mActivePeers[other]
    BY <1>0, <2>1
  <2> QED
    BY <1>3, <2>1, <2>2
<1>5. ASSUME removeAllFindNode PROVE AbstractSearch!Next
  <2>1. Id \in SUBSET Id /\ callbacks' = {} /\ \A id \in Id : mActivePeers'[id] = Inactive
    BY <1>5 DEF removeAllFindNode
  <2> QED
    BY <1>3, <2>1
<1>6. ASSUME mActivePeers' = AllReady, callbacks' = {} PROVE AbstractSearch!Next
  <2>1. \A id \in Id : /\ IsActive(id)' <=> IsActive(id)
                       /\ IsActive(id) => AllReady[id].mStatus = "READY"
                                          /\ AllReady[id].doIdle = mActivePeers[id].doIdle
                       /\ ~ IsActive(id) => AllReady[id].mStatus = "NONE"
    BY <1>0, <1>6, AllReadyGood DEF IsActive, Inactive
  <2>2. [id \in Id |-> mActivePeers'[id].mStatus]
          = [id \in Id |-> IF [other \in Id |-> mActivePeers[other].mStatus][id] # "NONE"
                           THEN "READY" ELSE "NONE"]
    BY <1>1, <1>6, <2>1
  <2>3. [id \in Id |-> IsActive(id)' /\ mActivePeers'[id].doIdle]
          = [id \in Id |-> IsActive(id) /\ mActivePeers[id].doIdle]
    BY <1>6, <2>1
  <2>4. AbstractSearch!Stop
    BY <1>6, <2>2, <2>3 DEF AbstractSearch!Stop, AbstractSearch!Searched
  <2> QED
    BY <2>4 DEF AbstractSearch!Next
<1>7. ASSUME mActivePeers' = mActivePeers, callbacks' = {} PROVE AbstractSearch!Next
  <2>1. AbstractSearch!Turn
    BY <1>7 DEF AbstractSearch!Turn, AbstractSearch!After, IsActive
  <2> QED
    BY <2>1 DEF AbstractSearch!Next
<1>8. ASSUME Refresh PROVE AbstractSearch!Next
  <2>1. \A id \in Id :
          /\ IsActive(id)' <=> IsActive(id)
          /\ IsActive(id) => mActivePeers'[id].doIdle = mActivePeers[id].doIdle
          /\ mActivePeers'[id].mStatus \in AbstractSearch!After(id)
          /\ IsActive(id) /\ id \in IdsOf(Going) =>
               mActivePeers'[id].mStatus = QueryStatus(Going, id).mState
    BY <1>8, TurnOfSearch
  <2>2. [id \in Id |-> IsActive(id)' /\ mActivePeers'[id].doIdle]
          = [id \in Id |-> IsActive(id) /\ mActivePeers[id].doIdle]
    BY <2>1
  <2>3. ASSUME NEW report \in callbacks'
        PROVE  \E id \in Id : /\ IsActive(id)
                              /\ report = <<id, AbstractSearch!Report(mActivePeers'[id].mStatus)>>
    <3>1. PICK id \in Due(Started, Going) : report = <<id, StatusOf(QueryStatus(Going, id))>>
      BY <1>8, RefreshStep
    <3>2. id \in IdsOf(Going) /\ Started[id] # Inactive
      BY DEF Due
    <3>3. id \in Id
      BY <1>8, <3>2, RefreshStep, StatusOfType DEF Good
    <3>4. IsActive(id)
      BY <1>0, <3>2, <3>3, StartedProperties
    <3>5. StatusOf(QueryStatus(Going, id)) = AbstractSearch!Report(QueryStatus(Going, id).mState)
      BY DEF StatusOf, AbstractSearch!Report
    <3> QED
      BY <2>1, <3>1, <3>2, <3>3, <3>4, <3>5
  <2>4. AbstractSearch!Turn
    <3>1. \A report \in callbacks' :
            \E id \in Id :
              /\ AbstractSearch!Searched(id)
              /\ report = <<id, AbstractSearch!Report([other \in Id |-> mActivePeers'[other].mStatus][id])>>
      BY <1>1, <2>3 DEF AbstractSearch!Searched
    <3> QED
      BY <2>1, <2>2, <3>1 DEF AbstractSearch!Turn
  <2> QED
    BY <2>4 DEF AbstractSearch!Next
<1>9. ASSUME UNCHANGED vars PROVE UNCHANGED AbstractSearch!vars
  BY <1>9 DEF vars, AbstractSearch!vars, IsActive
<1>10. CASE iteration
  <2>1. Startup \/ FindSelf \/ Active => mActivePeers' = mActivePeers /\ callbacks' = {}
    BY DEF Startup, FindSelf, Active, Quiet
  <2>2. Failed => mActivePeers' = AllReady /\ callbacks' = {}
    BY DEF Failed
  <2> QED
    BY <1>6, <1>7, <1>8, <1>10, <2>1, <2>2 DEF iteration
<1>11. ASSUME NEW id \in AppId, NEW doIdle \in BOOLEAN, addFindNode(id, doIdle)
       PROVE  AbstractSearch!Next
  BY <1>0, <1>2, <1>11 DEF AbstractSearch!Next
<1>12. startDht \/ Tick => mActivePeers' = mActivePeers /\ callbacks' = {}
  BY DEF startDht, Tick
<1>13. stopDht => mActivePeers' = AllReady /\ callbacks' = {}
  BY DEF stopDht
<1> QED
  BY <1>4, <1>5, <1>6, <1>7, <1>9, <1>10, <1>11, <1>12, <1>13 DEF Next

-----------------------------------------------------------------------------
(***************************************************************************)
(* The theorems.                                                           *)
(***************************************************************************)
\* The queries and the statuses agree in every state (addFindNode, removeFindNode,
\* startQueries and checkStatus of bdmanager.cc).
THEOREM ManagerInvariant == Spec => []IInv
<1>1. Init => IInv
  BY InitInvariant
<1>2. IInv /\ [Next]_vars => IInv'
  BY StepInvariant
<1> QED
  BY <1>1, <1>2, PTL DEF Spec

\* The state of the manager is always of its type: among others, every callback has
\* one of the statuses of bdiface.h.
THEOREM TypeCorrect == Spec => []TypeOK
<1>1. IInv => TypeOK
  BY DEF IInv
<1> QED
  BY <1>1, ManagerInvariant, PTL

\* A search shown as running has a query, whatever else is started, withdrawn or stopped.
THEOREM RunningHasQuery == Spec => []QueryingHasQuery
<1>1. ASSUME IInv, NEW id \in Id, mActivePeers[id].mStatus = "QUERYING"
      PROVE  id \in IdsOf(mLocalQueries)
  BY <1>1 DEF Needs, IInv, Good, Served
<1>2. IInv => QueryingHasQuery
  BY <1>1 DEF QueryingHasQuery
<1> QED
  BY <1>2, ManagerInvariant, PTL

\* A search has one query, and no query outlives its search, for any set of ids that
\* the node searches for by itself.
THEOREM OneQueryForEach == Spec => []OneQueryEach
<1>1. IInv => OneQueryEach
  BY DEF IInv, Good, OneEach, OneQueryEach, IsForApp, IsActive
<1> QED
  BY <1>1, ManagerInvariant, PTL

\* The query of an idling search is kept after the verdict, through any number of turns
\* and whatever of the list a turn deals with.  It is a theorem about the ids that the
\* node does not search for by itself: of two queries for one id the turns change the
\* order, and the verdict of one may take the other with it.
THEOREM IdleKept == Spec => []IdleSearchKept
<1>1. ASSUME IInv, NEW id \in Id, IsForApp(id), mActivePeers[id].doIdle,
             mActivePeers[id].mStatus \in FinalState
      PROVE  id \in IdsOf(mLocalQueries)
  BY <1>1 DEF Needs, IInv, Good, Served
<1>2. IInv => IdleSearchKept
  BY <1>1 DEF IdleSearchKept, IsForApp
<1> QED
  BY <1>2, ManagerInvariant, PTL

\* The manager keeps what module Search promises the application: every call and every
\* turn of the DHT thread is a step of a search or leaves all of them alone.
THEOREM SearchImplemented == Spec => ImplementsSearch
<1>1. Init => AbstractSearch!Init
  BY InitImplements
<1>2. IInv /\ IInv' /\ [Next]_vars => [AbstractSearch!Next]_AbstractSearch!vars
  BY StepImplements
<1> QED
  BY <1>1, <1>2, ManagerInvariant, PTL DEF Spec, ImplementsSearch, AbstractSearch!Spec

=============================================================================
