# Verification of bitdht

bitdht is a Kademlia-like distributed hash table over UDP: every node keeps a
routing table of other nodes, looks up node ids by asking ever closer nodes, and
helps two nodes behind NATs to find each other.  This directory holds TLA+ models
of its core, the TLC configurations that check them on small instances, and
proofs that TLAPS checks for every value of the constants.

Paths are relative to the repository (`src/` is its root).

## 1. Inventory

| Component | State | Operations | Talks to |
|---|---|---|---|
| Identifier space (`bitdht/bdstddht.cc`, operators in `bdpeer.cc`) | none | distance, order, bucket index, mid-ids | everyone |
| Routing table `bdSpace` (`bdpeer.cc`) | 160 lists of at most 10 peers | `add_peer`, `out_of_date_peer`, `find_nearest_nodes`, `clear` | node, queries |
| Query `bdQuery` (`bdquery.cc`) | closest and potential peers, state, times | `addPeer`, `addPotentialPeer`, `nextQuery` | node |
| Node `bdNode` (`bdnode.cc`) | queries, remote queries, potential peers, connect requests, peer addresses, punched peers, store, message queues, tokens, own addresses, blacklist | `iteration`, `recvPkt` and one handler per message, `addQuery`, `clearQuery`, `addConnReq`, `restartNode`, `shutdownNode` | network, queries, table, store |
| Manager `bdNodeManager` (`bdmanager.cc`) | mode, time of the mode, active searches, callbacks | `addFindNode`, `removeFindNode`, `removeAllFindNode`, `startDht`, `stopDht`, `iteration` | node, application |
| Store `bdStore` (`bdstore.cc`) | list of addresses, a file | `addStore`, `reloadFromStore`, `writeStore` | node |
| Hash store `bdHashSpace` (`bdhash.cc`) | entries with lifetimes and secrets, by id and key | `search`, `modify`, `cleanHashSpace`, `clear` | nobody yet (the node only clears it) |
| History (`bdhistory.cc`) | messages per peer | | compiled out |
| Tunnel (`bdtunnelnode.cc`, `bdtunnelmanager.cc`) | mode, peers, requests, message queues | `connectNode`, `disconnectNode`, `startTunnel`, `stopTunnel`, `iteration`, `recvPkt` | network, application |
| Messages (`bdmsgs.cc`, `bencode.c`) | none | encode, decode | node |
| UDP stack and threads (`udp/`, `util/bdthreads.cc`) | receivers, socket, three mutexes | receive loop, tick loop, API calls | node, kernel |

**How they interact.**  A receive thread hands each datagram to the receivers
under `stackMtx`; `UdpBitDht::recvPkt` queues it under `dhtMtx`.  The DHT thread
takes `dhtMtx`, sends what is queued, and once a second runs
`bdNodeManager::iteration`, which runs `bdNode::iteration`: it handles the
incoming messages, pings potential peers, lets every query ask one peer, answers
one remote query, pings stale peers, and every tenth turn broadcasts connect
requests.  The application calls the manager under `dhtMtx`.  So the components
below the manager never run concurrently: what is hard about them is the *order*
of calls, answers, time and failures, and between nodes the network.

**What is hard.**  Answers come late, repeatedly or never; peers go silent and
come back; an address is reused by another node; the application adds and removes
searches or stops the DHT between two turns of the thread; lists are at their
limits; two nodes report their wishes to a relay that may restart.  The list
with the lines is under "hazards" in `PROJECT.json`.

**What makes each component correct.**

- Table: a peer is known once, buckets stay bounded and ordered by age, nobody
  loses its place without reason, and the layout agrees with the metric.
- Query: its lists hold the closest peers that answer; it asks for points that
  are closer; whoever is reported gets asked; it does stop.
- Rendezvous: holes are punched only to addresses of wanted peers; two nodes that
  want each other meet.
- Manager: every running search has exactly one query, none outlives its search,
  and a search reaches a verdict.
- Message loop: it stays within the messages of a turn, serves searches, potential
  peers and the questions of others in turn, and a stop leaves nothing behind that
  would act later.
- Store: it stays bounded, learns of new peers, and its file is worth reading after any session.
- Tunnel: whoever stays connected is asked, and once a turn.
- Hash store: a secret protects an entry, and an entry without one lasts.
- Threads: nobody waits for ever, no receiver is called after its removal, the
  socket is not closed under its reader, and every turn's messages get sent.

## 2. Modules

### `bdStdDht` - the identifier space

Pure operators.  A node id is a vector of `KEY_BITLEN` bits with bit 0 the most
significant; `BYTE` is the number of bits per byte, because mid-ids are cut at a
byte.  `Less` is `operator<`, `bdStdDistance` the XOR, `bdStdBucketDistance` the
index of the highest set bit (0 for distances 0 and 1), `bdStdRandomMidId` the
set of ids the random function can return.

### `bdSpace` - the routing table

`buckets[b]` is the list in the source; `now` is the clock.  `add_peer`,
`out_of_date_peer` and `clear` are the actions.  `add_peer` has the four cases of
the source in its order: refresh a known peer, append, replace an out-of-date
head, replace an entry of lowest priority.  Flags are sets of bits, ordered like
the words they make.  `find_nearest_nodes` is the set of results allowed.

### `bdQuery` - one search

The two multimaps are sets of peers read in the order of their distances; what
the multimap does with equally distant entries (two addresses of one id) is left
open.  `Heard` is everything an answer of another node can make of a query,
`AskPeer`, `Wait` and `Finish` are the three ways out of `nextQuery`.  The read
past the end of an empty list in line 268 is a choice of outcomes.

### `Rendezvous` - nodes, NATs and a relay

The message handlers of `bdNode` for `broadcast_conn`, `ask_conn`, `ping` and
`pong` at every node, the periodic `broadcastPeers` and `punching`, and the
request of the application.  `net` is the set of datagrams ever sent, so that one
may be delivered late, repeatedly, in any order or never.  A NAT lets in only
what comes from an address its node has sent to, and may rebind the node to
another address (`Rebind`); a process may start anew (`Restart`), or only the DHT in it
(`restartNode`), which keeps the requests, the addresses and the punches.  `upsets` counts
these.  `addStore` has the limit of the store, at which it gives up the new entry.
`wanted` and `held` record the requests and addresses so far, for the properties.
The ids of entries the store reloads from its file are not set in the program;
nothing reads them, so the module gives them any value.

### `bdNodeManager` - the application's searches

The modes of `iteration` are actions (`Startup`, `FindSelf`, `Active`, `Refresh`,
`Failed`), next to the calls of the application.  `mLocalQueries` is the list of
queries of the node, each reduced to id, idle flag and verdict.  `RunQueries` is
`bdNode::iteration` as far as the queries go: it serves them from the front and moves
each to the back, any that is not over may get a verdict, and the turn may end early, once
as many as the pings leave room for (`MinAsked` at least) have sent a message.  So the order
of the list changes from turn to turn, and with it which of two queries for one id is last.
The address that `checkStatus` saves for an active peer (`mDhtAddr`) is left out: only
`getDhtPeerAddress` reads it.  `checkStatus` is translated with its order: queries are removed before
the callbacks are looked up.  `callbacks` is what the step reported.  `Refresh` names
the lists a turn goes through: with the queries of the READY searches behind the old ones
(`QueriesFor`), then without those that are over (`Cleared`).

`ImplementsSearch` says that it implements `Search`.

### `QueryOutcome` - where the two meet

What `bdNodeManager` needs to know of a query: `Outcomes` are the states it may be in after a turn,
given the one before.  `bdQueryProofs` shows that a whole query has no others (`OutcomesOnly`);
`RunQueries` lets every query that a turn serves have any of them.

### `Search` - what the application is promised

A search as the application sees it: asked for, running, come to a verdict,
withdrawn, or put back in line when the DHT stops, and told only what it has become.
There are no modes, queries or time in it.  The status map of `bdNodeManager`
is the refinement mapping.  Only a search for an id that the node searches for by
itself may go back from a verdict to running.

### `UdpThreads` - threads and mutexes

One thread per receiver (`UdpBitDht` and `UdpTunnel` have the same loop), the receive
thread of `UdpLayer`, and threads of the application.  `pc` says where a thread is; the
mutexes held across steps are `stackMtx` (while a packet is offered), `dhtMtx` (while a
tick sends) and `mMutex` (while `reset` joins).  What happens under `sockMtx` never
waits and is part of a step.  `CreateThread` starts any dead receive thread, so that a
`reset` that did not wait would leave two.  `outgoing` counts the messages queued.
`bind` may fail, in the constructor and in `reset`.

### `bdMsgs` - messages

One operator per builder of `bdmsgs.cc`; a message is the function from keys to values
that the bencoded dictionary is.  `beMsgType` recognises the type of a message by
the keys it has, as the code does, and not by how it was built: the answer to an announcement
reads as a PONG.  `Parses` collects the conditions on which `recvPkt` gives a message up
before its handler.  Lists of nodes are packed back to back and unpacked part by part, as
the compact strings are; the bytes of a part are left out.

### `bdNode` - the message loop and the store

`pc` is the place in a turn: the store may be written (`updateStore` empties the file,
`storeWritten` fills it), incoming messages are handled one by one (`recvPkt`, one action per
handler), potential peers pinged, queries asked, one remote query answered,
stale peers pinged, `endTurn` broadcasts every now and then; `tick` sends.
`sentMsgs` counts the messages of a turn, of which pings may take only a part.
Others move at `pc = "idle"`, because the thread holds `dhtMtx`; only time and a crash
do not wait.  A crash while the file is written leaves the lines written so far,
the last of which may be half a line (`Cut`).
The routing table is a set (`bdSpace` has its buckets), a query its id (`bdQuery` has its
lists) and the store a set of addresses.  The token of the `ask_myip` handshake is
read beyond the end of an object in `bitdht_decrypt`; here it is any token.
A `world` says which datagrams, searches, stops and crashes a node meets; it never
changes, and the theorems hold for any set of worlds.

### `bdTunnel` - the tunnel

`bdTunnelManager` and `bdTunnelNode` as one, with the thread of `UdpTunnel`.  Modes OFF,
STARTUP and NEWCONN; `tAge` is the time in the mode, which starts anew only when it is
over.  A request that exists is sent every turn, whatever becomes of its peer.

### `bdHashSpace` - values under hashes

The two maps as a function from ids to sequences of entries.  `AddEntry` and `DeleteEntry`
are `bdHashSet::modify` with its two flags; `cleanHashSpace` either cleans or, with an id
outside the range, does not return (`hung`).  A process that dies loses it all (`HashLost`).

### `bdProcess` - the three together

The node, the tunnel and the hash space share no variable, and move one at a time but for
two steps: `shutdownNode` clears the hash space (`Shutdown`), and a process that dies
loses the node's memory, the tunnel and the hash space at once (`Die`); only the file stays.
`ProcessSpec` is this composition.  Theorem `PartsAreImplemented` says that it implements the
specification of each part, so that a theorem about a part is one about the process.

Run `process` relies on that: every property is about one part, so a behaviour in which
only one part moves, and the others just join in the two common steps, shows as much as one
in which all move.  In `MCbdProcess`, `part` picks the one at the start.

### `Lists`, `SeqLemmas` and the rest

`Lists` has `Kept`, the pass over a `std::list` that erases some elements and leaves the others
in their order, as `clearQuery`, `cleanupHashSet` and others do, and `Rotated`, which moves
elements from the front to the back, as `iteration` does.  They are written with positions
and not with recursion, so that it can be reasoned about.  `SeqLemmas` holds the lemmas on
sequences for the proofs, the `...Proofs` modules the theorems, the `MC...` modules
the small instances.

## 3. What is checked

| Run | Asks |
|---|---|
| `space` | Under all calls in all orders: `KnownOnce`, `BucketsBounded`, `SortedByRecvTime`, `EvictionJustified`, `NearestInTargetBucket` |
| `space_out_of_date` | finding: a head out of date is not replaced |
| `query` | `ListsSound`, `CloserPeersKept`, `AskedPointIsCloser`, `ReportedPeersAsked`, `Terminates` |
| `query_unreachable` | finding: the verdict PEER_UNREACHABLE out of an empty list |
| `rendezvous` | `PunchJustified`, `StoreByAddress`, `MutualRequestsMeet`, with a store at its limit and a NAT that rebinds, a process or a DHT that starts anew |
| `rendezvous_ask_conn` | finding: an ask_conn names the wrong node |
| `manager` | `QueryingHasQuery`, `OneQueryEach`, `IdleSearchKept`, and that module `Search` is implemented |
| `manager_end` | `SearchesEnd` |
| `manager_callback` | finding: the success of a search that does not idle is not reported |
| `threads` | `ReadsOpenSocket`, `OneListener`, `OffersToRegistered`, `SentBeforeNextTurn`, `CallsReturn`, `TurnsGoOn` |
| `process_store` | finding: a full store gives up the entry it has just added |
| `process` | the node: `OffKeepsNothing`, `FileWorthReading`, `OnlyFreshWait`, `QueriesServed`, `PotentialPinged`; the tunnel: `TunnelOnce`, `ConnectedAsked`; the hash space: `SecretProtects`, `SecretlessKept` |

Every property of a passing run also comes with a mutant: a plausible bug in one
definition with which TLC finds the property violated.

**Bounds, and why they are enough.**

- `space`: 3-bit keys, two entries per bucket, three peers that compete for one
  bucket (two of them addresses of one id) and one in bucket 0, next to the node itself; two flag bits, so
  that there are ties, lower and higher priorities; clock up to 2 with periods of 1,
  so that peers become stale.  A bucket treats its entries alike, so a third
  entry adds no new case.
- `query`: 2-bit keys with one bit per byte, room for two peers, four peers (the
  target, two addresses of one node, one further away), three reports, clock up to
  3 with ages of 1 and no grace period for answers, so that timing out, overdue
  answers, both ends of a query and retries occur; idling and disguised queries
  are in the initial states.
- `rendezvous`: two nodes behind NATs, one public relay, each node's only contact;
  one spare address.  The relay keeps one entry per node, so more nodes only add
  independent pairs.  Stores have room for two entries, and one of the nodes starts with two,
  one of them out of date, so that its store is at its limit.  There is one upset: a rebinding,
  after which addresses are out of date, a restart of any of the processes, or of the DHT in
  one.  The theorems cover any number.  `MutualRequestsMeet` is about behaviours in which
  nobody is rebound, because after that a node would have to write first, and in which the
  store has room for the peer: one at its limit gives the new entry up (run `process_store`).
- `manager`: one id of the application besides the node's own, which the
  application may search as well; the thresholds are 0 with ages up to 1, which
  tells "too young" from "old enough"; the number of queries that `addFindNode`
  and `startDht` still accept is bounded by `MaxQueries`, because the program has no bound.
  `MinAsked` is 1, so that a turn may end after any query that sends a message.
  `manager_end` searches one id next to both of the node's own searches.

- `threads`: two receivers on a stack, so that a packet is declined and passed on, one
  thread of the application that makes all calls, two ids for receive threads, a limit
  of one message per tick and turns that queue up to two, so that a tick reaches
  its limit with messages left.  The theorems cover any number of each.
- `process`: two messages a turn of which one may be a ping, a tick of two, a
  store of two entries where three addresses occur, so that every limit is met with
  something left over; at most two messages, questions and potential peers wait (`MaxLoad`)
  and at most two queries; questions are too old after a second; a broadcast every second
  turn.  The worlds: peers that report others while searches come and go; a node that is
  stopped and started; a process that is killed, with more peers than its store
  holds; every other message.  A world in which all of it happens at once
  multiplies the states without bringing together parts that have no state in common.  The
  tunnel has two addresses of one peer and ages of 1; the hash space two ids, one
  key and one value under which three secrets (one empty) compete, lifetimes 0 and 1 with a
  clock up to 1, two entries an id.

**Deadlock** is checked except in `query`: a query that has its verdict and does not
idle is over, and the clock and the reports are bounded.

**Fairness.**  `bdQuery` and `bdNodeManager`: the DHT thread is an endless loop
(`UdpBitDht::run`), so its turn, and time, are weakly fair.  `FinishingTurn` in
`bdNodeManager` says that queries end, which run `query` shows of a query
(`Terminates`).  `Rendezvous`: every node's loop runs for ever and repeats its
broadcasts and pings, so of datagrams that may be lost one copy is eventually
received.  `bdNode` and
`bdTunnel`: the threads are endless loops (`UdpBitDht::run`, `UdpTunnel::run`) and weakly
fair; so is the time the tunnel waits for.  The node needs no fairness of time: its
properties follow from its turns.  `UdpThreads`: every thread is strongly fair: the loops wait in
`select` and sleep with no mutex held, so a thread that waits for a mutex finds it free
again and again, for much longer than it takes to wake up.  No fairness is assumed of the application, of NATs or of restarts.

## 4. What is proved

By TLAPS, for every value of the constants that satisfies the named assumptions:

- `bdStdDhtProofs`: `LessIsStrictTotalOrder` (what the ordered maps require of
  the comparison) and `SameBucketIsCloser` (a node in the target's bucket is
  strictly closer to the target than any other).  They rest on `FirstSetBit`: a
  nonzero vector has a first set bit, from the well-foundedness of the naturals.
- `bdSpaceProofs`: the inductive invariant `IInv` (`SpaceInvariant`) and from it
  `TypeCorrect`, `PeersKnownOnce`, `BucketsStayBounded`, `BucketsStaySorted`,
  `NearestPrefersTargetBucket` and the action property `EvictionsAreJustified`.
  `IInv` joins type, placement, uniqueness, bound and order: uniqueness needs
  placement, because `add_peer` looks in one bucket only, and order needs that no
  entry is from the future.  One lemma per case of `AddToBucket` shows what the
  case leaves in the bucket; the step lemmas follow action by action.

- `bdStdDhtProofs` also shows `MidIdIsCloser` and `MidIdOfTarget`: what a
  disguised query asks for is closer to the target than the peer it asks, at
  every length of keys.  The first bit in which the two ids differ lies in the bytes
  that are copied from the target.
- `bdQueryProofs`: `TypeCorrect`, `ListsStaySound`, `RequestsPointCloser`, and the action
  property `CloserPeersStay`.  The invariant is that both lists
  are sound: no peer twice, no time from the future, and not more than
  their size.  The last part is inductive because an entry is replaced by one of the same
  peer, or added after the list was trimmed to one less.  `CloserPeersStay` rests on
  `OnlyTheFurthestGo`: of a totally ordered set, trimming leaves a peer out only when as
  many closer ones remain as the list has room for.  `OutcomesOnly` is the one thing that
  the manager relies on: a query does not run again after its verdict.
- `RendezvousProofs`: `TypeCorrect`, `PunchesAreJustified` and `StoresAreByAddress`.  The
  inductive invariant (`RendezvousInvariant`) traces every datagram ever sent, every entry of
  the request and address maps and every peer being punched back to a request of
  an application and to an address its node has had.  `wanted` and `held` only grow, so what
  has been justified stays so.
- `UdpThreadsProofs`: `TypeCorrect`, `SocketStaysOpen`, `OneThreadListens`,
  `OffersAreToRegistered` and `NothingLeftUnsent`.  The invariant has two parts:
  a mutex is held exactly by the thread whose label says so, and a receive thread that lives
  is the one the layer knows, while between `join` and `createThread` none lives.  From both
  follows `NobodyWaitsInACircle`: who waits for whom (`WaitsFor`) goes down a hierarchy of five
  levels, with the DHT threads, which wait for nobody while they hold a mutex, at the bottom.
  With `JoinedWillStop` it is the safety half of `CallsReturn`, for any number of
  threads where the run has one thread of the application.

- `bdProcessProofs`, the node: `NodeTypeCorrect`, `NothingStaleWaits`, `StopForgets`
  and `FilesAreWorthReading`.  The type invariant says that every message
  queued is one that nodes send (`Message`), which needs that what a handler decodes is
  what another node encoded: `MessageFields` and its lemmas read each message through
  `recvPkt`'s eyes.  The rest of the invariant orders the questions of others by age, oldest
  first, so that what follows a fresh one is fresh (without this a stale one could hide
  behind the one answered), and ties the store, at most `MaxEntries` large, to the file.
- `bdProcessProofs`, the tunnel: `TunnelTypeCorrect` and `AskedOnce`; the requests are without
  duplicates because only peers without one get one.
- `bdProcessProofs`, the hash space: `HashTypeCorrect`, `SecretsProtect` and `SecretlessStay`.  The
  type is inductive by itself.  The properties speak of what a search finds, so `AllFound` shows
  first that a search of the greatest age finds all there is: no entry is from the future.
  `AddedEntries` and `DeletedEntries` follow every entry through a call of `modify`: it stays, or it
  has the secret that was said and, when that is the empty one, lives at least as long.
- `bdProcessProofs`, together: `PartsAreImplemented` and, from the theorems on the parts,
  `ProcessTypeCorrect`.
- `bdNodeManagerProofs`: `TypeCorrect`, `RunningHasQuery`, `OneQueryForEach`, `IdleKept`, and
  `SearchImplemented`: every step is a step of `Search` for every id, or a
  stutter.  None of them is inductive.  Three facts together are (`ManagerInvariant`), of the list
  of queries and the map of searches:
  `OneEach` (a query of an id that only the application searches for is of a search, and the only
  one), `Matches` (it runs, and idles just as its search does; a search with a verdict has a query
  only if it idles, and that query has ended) and `Served` (a search that runs has a query, and
  so has one that idles, if only the application searches for its id).  None of the three
  depends on the order of the list, which every turn changes: `RunProperties` says that a turn
  is a permutation of the list together with verdicts.  For an id that the node searches for by
  itself there may be several queries, of which `QueryStatus` reads the last; whichever that
  is, a search that runs keeps a query, but one that idles may lose it, so that `IdleKept` says
  nothing of these ids.
  The facts are stated of any list and any map, because a turn goes through lists that are
  never a state: with the READY searches added (`StartGood`), without those removed
  (`CheckGood`), after the queries have run (`RunGood`).  `SearchImplemented` needs them too:
  without `Matches`, a query left over from a search that was withdrawn could give its verdict
  to the next search for the id.

The assumptions are the named ones of the modules (`KeyAssumption`, `SpaceAssumption`,
`QueryAssumption`, `RendezvousAssumption`, `ThreadAssumption`, `NodeAssumption`,
`TunnelAssumption`, `HashAssumption`, `ManagerAssumption`): sizes are
positive, peers are pairs of ids and addresses, an address stands once in the list of
bootstrap peers, at most one thread resets the stack.  Nothing bounds the clock, the
number of peers, nodes, threads or datagrams, or the length of keys.

Only model-checked is liveness, which TLAPS does not treat: `Terminates`, `ReportedPeersAsked`,
`MutualRequestsMeet`,
`SearchesEnd`, `CallsReturn`, `TurnsGoOn`, `QueriesServed`, `PotentialPinged` and
`ConnectedAsked`.  Every other property of a passing run is also a theorem.

## 5. Findings

1. `bdpeer.cc:557` computes `mLastRecvTime - ts`, so that an out-of-date head of a
   full bucket is never replaced.
2. `bdquery.cc:268` dereferences `begin()` of a map that may be empty.
3. `bdnode.cc:2140` sends an `ask_conn` to a node it does not name.  The pair
   still meets, through the second branch.  When the node it names has since inherited
   the address it is sent to, that node does act on it, and pings an address
   of its own (`PunchJustified` names this exception).
4. `bdmanager.cc:595` looks for a query that line 517 has removed: no callback for
   a search that does not idle.
5. `bdstore.cc:122` pops the back of a store above its limit, which is the entry that has
   just been pushed there; the debug text says `pop_front()`.  A node whose store is full
   puts no new peer into it, and does not tell those peers of its connect requests.

## 6. Not modelled

Printing, statistics and network size estimates; the bytes of messages (`bencode.c`, and
how `bdmsgs.cc` cuts strings): a message is the dictionary it stands for;
`bdhistory.cc`, which is compiled out; what `bitdht_decrypt`'s access beyond
an object may do besides giving any token; what happens after a message without `y`, or a
question without `q`, whose values `beMsgGetY` and `beMsgMatchString` read without asking
whether they are there (`bdmsgs.cc:742`, `bdmsgs.cc:721`): `bdMsgs` is about messages that have
them; `mDhtAddr`; `clearTunnel`, which nothing calls; the
callbacks and the mode FAILED of the tunnel, which nothing triggers; `LossyUdpLayer`, which
only tests use; random ids; wrappers of system calls and logging; the example and the tests.

## 7. Plan

1. Done: all modules above, and the proofs of all their safety and action properties, of the
   refinement of `Search`, and of what a query may come to (`QueryOutcome`).
2. The same for the other places where one module simplifies another: the routing table is a set in
   `bdNode`, with what `bdSpace` promises to it; the handlers of `bdNode` against `Rendezvous`.
3. The safety half of the other liveness properties, such as the measure of a query that
   every turn makes smaller.
