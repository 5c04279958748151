# Krato in TLA+

Krato is a replicated key-value store in Go: leaderless nodes that place keys on
a consistent-hash ring, write and read them by quorum under vector clocks, keep
them in a write-ahead log and a bbolt database, and find each other by gossip.
A dashboard in TypeScript shows the cluster and talks to it.
This directory models the parts of both where order, failure and concurrency
matter, checks the models with TLC, and proves theorems about them with TLAPS.

Paths below are relative to the repository's root; `PROJECT.json` maps every
definition to the lines it stands for.

## 1. Inventory

| part | state | operations | works with |
|---|---|---|---|
| Vector clocks, `internal/store/vclock.go` | a map from node to counter | NewVectorClock, Increment, Merge, Compare | engine, coordinator |
| Coordinator, `internal/coordinator` | per request only: answers, counters, clock | Read, Write, Delete, read-repair | ring (placement), local engine, RPC to peers |
| Replica side of an RPC, `internal/rpc/server.go` | none | Get, Set, Delete, Ping, Keys | engine |
| Anti-entropy, `internal/replication` | a timer | one push of every key to the other owners | engine, ring, RPC |
| Engine, `internal/store` | WAL file, buckets `krato_kv` and `krato_ttl` | SetVersioned, Delete, Get, Scan, Sweep, Close, replay | files |
| Gossip, `internal/gossip` | member table, generation, chaos switch, seen events | join, listen/merge, gossip, detectFailures, SetEnabled, Stop | UDP to peers, channel to the ring |
| Ring consumer, `internal/node/app.go` | the bounded channel | apply a join or a death | gossip, ring |
| Ring, `internal/ring` | sorted tokens, owner of each token, members | AddNode, RemoveNode, GetNode(s), GetKeyInfo | read by coordinator and anti-entropy |
| Event relay, `internal/gossip`, and bus, `internal/observe/eventbus.go` | buffer of pending events, set of seen ones; subscribers, a bounded history | BroadcastEvent, relay and merge, expiry; Publish, Subscribe, Unsubscribe | coordinator, gossip packets, WebSockets |
| Metrics, `internal/observe/metrics.go` | counters, a window of latencies | record, percentiles | read by the API only |
| API, CLI, agent | connections | translate requests | coordinator |
| Dashboard: event stream, `web/src/App.tsx`, `EventLog.tsx` | per mount a socket, two timers and a retry counter; the list of events | connect, reconnect with backoff, collect, clean up | API's WebSocket |
| Dashboard: cluster picture and selection, `App.tsx` | ring, nodes and keys as last answered, the selected node, modal and view | refresh (three requests), select, write, chaos commands | API |
| Dashboard: ring drawing, `App.tsx`, `HashRing.tsx` | none | order the nodes, draw arcs to replicas | the ring's snapshot |
| Dashboard: key explorer, `NodeExplorer.tsx` | details of a node, value of a key, loading flags | select node or key, copy, close | API |
| Dashboard: key strip, `App.tsx` | mode, inputs, result, busy flag | set, get | API |
| Dashboard: assistant panel, `AIChat.tsx` | messages, input, typing flag | ask; answers arrive as a stream | API, agent |
| Dashboard: guide, `ExplorerGuide.tsx` | topic, toy ring | navigate, add and remove a toy node | none |

Calls: client -> API -> coordinator -> (engine | RPC -> engine), with the ring
asked once per request.  Messages: gossip packets between nodes.  Shared state:
the ring, written by the consumer of the membership channel and read by
everybody, and the clock map that the goroutines of one fan-out share.
Callbacks: the gossiper's notifications, through the bounded channel.

What is hard about it, and where a property is aimed (the full list, with lines,
is under `hazards` in `PROJECT.json`):

* *check, append, update without a lock* in the engine: calls overtake each
  other between any two of the three (`RealTimeOrder`, `ImplementsReplica`);
* *a clock read before the fan-out and used after it*, from one replica
  (`SeesLatestWrite`), counted on by several nodes in turn (`ClocksCountWrites`),
  and shared by goroutines that merge into it (`VersionIntegrity`);
* *partial writes, late calls, lost repairs, crashes, changing rings* against
  what a quorum acknowledged (`QuorumOverlap`, `AckedKeyFound`);
* *reads of the database that fail*, which the engine takes for "nothing to
  compare with" (`RealTimeOrder`, `ImplementsReplica`) and the coordinator for
  "not found" (`AckedKeyFound`);
* *peers that never answer* (`RequestsEnd`);
* *answers out of order* and compared under a partial order (`BestIsMaximal`,
  `RepairsGoToStaleReplicas`);
* *replay over a database that is ahead of the log's beginning*, torn records,
  deadlines in a bucket of their own (`WriteAhead`, `DeadlineOfValue`,
  `OpensAgain`);
* *suspicion, death, return, restart, departure in any order*, seen through lost
  and late packets and a channel that drops (`RingFollowsMembers`,
  `RecordsWereAnnounced`, `HeartbeatsHeal`, `CrashedNodesLeaveRings`);
* *members added twice* to a ring that removes a token once
  (`WalksVisitMembersOnce`, `RemovalTakesAllTokens`, `PlacementFollowsMembers`);
* *buffers that repeat their events for ever against a memory that expires*
  (`RepeatsWereForgotten`);
* *closures that outlive the state they were made from*, in the dashboard: the
  effect that never sees the selection change (`ExploredNodeIsTheUsers`), the
  handlers of a socket that report after the cleanup (`WaitingMountsEnd`,
  `LiveMeansOpen`, `HeartbeatsOfOpenSockets`), the calls of the assistant that
  hold a place in an old list (`AnswersUnderQuestions`, `NoBlankAnswers`);
* *answers that overtake each other*, with nothing that says which request they
  belong to (`DrawnInRingOrder`, `QuietPictureIsRecent`, `ValueOfSelectedKey`,
  `DetailOfSelectedNode`, `ResultOfShownRequest`), and *one flag for several
  requests* (`BusyWhilePending`, `ThinkingWhileWaiting`);
* *backoff across failures, refusals and reopenings* (`BackoffDoubles`,
  `ReconnectsInTheEnd`).

## 2. Modules

```
VClock <-- Coordinator <-- MCCoordinator    VClockTheorems, CoordinatorProofs <-- CoordinatorReadProofs
       <-- Replica <== Engine <-- MCEngine  EngineProofs
Gossip <-- MCGossip                         GossipProofs
Ring   <-- RingView                         RingProofs
RingView, Relay, Feed, Console, Explorer,
  Strip, Chat, Guide <-- MCDashboard        FeedProofs, DashboardProofs
```

RingProofs is about Ring and RingView, FeedProofs about Feed and Relay, and
DashboardProofs about the other parts of the dashboard and about MCDashboard.

`<--` is EXTENDS, `<==` is a refinement (`INSTANCE Replica WITH ...`).

**VClock** has the four operations of `vclock.go` as operators on functions with
a finite domain; `At(c, n)` is Go's map lookup with its zero default.  Compare
keeps the code's two flags and its 2 for "concurrent".

**Coordinator** models one key (keys do not interact) and any number of
requests.  `store` and `wal` are what each node's engine holds and would replay,
`view` each node's ring, `calls` the engine calls in flight with their stage,
`job` what a request is, and `clock`, `got`, `acked`, `result` what it computed.
A request goes through

* `WriteStart`, `WriteClock` (the clock of the first replica, or an empty one
  when a remote one cannot be asked or the own engine cannot read it), the
  fan-out, `MutationFinish`;
* `DeleteStart`, the fan-out, `MutationFinish`;
* `ReadStart`, `ReadReplica` per answer, `LocalReadFails` (an error of the own
  engine, which the code counts as the answer that the key is not stored; the
  history variable `unread` names the reads it happened to), `ReadFinish` (the
  quorum test, the single pass over the answers in arrival order, the repairs).

On the replica a call goes through `SetCheck`, `WalAppend` and `DbPut`, each an
action of its own because no lock spans them.  At a node in `Lossy` the read of
the stored version in `SetCheck` may fail, which skips the comparison and the
merge and goes on to the append, as `SetVersioned` does.  The waits of the code are kept:
`MutationFinish` may run as soon as the local call is done, because a remote
goroutine ends by its timeout at the latest, and it may leave out any remote
success, because the answer may be lost or late.  `CallFails`, `AntiEntropy`,
`RingChange` and `Crash` are the environment.  A call that stays in `calls` for
ever is a lost one.  A kill by the chaos switch is a request that is not
started, and the switch's latency is a delay.

**Replica** is the specification of one node's engine as the coordinator sees
it: the stages of a call, one logged record, one visible value, expiry, restart.
A version that the stored one is newer than gets past its check only if its call
is one of those whose read of the database failed (`unread`, chosen at `GetFails`).
**Engine** is the implementation: the log's mutex and its three file operations
(`WritePrefix`, `WriteData`, `Sync`), their failures, a read before the append
that fails (`GetFails`: no comparison, no merge), the two buckets, `Sweep`,
the two steps of `Close`, crashes that keep any part of the unsynced log and
perhaps a torn record, and the replay, record by record.  `Abstract` gives the
mapping: an append counts from its fsync on, and a node that is down shows what
its log will say (`LastOf` the durable records).  Merging the clock of a version that is not newer changes
nothing (theorem `MergeNoOp`), so a version's clock is its call's.

**Gossip** holds per node the table of members, the bounded channel and the ring
it feeds, and the packets in flight.  `Join`, `GossipTo`, `Receive` (the whole
merge of a packet with its notifications), `DetectFailures`, `RingEvent`, `Kill`
and `Restore` (SetEnabled), `Stop`, `Crash` and `Restart` are the handlers.
Timeouts are choices: `DetectFailures(p, S)` may time out any watched set, and
the fairness says which it must.  `lost` and `leaves` are history variables: who
dropped a notification, and under which generations nodes left.

**Ring** keeps the slice of tokens as the number of copies of each, because
`AddNode` appends tokens of a member that is in the ring already; `keys` is the
owner map.  `Search` is the binary search with its wrap, `physicalRingOrder` the
members sorted by their least tokens (`Sorted` ranks the elements of a set), and
`GetNodes` walks that order from the owner of the token found.  `Placement` is the reference definition of where a key belongs, from
the set of members alone.

The Coordinator takes the ring as a constant: `Walk` gives for every set of
members the order in which they are visited, all it assumes is that each member
is visited once, and its lookups return beginnings of walks.  Both are proved of
the ring (`WalkAssumptionMet`, `BeginningsCorrect`).  Rings with orphaned tokens,
where two nodes with the same members walk differently, are outside the
Coordinator's model (`WalksVisitMembersOnce` holds of them, too).

**Relay** is what gossip packets carry besides members: the buffer of pending
events, which every packet repeats in full and which only drops its oldest, and
the set of seen ones that keeps a node from publishing an event again.
`Announce` and `BroadcastEvent` are the two calls at the end of a successful
write or delete, `SendPending` and `MergeEvents` the two ends of a packet,
`ForgetOld` the maintenance loop, `StartAgain` a restart.  Which event is old is
a choice.

The dashboard's parts share no variable, so **MCDashboard** starts a behaviour
with a `focus` and only that part moves; the ring and the relay are two more
parts of it.  What one part needs of another is a choice of its environment: the
explorer's node and keys change at any time, the picture is refreshed at any
time, the answers of the server are any that it can give.

* **RingView** extends Ring with what `fetchInitialData` and `HashRing.tsx` make
  of a snapshot: hashes sorted as numbers, the members by the first of these
  hashes that they own (`firstAppearance`), the arcs to a key's replicas.
* **Feed** is the WebSocket effect.  Every mount has variables of its own
  (`socket`, `reconnectTimeout`, `heartbeats`, `retryCount`), the component's
  state is common to them; `Remount` is the cleanup and the next mount, and
  `OnClose` of the old one may come later.  The node goes and comes (`up`),
  publishes, and drops events for a full channel.
* **Console** is the picture: a refresh is known by the version of the cluster at
  its start and by the selection in the closure that started it; its three
  endpoints each read some version in between.  Selecting, opening the explorer,
  changing the view, writing a key and the chaos commands are the user's actions.
* **Explorer** is mounted by the modal.  It counts requests in flight per node
  and per key, since an answer does not say whose it is; what is shown is known by
  what was asked.
* **Strip** is the `kv` state with `handleSet` and `handleGet`; the button is
  disabled while a request is out, the Enter key is not.
* **Chat** keeps `messages` as set and `rendered` as React last showed them,
  because `handleSend` starts from the latter; each question goes through refusal,
  frames, the end of the stream or a network error.
* **Guide** is the navigation and the toy ring, whose names are React keys.

Definitions with the word *history* beside their variable (`spoiled`, `meddled`,
`overlapped`, `detailMissed`, ...) only say that something happened which the
code does not cope with; the properties are stated for the rest, and their
comments say what is seen otherwise.

## 3. Runs

| run | asks | bounds | result |
|---|---|---|---|
| races | versions keep their clocks, clocks count writes, quorums intersect, reads return a maximal answer | 2 replicas, 3 requests of any kind, 2 coordinators, repairs | holds |
| faults | types; an acknowledged key is found | 2 replicas, 2 requests, failing calls and local reads, a crash, a flapping ring, anti-entropy | holds |
| ends | every request that does not wait for a clock from another node is answered | 2 nodes, 2 requests of any kind and mode, 2 coordinators, a peer that crashes or never answers, failing local calls and reads | holds |
| latest | an overlapping read sees the latest write | 2 replicas, 3 requests | violated |
| repair | read-repair reaches the stale replica | 2 replicas, 3 requests | violated |
| engine | types, deadlines, write-ahead, real-time order, implements Replica | 2 writes (the later expiring) and a delete, failing reads, writes and updates, 3 restarts | holds |
| restart | the node opens again after a crash | 3 writes (one expiring) and a delete, 1 restart | violated |
| gossip | types, ring follows table, records were announced, crashed members leave, heartbeats heal | 2 nodes, one started without seeds, the other crashes, leaves, comes back and is killed; generations up to 3, 1 packet in flight, 1 wrong timeout, channel of 1 | holds |
| left | a stopped node leaves the rings | 2 nodes, one leaves | violated |
| agree | all agree in the end | 2 nodes, 2 wrong timeouts | violated |
| dashboard | the ring: types, walks, removal, placement, only their keys move, drawn as neighbours; the relay: repeats were forgotten; the properties of the seven parts of the dashboard | below | holds |
| selection | no answer changes the node that the user explores | below | violated |

The dashboard's two runs have, per part: a ring of 4 nodes with 2 tokens each, 7
hashes of keys, replication factor 2, at most 3 copies of a token; 2 nodes with 2
events, buffers of 2, 2 packets in flight, one expiry per node and event and one
restart; 2 mounts, 3 published events, a log of 2; 3 nodes, 2 versions of the
cluster and 2 overlapping refreshes; 2 nodes and 2 keys to explore with one
request in flight for each; 2 keys in the strip with 2 requests for each; 3
questions; 6 toy nodes.  It has 217,104 states; the largest run, races, has 2,489,173.

Why the bounds are enough.  Every property of the coordinator relates at most
two requests and what a third may have done to the replicas; two replicas are the
smallest number where a quorum leaves nobody out and a single fault bites.  Larger
quorums, which two replicas cannot show, are covered by the theorems
`QuorumOverlapCorrect`, `BestCorrect`, `ClocksCorrect` and `AckedKeyCorrect` for
any number of nodes.  In the engine, two writes give an older and a newer
version (only whether the stored clock is after the new one matters to the code, so a
concurrent version takes the path of a newer one), the delete comes between any of
them, and three restarts let a crash interrupt the replay of another.  The theorems
`RealTimeCorrect` and `EngineImplements` hold for any number of operations and restarts.  In gossip, what a pair of nodes does
to each other's records is the whole table of a node; the channel of 1 makes
drops happen, and third parties' records, which two nodes cannot show, are
covered by the theorem `RecordsCorrect` for any number of nodes.  Three generations let
a member leave, come back and crash, or crash twice, with a packet of an earlier
life still in flight; packets that overtake each other are left to the
theorems, which cover the safety properties.
Three nodes are beyond TLC here (the tables multiply).  In the ring, the tokens are placed so
that nodes interleave, so that one is between another's, and so that the search
and the walk wrap around.  In the dashboard, every hazard is about two things that
overlap (two mounts, refreshes, requests, questions) and a third that comes after:
two mounts let a cleaned-up one report late, two requests of each kind let an
answer be overtaken, and a log of 2 with 3 events overflows.  A buffer of 2 in the
relay overflows when an event that was forgotten is buffered again.

Bounds by name: `MaxRestarts` (Engine), `MaxGen`, `MaxNet`, `MaxLate` (Gossip),
`MaxCopies` (Ring), `MaxForgotten`, `MaxWire`, `MaxCrashes` (Relay), `MaxMounts`,
`MaxPublished` (Feed), `MaxVersion`, `MaxRefresh` (Console), `MaxPending`
(Explorer), `MaxRequests` (Strip), `MaxQuestions` (Chat), `MaxToyNodes` (Guide);
requests and calls are used once each.  `MaxLog` and `Buffer` are numbers of the
code (50) made small.  `CHECK_DEADLOCK
FALSE` stands where the system really may stop: all requests were made, or all
restarts and generations are used.

`PROJECT.json` names for every property of a passing run a mutant of the model,
such as a quorum of n/2, a lost mutex release, or a stale generation at
departure, under which the run finds the property violated.

### What the failing runs show

* **latest.** A write's clock comes from the first replica only, and is empty
  when that replica cannot be asked.  A second write may then carry the very
  clock of the first, or one concurrent with it; the replica drops the one it
  takes for no news and reports success.  The dashboard's guide promises that
  overlapping sets always show the latest write.
* **repair.** The push goes to `nodes[i]`, with `i` an index into the answers.
* **restart.** A torn record at the log's end makes every later start fail.
* **left.** A member that stops in good order is LEFT, and no branch removes a
  LEFT member from a ring.
* **agree.** Nodes that suspect each other no longer send to each other.
* **selection.** The effect that opens the WebSocket has no dependencies, so the
  `fetchInitialData` it calls is that of the first render and sees no selection:
  every event resets the explored node to the first one.  The page says "Click any
  node to explore".

### Other things the models make visible

No run claims these to be errors, since nothing in the repository says
otherwise:

* a delete leaves no tombstone; anti-entropy can bring the key back;
* a delete is applied whatever the version, and versions with equal or
  concurrent clocks on two replicas are never reconciled by repair or
  anti-entropy, because both sides drop the other's;
* a member that heals from suspicion is added to the ring twice, and removing it
  leaves orphaned tokens: lookups that meet one start at the first member
  (`GetNode` returns the zero node), and nodes with the same members then place
  keys differently.  `PlacementFollowsMembers` and `OnlyTheirKeysMove` are
  therefore stated for rings without orphans;
* a node that joins as a key's primary may change all its replicas at once,
  because successors follow the physical order and not the tokens;
* a ring notification dropped by the full channel is never made up for; the
  properties of the ring are stated for nodes that dropped none;
* a write whose first replica is another node asks it for the clock without a
  deadline (`coordinator.go:284`): a peer that keeps the connection open and never
  answers holds the request for ever.  `RequestsEnd` is stated for the others, and
  for these once they have their clock;
* an error of a read's own engine, whichever it is, counts as an answer and as "not
  found" (`coordinator.go:165-176, 194`).  With three replicas, a write that the
  reader's node and a second one acknowledged may so be reported as absent, when the
  third, which missed it, is the other replica counted.  `AckedKeyFound` excepts
  the reads whose only replica in common with the write is the coordinator that
  failed;
* a version that the stored one is newer than is stored when the stored one cannot
  be read (`engine.go:86`), and replaces it;
* a member that left, came back, and crashed before it was heard of again is held
  to have LEFT, which `detectFailures` does not watch (`gossip.go:367-372`): it stays
  in the ring.  `CrashedNodesLeaveRings` is stated for the other records;
* the single HELLO after a restore may be lost;
* an event that is still in the buffers (fifty newer ones must push it out) after
  thirty minutes is published again, by every node, and then again;
* an effect that is cleaned up while its socket is open reconnects when the late
  `onclose` reports, beside its successor, and shows "Reconnecting" over a live
  socket;
* the older of two overlapping refreshes may be answered last and stays, and so
  may a value or the details of a node that were asked for while others were
  awaited; nothing corrects them;
* a write's answer clears the value input even if the user typed a new one, and
  the first of two answers of the assistant ends the "Thinking" of the other;
* `toAngle` (`HashRing.tsx:62`) winds the circle a thousand times, and `key_hash`
  goes through JSON as a number with less precision than the hash; both only move
  drawings;
* of an answer of several lines only the first reaches the panel, because the
  server sends one frame (`api/server.go:366`).

## 4. Fairness

Safety runs use `Spec`.  The liveness runs use `FairSpec`:

* Coordinator: weak fairness of the local engine's steps, a fetch of the clock from
  it among them (`LocalClock`: function calls), and of finishing, which the
  two-second timeouts guarantee.  Nothing is assumed of remote replicas, neither of
  their answers to a fan-out nor of a clock fetched from them.
* Gossip: weak fairness of the ring's consumer and of the HELLO loop; packets in
  flight are received; a node that goes on sending to a peer has some packet
  arrive (strong fairness: UDP loses packets but not all of them); a member that
  is silent for good is timed out, which the ticker of `detectFailures` does.
  Timeouts of running members are never forced.
* Feed (`DashboardSpec`, `FeedFairness`): the browser in the end reports that a
  socket opened or closed, and runs a timer that is due.  `ReconnectsInTheEnd` says
  that when the node is reachable for good the dashboard is connected for good.

## 5. Proofs

All theorems hold for every value of the constants that satisfies the `ASSUME`s
of the module (finite node sets, distinct names, finitely many tokens per node
and none shared, non-zero replication factor).  Every safety property of every
passing run is proved, the refinement and the action property among them; section
"What stays with TLC" names the rest.

**VClockTheorems.** `CompareDecidesOrder`: the four results of Compare are the
four ways two clocks can stand to each other in the entry-wise order.
`IncrementIsNewer`: an incremented clock is newer than the clock it was made from
and than every clock which that one dominates.  `MergeIsLub`, and `MergeNoOp`: a merge that SetVersioned
performs never changes the clock it merges into.

**CoordinatorProofs.** `TypeCorrect`; `IntegrityCorrect` (VersionIntegrity), whose
inductive invariant adds `WellFormed` (a request draws its clock once, after it
started, and its replicas are distinct nodes), and whose one interesting step,
`SetCheck`, rests on `MergeNoOp`; `QuorumOverlapCorrect`, from the invariant that a
finished request counted a quorum of distinct replicas of its own, and a counting
lemma on majorities of one set.

**CoordinatorReadProofs.** `BestCorrect`: the single pass over the answers keeps a
maximal one, although the order is partial; the argument over the pass is by its
least counterexample.  `ClocksCorrect`: the entries of drawn clocks are bounded by
the number of writes drawn (`CountInv`), because a new clock is one more than a
clock that is in a store, whose entries are those of a drawn one by
`VersionIntegrity`.  `AckedKeyCorrect`: `KeptInv` follows the acknowledged version
from the call through the log to the store and to every answer that a later read
gets from that replica, through crashes, repairs, anti-entropy and pushes that
overwrite what could not be read, except the answer of a coordinator whose own
engine failed (`unread`).  `QuorumOverlapCorrect` gives a replica that the read and
the write share, the theorem's hypothesis that for a read in `unread` one of these
is another node than the coordinator, and `BestCorrect` that the answer is not
passed over.

**EngineProofs.** `EngineTypes`, which includes the mutex; `DeadlineCorrect`;
`WriteAheadCorrect`, whose invariant adds that a call at stage "logged" is among
the durable records and that a node that is replaying has a log that is durable
throughout.  `RealTimeCorrect`: `OrderInv` says that a call that was done when
another began has its record before the other's, and that the replay has stored
the last record it passed.  `EngineImplements`: every step is a step of Replica or
leaves the mapping alone.  A call whose read failed goes on as `GetFails` of
Replica, so that an outdated version gets past the check there exactly when it does
in the code.  Its other cases are the fsync, which is the append; a crash,
after which a call that was cut off may or may not be in the log and the last whole
record is what readers will find; and the end of the replay, where the database
says what that record says (`ReplayFinds`, from `OrderInv`).

**GossipProofs.** `GossipTypes`; `RecordsCorrect`, for clusters of any size.  The
invariant (`HistoryInv`) says of each table and each packet that what it holds of
a member was announced, and that no node left under a generation it has not
reached; the last part is what makes a fresh generation, at a restart or a
restore, innocent of every earlier departure.  `RingsCorrect`: `FollowInv` says
that for a node that dropped no notification, the ring after the queue is applied
holds who the table says, where the last notification of a member decides.  One
lemma shows that a merge adds at most one notification of a member.

**RingProofs.** `RemovalCorrect`: types and `RemovalTakesAllTokens`.
`WalksCorrect`: the ranks of members by least token are a bijection
(`RankedOnce`), a start always exists, and the places modulo the number of members
are all different.  `PlacementCorrect`: without orphans the tokens in the slice are
those of the members, so the search, the primary and the order depend on the
members alone; a place that the walk reaches after k steps is one with k members
between it and the primary (`PassedSize`), and `Placement` counts those.
`MovesCorrect` (`OnlyTheirKeysMove`): by `PlacementCorrect` only the placement
before and after matters.  When the node that joins is not the owner of the next
token the primary stays (`FirstOfPart`), and when it becomes no replica it has at
least RF members between the primary and itself, so that no replica is pushed out
by it (`JoinMoves`); a leave is a join backwards.  `NeighboursCorrect`
(`ReplicasAreNeighbours`): the hashes of the snapshot are listed in strictly
increasing order (`HashesInOrder`), so that a member first appears with its least
token (`FirstAppearanceIs`), first appearances are ordered as least tokens are, and
a finite set has one listing by distinct numbers (`ListedOneWay`): the browser's
order is the node's (`DrawnAsRing`), and the arcs end at the places of the walk
(`ArcsOfWalk`).  `WalkAssumptionMet` and `BeginningsCorrect` join the ring to the
Coordinator: `WalkOf(h, S)` goes round the members of S by least token, starting at
the owner of the next token; it visits each of them once for every S, and while no
token is orphaned the lookups of the ring return its beginnings.

**FeedProofs.** `FeedCorrect`: types, `HeartbeatsOfOpenSockets`, `LiveMeansOpen`,
`LogInOrder` and `WaitingMountsEnd`, for any number of mounts and events and any
length of the log.  `FeedInv` ties each mount's interval and timer to the state of
its socket (`SocketInv`), the animated events to the topmost of the log
(`Topmost`), and, while there is one mount, the log to what the server has sent
(`OnlyMountInv`).  `BackoffCorrect` (`BackoffDoubles`): `RetryInv` says, per mount
and state of its socket, how the counter of the code stands to the number of
failures, which is what a delay of one step too many or too few would break.
`RelayCorrect`: types and `RepeatsWereForgotten`.  `RelayInv` says that a node
that has published an event more often than it forgot it still remembers it
(`Remembered`), and that an event that is not announced yet is nowhere
(`NotYetKnown`).  The merge of a packet goes over its events one by one; what it
leaves (`MemoryIs`) follows by the least position at which it would fail.

**DashboardProofs.** `StripCorrect`, `ExplorerCorrect`, `ChatCorrect`,
`GuideCorrect` and `ConsoleCorrect`.  The invariants say what is pending while the
panel waits (`StripWaits`, `DetailAwaited`, `ValueAwaited`) and what is shown when
it does not; `ChatInv` gives the k-th question and its answer their places in the
list and says what the answer of every call looks like in its phase; `GuideInv`
says that a toy node has its first name or the number before its place.
`ConsoleInv` says that the nodes are drawn by their places in the ring that is
drawn (`Drawn`), absent ones first, and that as long as no two refreshes overlapped
and none failed, either the one on its way is the last that was asked for
(`OnlyRefresh`), or what is shown is no older than it (`Recent`).  `PartsBehave`: a
behaviour of MCDashboard is a behaviour of each part, so that `DashboardCorrect`
can collect the safety properties of the parts, `DashboardTypeOK` among them, for
the very specification that the run explores.

### What stays with TLC

Liveness under fairness and ENABLED are out of the prover's reach: `RequestsEnd`,
`CrashedNodesLeaveRings`, `HeartbeatsHeal` and `ReconnectsInTheEnd` are checked by
the runs only, as is every violation.  So is induction over data, for which the
proofs use an argument by the least counterexample where it is over numbers (the
pass over the answers of a read, the merge of a packet, a least token).  No module
uses a RECURSIVE operator.

## 6. Not modelled

* the history of the event bus and the metrics, which are only reported;
* the HTTP and WebSocket API, the CLI, the agent, configuration: they translate;
  generated RPC code;
* of the dashboard: `KVPanel.tsx`, which no component renders; the geometry,
  colours and timing of d3; the metrics in the header; the animation of a killed
  node's tokens; several frames of an answer, which the server does not send;
* the order of a node's shutdown across its servers;
* addresses: the cache of RPC clients never forgets one, so a node that returns
  elsewhere is one that never answers;
* clocks that go backwards across a restart (generations are assumed to grow),
  duplicated UDP packets;
* a database that fails only while closing;
* several keys, values, and the JSON encoding of versions.

## 7. Plan

Done: the modules and proofs above.  What could follow:

1. a specification of the cluster that the Coordinator implements under the
   conditions where it does (a register that may return any write not known to be
   overwritten), with the fate of deleted keys stated there;
2. the ring's divergent walks (orphaned tokens) inside the Coordinator;
3. the shutdown order of a node across gossip, servers, anti-entropy and engine;
4. the percentiles of the metrics, and the history of the event bus;
5. theorems about the cluster's specification of item 1, from `AckedKeyCorrect`.

Running it: `tlc -config MCX_name.cfg MCX` for the runs, `tlapm XProofs.tla` for
the proofs.
