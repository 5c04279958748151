---------------------------- MODULE Coordinator -----------------------------
(***************************************************************************)
(* Quorum reads, writes and deletes of one key, as coordinators on several *)
(* nodes run them concurrently (internal/coordinator/coordinator.go), with *)
(* the replica side of every call (internal/rpc/server.go and              *)
(* internal/store/engine.go), read-repair and the anti-entropy pushes of   *)
(* internal/replication/antientropy.go.                                    *)
(*                                                                         *)
(* Keys do not interact, so one key is enough.  A stored version is the    *)
(* request that wrote it (the value is whatever that request carried) and  *)
(* a vector clock.  "calls" holds the engine calls that were sent and have *)
(* not been accounted for: the RPCs of a fan-out, and the background       *)
(* pushes of read-repair and anti-entropy.                                 *)
(***************************************************************************)
EXTENDS VClock, Sequences, FiniteSets, Functions, SequencesExt

CONSTANTS
    Node,          \* the nodes of the cluster
    Request,       \* client requests, each used at most once
    NoRequest,     \* the sender of anti-entropy pushes
    NoVersion,     \* "the key is not stored"
    Walk,          \* for each set of ring members, the order in which
                   \* the ring visits them for the key (module Ring)
    RF,            \* the configured replication factor
    Kinds,         \* the kinds of requests clients make
    Modes,         \* the consistency levels clients ask for
    Entry,         \* the nodes that clients talk to
    Flaky,         \* the nodes that the other nodes' rings may drop and re-add
    Lossy,         \* the nodes where an engine call or its bbolt read may fail
    Mortal,        \* the nodes whose process may crash and restart
    Repairing      \* the nodes whose anti-entropy timer fires

ASSUME NodeAssumption == IsFiniteSet(Node)

(* Every member is visited exactly once.                                   *)
ASSUME WalkAssumption ==
    /\ Walk \in [SUBSET Node -> Seq(Node)]
    /\ \A S \in SUBSET Node : IsInjective(Walk[S]) /\ Range(Walk[S]) = S

ASSUME RFAssumption == RF \in Nat \ {0}

ASSUME RequestAssumption ==
    /\ NoRequest \notin Request
    /\ Kinds \subseteq {"read", "write", "delete"}
    /\ Modes \subseteq {"quorum", "async"}
    /\ Entry \subseteq Node
    /\ Flaky \subseteq Node
    /\ Lossy \subseteq Node
    /\ Mortal \subseteq Node
    /\ Repairing \subseteq Node

Version == [by : Request, clock : Clocks(Node)]

ASSUME VersionAssumption == NoVersion \notin Version

IsStored(v) ==
    \/ v = NoVersion
    \/ /\ v = [by |-> v.by, clock |-> v.clock]
       /\ v.by \in Request /\ IsClock(v.clock, Node)

IsCall(call) ==
    /\ call = [from |-> call.from, to |-> call.to, ver |-> call.ver,
               stage |-> call.stage]
    /\ call.from \in Request \union {NoRequest} /\ call.to \in Node
    /\ IsStored(call.ver)
    /\ call.stage \in {"sent", "checked", "logged", "applied", "skipped"}

Job == [kind : {"read", "write", "delete"}, mode : {"quorum", "async"},
        coord : Node, nodes : Seq(Node) \ {<<>>}, after : SUBSET Request]

VARIABLES
    store,    \* what each node's bbolt database holds for the key
    wal,      \* the last record for the key in each node's write-ahead log
    view,     \* the nodes in each node's hash ring
    calls,    \* engine calls in flight, or answered to a waiting request
    phase,    \* how far each request is
    job,      \* what each request is: set when it starts
    clock,    \* the clock a write gave its version
    got,      \* what a read was answered, per replica that answered
    acked,    \* the replicas whose success a finished request counted
    result,   \* what a finished read returned
    unread    \* history: the reads whose own engine returned an error

vars == <<store, wal, view, calls, phase, job, clock, got, acked, result, unread>>

-----------------------------------------------------------------------------
(* Placement and quorums.                                                  *)

(* HashRing.GetNodes on the ring of node c: at most count members, in      *)
(* ring order.                                                             *)
GetNodes(c, count) ==
    LET members == Walk[view[c]]
    IN  IF Len(members) <= count THEN members ELSE SubSeq(members, 1, count)

quorumSizeHalf(nodes, mode) == IF mode = "async" THEN 1 ELSE nodes \div 2

quorumSize(nodes, mode) ==
    IF mode = "async" THEN 1
    ELSE LET w == (nodes \div 2) + 1 IN IF w > nodes THEN nodes ELSE w

Needed(r) == quorumSize(Len(job[r].nodes), job[r].mode)

Replicas(r) == Range(job[r].nodes)

NoJob == [kind |-> "none", mode |-> "none", coord |-> "none",
          nodes |-> <<>>, after |-> {}]

NoAnswers == [n \in {} |-> NoVersion]

Finished == {r \in Request : phase[r] \in {"ok", "failed"}}

Start(r, c, kind, mode, next) ==
    /\ phase[r] = "free"
    /\ kind \in Kinds
    /\ GetNodes(c, RF) # <<>>
    /\ job' = [job EXCEPT ![r] = [kind |-> kind, mode |-> mode, coord |-> c,
                                  nodes |-> GetNodes(c, RF), after |-> Finished]]
    /\ phase' = [phase EXCEPT ![r] = next]

(* One engine call per replica: the goroutines of a fan-out.               *)
FanOut(r, nodes, v) ==
    {[from |-> r, to |-> n, ver |-> v, stage |-> "sent"] : n \in Range(nodes)}

-----------------------------------------------------------------------------
(* Writes.                                                                 *)

WriteStart(r, c, mode) ==
    /\ Start(r, c, "write", mode, "clock")
    /\ UNCHANGED <<store, wal, view, calls, clock, got, acked, result, unread>>

(* The clock to increment is the one the first replica holds; it is empty  *)
(* when the replica has no version, or cannot be read: its engine returns  *)
(* an error or, being remote, it cannot be reached.                        *)
ClockSeen(r) ==
    LET primary == job[r].nodes[1]
        held    == IF store[primary] = NoVersion THEN EmptyClock
                   ELSE store[primary].clock
    IN  {held} \union (IF primary = job[r].coord /\ primary \notin Lossy
                       THEN {} ELSE {EmptyClock})

NextClockOfPrimary(r, seen) == Increment(seen, job[r].nodes[1])

NextClock(r, seen) == Increment(seen, job[r].coord)

WriteClock(r) ==
    /\ phase[r] = "clock"
    /\ \E seen \in ClockSeen(r) :
         LET vc == NextClock(r, seen)
         IN  /\ clock' = [clock EXCEPT ![r] = vc]
             /\ calls' = calls \union
                  FanOut(r, job[r].nodes, [by |-> r, clock |-> vc])
    /\ phase' = [phase EXCEPT ![r] = "waiting"]
    /\ UNCHANGED <<store, wal, view, job, got, acked, result, unread>>

DeleteStart(r, c, mode) ==
    /\ Start(r, c, "delete", mode, "waiting")
    /\ calls' = calls \union FanOut(r, GetNodes(c, RF), NoVersion)
    /\ UNCHANGED <<store, wal, view, clock, got, acked, result, unread>>

CallsOf(r) == {call \in calls : call.from = r}

(* The calls of a request that the coordinator can count as successes.     *)
Succeeded(r) == {call \in CallsOf(r) : call.stage \in {"applied", "skipped"}}

(* wg.Wait returns when every goroutine has: the local engine call has     *)
(* run, and a remote call was answered or failed or timed out, whatever    *)
(* the remote handler did or will still do.                                *)
AllDone(r) == CallsOf(r) = Succeeded(r)

LocalDone(r) == \A call \in CallsOf(r) : call.to = job[r].coord => call \in Succeeded(r)

(* An async request does not wait and reports success whatever it counted. *)
MutationFinish(r) ==
    LET done == {call.to : call \in Succeeded(r)}
    IN
    /\ phase[r] = "waiting" /\ job[r].kind \in {"write", "delete"}
    /\ job[r].mode = "async" \/ LocalDone(r)
    /\ \E counted \in SUBSET done :
         /\ job[r].mode = "async" \/ {job[r].coord} \intersect done \subseteq counted
         /\ acked' = [acked EXCEPT ![r] = counted]
         /\ phase' = [phase EXCEPT ![r] =
                        IF Cardinality(counted) < Needed(r) /\ job[r].mode # "async"
                        THEN "failed" ELSE "ok"]
    /\ calls' = calls \ Succeeded(r)
    /\ UNCHANGED <<store, wal, view, job, clock, got, result, unread>>

-----------------------------------------------------------------------------
(* The replica side.                                                       *)

(* A call reaches its next stage; once it is done, it is remembered only   *)
(* while the write or delete that sent it still waits to count it.         *)
Advance(call, v, stage) ==
    (calls \ {call}) \union
      (IF \/ stage \in {"checked", "logged"}
          \/ call.from # NoRequest /\ phase[call.from] = "waiting"
       THEN {[from |-> call.from, to |-> call.to, ver |-> v, stage |-> stage]}
       ELSE {})

(* clock.Merge(existingClock) in SetVersioned.                             *)
Absorb(v, held) ==
    IF held = NoVersion THEN v
    ELSE [v EXCEPT !.clock = Merge(v.clock, held.clock)]

(* Engine.SetVersioned up to its WAL append: a version that the stored one *)
(* is newer than, or concurrent with, is dropped and reported as stored;   *)
(* otherwise the clock absorbs the stored one.  When the stored version    *)
(* cannot be read, the call goes on with neither.                          *)
SetCheck(call) ==
    LET held == store[call.to]
    IN
    /\ call.stage = "sent" /\ call.ver # NoVersion
    /\ \/ calls' =
            IF held # NoVersion /\ Compare(held.clock, call.ver.clock) > 0
            THEN Advance(call, call.ver, "skipped")
            ELSE Advance(call, Absorb(call.ver, held), "checked")
       \/ call.to \in Lossy /\ calls' = Advance(call, call.ver, "checked")
    /\ UNCHANGED <<store, wal, view, phase, job, clock, got, acked, result, unread>>

(* The WAL append of SetVersioned, and of Delete, which checks nothing.    *)
WalAppend(call) ==
    /\ \/ call.stage = "checked"
       \/ call.stage = "sent" /\ call.ver = NoVersion
    /\ wal' = [wal EXCEPT ![call.to] = call.ver]
    /\ calls' = Advance(call, call.ver, "logged")
    /\ UNCHANGED <<store, view, phase, job, clock, got, acked, result, unread>>

(* The bbolt transaction.  No lock covers the check, the append and this,  *)
(* so calls overtake each other between any two of them.                   *)
DbPut(call) ==
    /\ call.stage = "logged"
    /\ store' = [store EXCEPT ![call.to] = call.ver]
    /\ calls' = Advance(call, call.ver, "applied")
    /\ UNCHANGED <<wal, view, phase, job, clock, got, acked, result, unread>>

(* The call is lost, or the engine returns an error half-way.  A remote    *)
(* call that never takes its next step is lost as well; Lossy makes the    *)
(* failure explicit, for the local call above all.                         *)
CallFails(call) ==
    /\ call.to \in Lossy
    /\ call.stage \in {"sent", "checked", "logged"}
    /\ calls' = calls \ {call}
    /\ UNCHANGED <<store, wal, view, phase, job, clock, got, acked, result, unread>>

-----------------------------------------------------------------------------
(* Reads.                                                                  *)

ReadStart(r, c, mode) ==
    /\ Start(r, c, "read", mode, "waiting")
    /\ UNCHANGED <<store, wal, view, calls, clock, got, acked, result, unread>>

(* A replica's answer comes in.                                            *)
Answer(r, n, v) ==
    /\ phase[r] = "waiting" /\ job[r].kind = "read"
    /\ n \in Replicas(r) \ DOMAIN got[r]
    /\ got' = [got EXCEPT ![r] =
                 [m \in DOMAIN got[r] \union {n} |->
                    IF m = n THEN v ELSE got[r][m]]]
    /\ UNCHANGED <<store, wal, view, calls, phase, job, clock, acked, result>>

ReadReplica(r, n) ==
    /\ Answer(r, n, store[n])
    /\ UNCHANGED unread

(* An error of the coordinator's own engine is counted as the answer that  *)
(* the key is not stored.  A remote replica's error is no answer at all.   *)
LocalReadFails(r) ==
    /\ job[r].coord \in Lossy
    /\ Answer(r, job[r].coord, NoVersion)
    /\ unread' = unread \union {r}

(* The single pass over the answers that picks the version to return: the  *)
(* successive values of bestIndex (there is one such sequence).            *)
PassKeepingOldest(versions) ==
    {best \in [1 .. Len(versions) -> 1 .. Len(versions)] :
       \A i \in 1 .. Len(versions) :
         best[i] = IF i = 1 THEN 1
                   ELSE IF Compare(versions[best[i - 1]].clock, versions[i].clock) > 0
                        THEN i ELSE best[i - 1]}

Pass(versions) ==
    {best \in [1 .. Len(versions) -> 1 .. Len(versions)] :
       \A i \in 1 .. Len(versions) :
         best[i] = IF i = 1 THEN 1
                   ELSE IF Compare(versions[best[i - 1]].clock, versions[i].clock) < 0
                        THEN i ELSE best[i - 1]}

(* Read-repair pushes the best version to nodes[i] for the i-th answer     *)
(* that it compares above: i counts the answers that found the key in the  *)
(* order they came in, nodes is in ring order.                             *)
Repairs(r, versions, b) ==
    LET old == {i \in 1 .. Len(versions) :
                  i # b /\ Compare(versions[b].clock, versions[i].clock) > 0}
    IN  {[from |-> r, to |-> job[r].nodes[i], ver |-> versions[b], stage |-> "sent"] :
           i \in old}

(* The answers come in any order.  A remote replica that has not answered  *)
(* failed or timed out; the local engine is counted, whatever it returned. *)
ReadFinish(r) ==
    LET found == {n \in DOMAIN got[r] : got[r][n] # NoVersion}
    IN
    /\ phase[r] = "waiting" /\ job[r].kind = "read"
    /\ job[r].coord \in Replicas(r) => job[r].coord \in DOMAIN got[r]
    /\ acked' = [acked EXCEPT ![r] = DOMAIN got[r]]
    /\ IF Cardinality(DOMAIN got[r]) < Needed(r)
       THEN /\ phase' = [phase EXCEPT ![r] = "failed"]
            /\ UNCHANGED <<calls, result>>
       ELSE /\ phase' = [phase EXCEPT ![r] = "ok"]
            /\ IF found = {} THEN UNCHANGED <<calls, result>>
               ELSE \E arrival \in SetToSeqs(found) :
                      LET versions == [i \in DOMAIN arrival |-> got[r][arrival[i]]]
                      IN  \E best \in Pass(versions) :
                            LET b == best[Len(versions)]
                            IN  /\ result' = [result EXCEPT ![r] = versions[b]]
                                /\ calls' = calls \union Repairs(r, versions, b)
    /\ UNCHANGED <<store, wal, view, job, clock, got, unread>>

-----------------------------------------------------------------------------
(* Background activity and faults.                                         *)

(* One round of AntiEntropy.run for the key: the stored version is pushed  *)
(* to the other nodes of the first three, whatever the replication factor. *)
AntiEntropy(n) ==
    /\ n \in Repairing
    /\ store[n] # NoVersion
    /\ calls' = calls \union
         {[from |-> NoRequest, to |-> m, ver |-> store[n], stage |-> "sent"] :
            m \in Range(GetNodes(n, 3)) \ {n}}
    /\ UNCHANGED <<store, wal, view, phase, job, clock, got, acked, result, unread>>

(* A membership event changes the ring of node c.  A node never hears of   *)
(* its own death: gossip merges skip the local member.                     *)
RingChangeAnyone(c, n) ==
    /\ n \in Flaky
    /\ view' = [view EXCEPT ![c] = IF n \in @ THEN @ \ {n} ELSE @ \union {n}]
    /\ UNCHANGED <<store, wal, calls, phase, job, clock, got, acked, result, unread>>

RingChange(c, n) ==
    /\ n \in Flaky \ {c}
    /\ view' = [view EXCEPT ![c] = IF n \in @ THEN @ \ {n} ELSE @ \union {n}]
    /\ UNCHANGED <<store, wal, calls, phase, job, clock, got, acked, result, unread>>

(* The process of node n dies and starts again.  The replay of the WAL     *)
(* leaves the last record of the key in the engine; the calls the node was *)
(* serving and the requests it coordinated are gone (what their goroutines *)
(* had sent may still arrive), and its new ring holds only itself.         *)
Crash(n) ==
    /\ n \in Mortal
    /\ store' = [store EXCEPT ![n] = wal[n]]
    /\ calls' = {call \in calls :
                   /\ call.to # n
                   /\ \/ call.stage \in {"sent", "checked", "logged"}
                      \/ job[call.from].coord # n}
    /\ phase' = [r \in Request |->
                   IF phase[r] \in {"clock", "waiting"} /\ job[r].coord = n
                   THEN "failed" ELSE phase[r]]
    /\ view' = [view EXCEPT ![n] = {n}]
    /\ UNCHANGED <<wal, job, clock, got, acked, result, unread>>

-----------------------------------------------------------------------------
Init ==
    /\ store = [n \in Node |-> NoVersion]
    /\ wal = [n \in Node |-> NoVersion]
    /\ view = [n \in Node |-> Node]
    /\ calls = {}
    /\ phase = [r \in Request |-> "free"]
    /\ job = [r \in Request |-> NoJob]
    /\ clock = [r \in Request |-> EmptyClock]
    /\ got = [r \in Request |-> NoAnswers]
    /\ acked = [r \in Request |-> {}]
    /\ result = [r \in Request |-> NoVersion]
    /\ unread = {}

RequestStart ==
    \E r \in Request, c \in Entry, mode \in Modes :
        \/ WriteStart(r, c, mode)
        \/ DeleteStart(r, c, mode)
        \/ ReadStart(r, c, mode)

RequestStep ==
    \E r \in Request :
        \/ WriteClock(r)
        \/ MutationFinish(r)
        \/ \E n \in Node : ReadReplica(r, n)
        \/ LocalReadFails(r)
        \/ ReadFinish(r)

ReplicaStep ==
    \E call \in calls :
        \/ SetCheck(call)
        \/ WalAppend(call)
        \/ DbPut(call)
        \/ CallFails(call)

ClusterStep ==
    \E n \in Node :
        \/ AntiEntropy(n)
        \/ \E m \in Node : RingChange(n, m)
        \/ Crash(n)

Next == RequestStart \/ RequestStep \/ ReplicaStep \/ ClusterStep

Spec == Init /\ [][Next]_vars
-----------------------------------------------------------------------------
(* Correctness.                                                            *)

ReplicasOK ==
    /\ DOMAIN store = Node /\ \A n \in Node : IsStored(store[n])
    /\ DOMAIN wal = Node /\ \A n \in Node : IsStored(wal[n])

RingsOK == view \in [Node -> SUBSET Node] /\ \A n \in Node : n \in view[n]

CallsOK == \A call \in calls : IsCall(call)

JobsOK ==
    /\ phase \in [Request -> {"free", "clock", "waiting", "ok", "failed"}]
    /\ DOMAIN job = Request
    /\ \A r \in Request : phase[r] # "free" => job[r] \in Job

AnswersOK ==
    /\ DOMAIN clock = Request /\ \A r \in Request : IsClock(clock[r], Node)
    /\ DOMAIN got = Request
    /\ \A r \in Request :
          DOMAIN got[r] \subseteq Node /\ \A n \in DOMAIN got[r] : IsStored(got[r][n])
    /\ acked \in [Request -> SUBSET Node]
    /\ DOMAIN result = Request /\ \A r \in Request : IsStored(result[r])
    /\ unread \subseteq Request

(* Types; and every node keeps itself in its ring.                         *)
TypeOK == ReplicasOK /\ RingsOK /\ CallsOK /\ JobsOK /\ AnswersOK

(* The writes that have drawn a clock.                                     *)
Drawn == {r \in Request : clock[r] # EmptyClock}

Copies ==
    {store[n] : n \in Node} \union {wal[n] : n \in Node}
      \union {call.ver : call \in calls} \union {result[r] : r \in Request}
      \union UNION {{got[r][n] : n \in DOMAIN got[r]} : r \in Request}

(* Whatever replicas, logs, in-flight calls and answers hold was written   *)
(* by a request, under exactly the clock that request drew: although the   *)
(* goroutines of a fan-out share one clock map and SetVersioned merges     *)
(* into it, no merge ever changes it.                                      *)
VersionIntegrity ==
    \A v \in Copies \ {NoVersion} : v.by \in Drawn /\ v.clock = clock[v.by]

(* A clock never counts more writes of a coordinator than it started.      *)
ClocksCountWrites ==
    \A v \in Copies \ {NoVersion}, n \in Node :
        At(v.clock, n) <= Cardinality({r \in Drawn : job[r].coord = n})

Succeeds(r) == phase[r] = "ok" /\ job[r].mode = "quorum"

(* Two quorum requests that succeeded over the same replicas counted a     *)
(* replica in common: W + R > N.                                           *)
QuorumOverlap ==
    \A r, s \in Request :
        Succeeds(r) /\ Succeeds(s) /\ Replicas(r) = Replicas(s)
          => acked[r] \intersect acked[s] # {}

(* What a read returns is not older than any answer it was given.          *)
BestIsMaximal ==
    \A r \in Request :
        phase[r] = "ok" /\ job[r].kind = "read" =>
          \A n \in {m \in DOMAIN got[r] : got[r][m] # NoVersion} :
             /\ result[r] # NoVersion
             /\ Compare(result[r].clock, got[r][n].clock) # -1

(* As long as nobody deletes the key, a quorum read that starts after a    *)
(* quorum write was acknowledged by the same replicas finds some version,  *)
(* whatever is lost, late, repaired, crashes or changes rings in between,  *)
(* and whichever replicas could not read what they store when a version    *)
(* was pushed to them.  The one exception is a read whose own engine fails *)
(* when no other replica that it counted had counted the write.            *)
AckedKeyFound ==
    (\A d \in Request : job[d].kind # "delete") =>
      \A w, q \in Request :
        /\ Succeeds(w) /\ job[w].kind = "write"
        /\ Succeeds(q) /\ job[q].kind = "read"
        /\ w \in job[q].after
        /\ Replicas(w) = Replicas(q)
        /\ q \in unread => acked[w] \intersect acked[q] # {job[q].coord}
     => result[q] # NoVersion

(* A read that starts when the only writes so far were made one after the  *)
(* other, the last of them acknowledged by a quorum of the same replicas,  *)
(* returns that last write.                                                *)
SeesLatestWrite ==
    \A w, q \in Request :
        /\ Succeeds(w) /\ job[w].kind = "write"
        /\ Succeeds(q) /\ job[q].kind = "read"
        /\ w \in job[q].after
        /\ Replicas(w) = Replicas(q)
        /\ \A other \in Request \ {w} :
              \/ job[other].kind \in {"none", "read"}
              \/ Succeeds(other) /\ other \in job[w].after
     => result[q] # NoVersion /\ result[q].by = w

(* "Read-repair: push the latest version to stale replicas": a repair push *)
(* goes to a replica whose answer the pushed version compared above.       *)
RepairsGoToStaleReplicas ==
    \A call \in calls :
        call.from # NoRequest /\ job[call.from].kind = "read" =>
          LET answers == got[call.from]
          IN  /\ call.to \in DOMAIN answers
              /\ answers[call.to] # NoVersion
              /\ Compare(call.ver.clock, answers[call.to].clock) > 0

-----------------------------------------------------------------------------
(* Progress.  The engine runs local calls, and the fan-out timeout bounds  *)
(* the wait for remote ones.  Nothing is assumed of a clock fetch from     *)
(* another node: it has no deadline, and a peer may leave it unanswered.   *)
FetchesOwnClock(r) == phase[r] = "clock" /\ job[r].nodes[1] = job[r].coord

LocalClock(r) == FetchesOwnClock(r) /\ WriteClock(r)

LocalStep(r) ==
    \/ \E call \in CallsOf(r) :
          call.to = job[r].coord /\ (SetCheck(call) \/ WalAppend(call) \/ DbPut(call))
    \/ ReadReplica(r, job[r].coord)
    \/ LocalReadFails(r)

Fairness ==
    \A r \in Request :
        /\ WF_vars(LocalClock(r))
        /\ WF_vars(LocalStep(r))
        /\ WF_vars(MutationFinish(r))
        /\ WF_vars(ReadFinish(r))

FairSpec == Spec /\ Fairness

(* Every request that need not fetch its clock from another node, or has   *)
(* done so, is answered, whichever peers never are.                        *)
RequestsEnd ==
    \A r \in Request :
        phase[r] = "waiting" \/ FetchesOwnClock(r) ~> phase[r] \in {"ok", "failed"}
=============================================================================
