------------------------------- MODULE Gossip -------------------------------
(***************************************************************************)
(* Membership (internal/gossip/gossip.go): every node keeps a table of the *)
(* members it knows, sends it to some live peers over UDP, merges what it  *)
(* receives by generation, times silent members out, and hands joins and   *)
(* deaths through a bounded channel to the goroutine that maintains its    *)
(* hash ring (internal/node/app.go).  Nodes crash, restart, leave, and are *)
(* silenced and restored by the chaos switch.                              *)
(*                                                                         *)
(* Packets are lost, delayed and reordered; UDP's rare duplicates are not  *)
(* modelled.  LastSeen and its two thresholds are abstracted: a timeout is *)
(* a choice, and the fairness says which ones must happen.  Addresses do   *)
(* not change, and the events that packets also carry are left out.        *)
(***************************************************************************)
EXTENDS Integers, Sequences, FiniteSets, SequencesExt

CONSTANTS
    Node,
    Seeds,       \* for each node, the nodes it was configured to join
    Fanout,      \* how many peers a round of gossip addresses (3)
    Cap,         \* the capacity of the ring's channel (100)
    Hellos,      \* how often a starting node joins (4)
    Mortal,      \* the nodes that crash
    Leaving,     \* the nodes that are stopped in good order
    Killable,    \* the nodes whose chaos switch is used
    MaxGen,      \* bound: generations of a node
    MaxNet,      \* bound: packets in flight
    MaxLate      \* bound: timeouts of members that are running

ASSUME GossipAssumption ==
    /\ IsFiniteSet(Node)
    /\ Seeds \in [Node -> SUBSET Node]
    /\ {Fanout, Cap, Hellos, MaxGen, MaxNet, MaxLate} \subseteq Nat
    /\ Mortal \union Leaving \union Killable \subseteq Node

VARIABLES
    run,      \* of each node: up, crashed, left
    enabled,  \* the chaos switch
    table,    \* what each node holds of each node
    queue,    \* the channel to the ring, per node
    ring,     \* the nodes in each node's hash ring
    net,      \* packets in flight
    hellos,   \* the HELLO rounds each node has still to send
    late,     \* timeouts so far of members that were running
    lost,     \* history: the nodes that dropped a notification
    leaves    \* history: the generations under which nodes left

vars == <<run, enabled, table, queue, ring, net, hellos, late, lost, leaves>>

-----------------------------------------------------------------------------
Unknown == [state |-> "UNKNOWN", gen |-> 0]

Rec(state, gen) == [state |-> state, gen |-> gen]

(* A process that knows only itself.                                       *)
Fresh(p, state, gen) ==
    [q \in Node |-> IF q = p THEN Rec(state, gen) ELSE Unknown]

Talking(p) == run[p] = "up" /\ enabled[p]

Packet(p, q, members) == [from |-> p, to |-> q, members |-> members]

(* UDP loses any of the packets sent.                                      *)
Send(packets) ==
    \E arriving \in SUBSET packets :
        /\ net' = net \union arriving
        /\ Cardinality(net') <= MaxNet

(* join: a HELLO with the own record to every seed.                        *)
Join(p) ==
    /\ run[p] = "up" /\ hellos[p] > 0 /\ Seeds[p] # {}
    /\ hellos' = [hellos EXCEPT ![p] = @ - 1]
    /\ Send({Packet(p, q, [id \in {p} |-> table[p][p]]) : q \in Seeds[p]})
    /\ UNCHANGED <<run, enabled, table, queue, ring, late, lost, leaves>>

(* gossip: the whole table, to at most Fanout peers held to be alive.      *)
Known(members) == {q \in Node : members[q].state # "UNKNOWN"}

Targets(p) ==
    LET peers == {q \in Node \ {p} : table[p][q].state = "ALIVE"}
        count == IF Cardinality(peers) < Fanout THEN Cardinality(peers) ELSE Fanout
    IN  {T \in SUBSET peers : Cardinality(T) = count}

Sync(p, T, members) ==
    {Packet(p, q, [id \in Known(members) |-> members[id]]) : q \in T}

GossipTo(p, T) ==
    /\ Talking(p) /\ T \in Targets(p)
    /\ Send(Sync(p, T, table[p]))
    /\ UNCHANGED <<run, enabled, table, queue, ring, hellos, late, lost, leaves>>

-----------------------------------------------------------------------------
EventsOfNewcomers(old, new) ==
    {[id |-> q, join |-> TRUE] : q \in {n \in Node :
        old[n].state = "UNKNOWN" /\ new[n].state = "ALIVE"}}
    \union
    {[id |-> q, join |-> FALSE] : q \in {n \in Node :
        old[n].state \notin {"DEAD", "UNKNOWN"} /\ new[n].state = "DEAD"}}

(* notifyRing, for every member whose state a handler changed: it is never *)
(* blocked, and drops what the channel has no room for.  The table is a    *)
(* map, so the order is arbitrary.                                         *)
Events(old, new) ==
    {[id |-> q, join |-> TRUE] : q \in {n \in Node :
        old[n].state # "ALIVE" /\ new[n].state = "ALIVE"}}
    \union
    {[id |-> q, join |-> FALSE] : q \in {n \in Node :
        old[n].state \notin {"DEAD", "UNKNOWN"} /\ new[n].state = "DEAD"}}

Update(p, new) ==
    /\ table' = [table EXCEPT ![p] = new]
    /\ \E events \in SetToSeqs(Events(table[p], new)) :
         LET room  == Cap - Len(queue[p])
             taken == IF Len(events) <= room THEN events ELSE SubSeq(events, 1, room)
         IN  /\ queue' = [queue EXCEPT ![p] = @ \o taken]
             /\ lost' = IF taken = events THEN lost ELSE lost \union {p}

(* merge: a record is taken when its generation is newer, or when it comes *)
(* from the member itself, which is alive.  Its own record a node leaves   *)
(* alone.                                                                  *)
TakesNewer(p, from, q, theirs) ==
    q # p /\ theirs.gen > table[p][q].gen

Takes(p, from, q, theirs) ==
    /\ q # p
    /\ \/ theirs.gen > table[p][q].gen
       \/ theirs.gen = table[p][q].gen /\ q = from /\ theirs.state = "ALIVE"

Receive(packet) ==
    LET p == packet.to
        m == packet.members
    IN
    /\ net' = net \ {packet}
    /\ IF Talking(p)
       THEN Update(p, [q \in Node |->
              IF q \in DOMAIN m /\ Takes(p, packet.from, q, m[q]) THEN m[q]
              ELSE table[p][q]])
       ELSE UNCHANGED <<table, queue, lost>>
    /\ UNCHANGED <<run, enabled, ring, hellos, late, leaves>>

(* detectFailures, when the members in S are silent past their thresholds. *)
WatchedWithSelf(p) == {q \in Node : table[p][q].state \in {"ALIVE", "SUSPECT"}}

Watched(p) == {q \in Node \ {p} : table[p][q].state \in {"ALIVE", "SUSPECT"}}

DetectFailures(p, S) ==
    /\ run[p] = "up" /\ S # {} /\ S \subseteq Watched(p)
    /\ late' = late + Cardinality({q \in S : Talking(p) /\ Talking(q)})
    /\ late' <= MaxLate
    /\ Update(p, [q \in Node |->
         IF q \notin S THEN table[p][q]
         ELSE Rec(IF table[p][q].state = "ALIVE" THEN "SUSPECT" ELSE "DEAD",
                  table[p][q].gen)])
    /\ UNCHANGED <<run, enabled, ring, net, hellos, leaves>>

(* The goroutine of NewApp that reads the channel: AddNode, or RemoveNode. *)
AddOnly(members, e) == IF e.join THEN members \union {e.id} ELSE members

AddOrRemove(members, e) ==
    IF e.join THEN members \union {e.id} ELSE members \ {e.id}

RingEvent(p) ==
    /\ run[p] = "up" /\ queue[p] # <<>>
    /\ ring' = [ring EXCEPT ![p] = AddOrRemove(@, Head(queue[p]))]
    /\ queue' = [queue EXCEPT ![p] = Tail(@)]
    /\ UNCHANGED <<run, enabled, table, net, hellos, late, lost, leaves>>

-----------------------------------------------------------------------------
(* SetEnabled, from the chaos switch.                                      *)
Kill(p) ==
    /\ p \in Killable /\ Talking(p)
    /\ enabled' = [enabled EXCEPT ![p] = FALSE]
    /\ UNCHANGED <<run, table, queue, ring, net, hellos, late, lost, leaves>>

Restore(p) ==
    /\ run[p] = "up" /\ ~enabled[p] /\ table[p][p].gen < MaxGen
    /\ enabled' = [enabled EXCEPT ![p] = TRUE]
    /\ table' = [table EXCEPT ![p][p] = Rec(@.state, @.gen + 1)]
    /\ hellos' = [hellos EXCEPT ![p] = @ + 1]
    /\ UNCHANGED <<run, queue, ring, net, late, lost, leaves>>

(* The process ends, and with it everything it held in memory; the table   *)
(* keeps the last record it announced.                                     *)
End(p, how, self) ==
    /\ run' = [run EXCEPT ![p] = how]
    /\ enabled' = [enabled EXCEPT ![p] = TRUE]
    /\ table' = [table EXCEPT ![p] = Fresh(p, self.state, self.gen)]
    /\ queue' = [queue EXCEPT ![p] = <<>>]
    /\ ring' = [ring EXCEPT ![p] = {p}]
    /\ hellos' = [hellos EXCEPT ![p] = 0]
    /\ lost' = lost \ {p}
    /\ UNCHANGED late

(* Stop: a last round of gossip under a new generation.                    *)
SameGeneration(p) == table[p][p].gen

NextGeneration(p) == table[p][p].gen + 1

Stop(p) ==
    LET self == Rec("LEFT", NextGeneration(p))
    IN
    /\ p \in Leaving /\ run[p] = "up" /\ self.gen <= MaxGen
    /\ \E T \in Targets(p) : Send(Sync(p, T, [table[p] EXCEPT ![p] = self]))
    /\ leaves' = leaves \union {<<p, self.gen>>}
    /\ End(p, "left", self)

Crash(p) ==
    /\ p \in Mortal /\ run[p] = "up"
    /\ End(p, "crashed", table[p][p])
    /\ UNCHANGED <<net, leaves>>

(* A new process takes its generation from the clock, which is assumed to  *)
(* have moved on.                                                          *)
Restart(p) ==
    /\ run[p] # "up" /\ table[p][p].gen < MaxGen
    /\ run' = [run EXCEPT ![p] = "up"]
    /\ table' = [table EXCEPT ![p] = Fresh(p, "ALIVE", table[p][p].gen + 1)]
    /\ hellos' = [hellos EXCEPT ![p] = Hellos]
    /\ UNCHANGED <<enabled, queue, ring, net, late, lost, leaves>>

-----------------------------------------------------------------------------
Init ==
    /\ run = [p \in Node |-> "up"]
    /\ enabled = [p \in Node |-> TRUE]
    /\ table = [p \in Node |-> Fresh(p, "ALIVE", 1)]
    /\ queue = [p \in Node |-> <<>>]
    /\ ring = [p \in Node |-> {p}]
    /\ net = {}
    /\ hellos = [p \in Node |-> Hellos]
    /\ late = 0
    /\ lost = {}
    /\ leaves = {}

Next ==
    \/ \E p \in Node :
         \/ Join(p)
         \/ \E T \in SUBSET Node : GossipTo(p, T) \/ DetectFailures(p, T)
         \/ RingEvent(p)
         \/ Kill(p)
         \/ Restore(p)
         \/ Stop(p)
         \/ Crash(p)
         \/ Restart(p)
    \/ \E packet \in net : Receive(packet)

Spec == Init /\ [][Next]_vars
-----------------------------------------------------------------------------
(* Correctness.                                                            *)

States == {"UNKNOWN", "ALIVE", "SUSPECT", "DEAD", "LEFT"}

Records == [state : States, gen : Nat]

ProcessesOK ==
    /\ run \in [Node -> {"up", "crashed", "left"}]
    /\ enabled \in [Node -> BOOLEAN]
    /\ hellos \in [Node -> Nat] /\ late \in 0 .. MaxLate
    /\ lost \subseteq Node /\ leaves \subseteq Node \X Nat

TablesOK ==
    /\ table \in [Node -> [Node -> Records]]
    /\ \A p \in Node : run[p] = "up" => table[p][p].state = "ALIVE"

QueuesOK ==
    /\ DOMAIN queue = Node
    /\ \A p \in Node : /\ queue[p] \in Seq([id : Node \ {p}, join : BOOLEAN])
                       /\ Len(queue[p]) <= Cap

RingsOK ==
    /\ ring \in [Node -> SUBSET Node]
    /\ \A p \in Node : p \in ring[p]

NetOK ==
    \A packet \in net :
        /\ packet.from \in Node /\ packet.to \in Node
        /\ DOMAIN packet.members \subseteq Node
        /\ \A q \in DOMAIN packet.members : packet.members[q] \in Records

(* Types; a node that runs holds itself alive and keeps itself in its      *)
(* ring, whatever its peers say of it.                                     *)
TypeOK == ProcessesOK /\ TablesOK /\ QueuesOK /\ RingsOK /\ NetOK

(* Whether q is in the ring of p once the channel is empty.                *)
WillHold(p, q) ==
    \/ /\ q \in ring[p]
       /\ \A i \in DOMAIN queue[p] : queue[p][i].id # q
    \/ \E i \in DOMAIN queue[p] :
          /\ queue[p][i] = [id |-> q, join |-> TRUE]
          /\ \A j \in DOMAIN queue[p] : j > i => queue[p][j].id # q

(* The ring follows the table, through whatever sequence of suspicions,    *)
(* deaths, returns and restarts: a node that dropped no notification has,  *)
(* or will have once it empties its channel, every live member in its ring *)
(* and no dead one.                                                        *)
RingFollowsMembers ==
    \A p \in Node \ lost : run[p] = "up" =>
        \A q \in Node \ {p} :
          /\ table[p][q].state = "ALIVE" => WillHold(p, q)
          /\ table[p][q].state \in {"DEAD", "UNKNOWN"} => ~WillHold(p, q)

Held(q) ==
    {table[p][q] : p \in Node} \union
      {packet.members[q] : packet \in {m \in net : q \in DOMAIN m.members}}

(* What any node or packet says of a member, the member once announced: no *)
(* generation is newer than its own, and it is held to have left under     *)
(* exactly the generations under which it left.                            *)
RecordsWereAnnounced ==
    \A q \in Node : \A r \in Held(q) \ {Unknown} :
        /\ r.gen <= table[q][q].gen
        /\ (r.state = "LEFT") <=> (<<q, r.gen>> \in leaves)

-----------------------------------------------------------------------------
(* Fairness: the tickers and the reader of the channel run; a packet is    *)
(* received in the end, and of those a node keeps sending some arrive; a   *)
(* member that is silent for good is timed out.                            *)
Arrives(p, q) ==
    \E T \in SUBSET Node :
        /\ q \in T /\ GossipTo(p, T)
        /\ \E m \in net' : m.from = p /\ m.to = q

TimesOut(p, q) ==
    /\ ~Talking(q)
    /\ \E S \in SUBSET Node : q \in S /\ DetectFailures(p, S)

Fairness ==
    \A p \in Node :
        /\ WF_vars(RingEvent(p))
        /\ WF_vars(Join(p))
        /\ \A q \in Node \ {p} :
              /\ SF_vars(Arrives(p, q))
              /\ WF_vars(\E m \in net : m.to = q /\ m.from = p /\ Receive(m))
              /\ WF_vars(TimesOut(p, q))

FairSpec == Spec /\ Fairness

(* A node that crashed for good is in the end out of the ring of every     *)
(* node that stays up and dropped no notification.  The exception is a     *)
(* node that keeps it as having left (it left, came back, and crashed      *)
(* before it was heard of again): only ALIVE and SUSPECT members are       *)
(* watched, so the ring keeps what a LEFT record left in it.               *)
CrashedNodesLeaveRings ==
    \A p, q \in Node : p # q =>
        (<>[](/\ run[p] = "up" /\ p \notin lost /\ run[q] = "crashed"
              /\ table[p][q].state # "LEFT")
           => <>[](q \notin ring[p]))

(* A member that hears from me hears that I am alive: once q keeps p in    *)
(* its table as alive, p does not hold q for suspect or dead for ever,     *)
(* whatever it held before ("healed by direct heartbeat").                 *)
HeartbeatsHeal ==
    \A p, q \in Node : p # q =>
        (<>[](Talking(p) /\ Talking(q) /\ table[q][p].state = "ALIVE")
           => []<>(table[p][q].state = "ALIVE"))

(* The README's demonstration: after "docker-compose stop node3" the other *)
(* nodes see it as SUSPECT, then DEAD, "instantly updating their relative  *)
(* internal HashRings".                                                    *)
StoppedNodesLeaveRings ==
    \A p, q \in Node : p # q =>
        (<>[](run[p] = "up" /\ p \notin lost /\ run[q] = "left")
           => <>[](q \notin ring[p]))

(* "This ensures everyone eventually agrees on the cluster's health": when *)
(* a cluster that had formed loses packets for a while, and all nodes are  *)
(* up and stay so, all hold all to be alive again in the end.              *)
EveryoneAgrees ==
    LET formed == \A p, q \in Node : table[p][q].state = "ALIVE"
    IN  <>formed /\ <>[](\A p \in Node : Talking(p)) => <>[]formed
=============================================================================
