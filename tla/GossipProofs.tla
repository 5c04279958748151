---------------------------- MODULE GossipProofs ----------------------------
(***************************************************************************)
(* Proofs about module Gossip, for any number of nodes, any seeds, fanout  *)
(* and capacity of the channel, and any faults.                            *)
(***************************************************************************)
EXTENDS Gossip, FiniteSetTheorems, TLAPS

(* RecordsWereAnnounced, said of one record, of the tables, and of the     *)
(* packets; and no node left under a generation it has not reached.        *)
Says(q, r, own, left) ==
    r # Unknown => /\ r.gen <= own
                   /\ (r.state = "LEFT") <=> (<<q, r.gen>> \in left)

Announced(q, r) == Says(q, r, table[q][q].gen, leaves)

TablesSay == \A p, q \in Node : Announced(q, table[p][q])

NetSays ==
    \A packet \in net : \A q \in DOMAIN packet.members :
        Announced(q, packet.members[q])

LeavesSay == \A q \in Node, g \in Nat : <<q, g>> \in leaves => g <= table[q][q].gen

HistoryInv == TablesSay /\ NetSays /\ LeavesSay

-----------------------------------------------------------------------------
(* Lemmas on the operators.                                                *)

LEMMA Constants ==
    /\ IsFiniteSet(Node) /\ Seeds \in [Node -> SUBSET Node]
    /\ Cap \in Nat /\ Hellos \in Nat /\ MaxGen \in Nat /\ MaxLate \in Nat
  BY GossipAssumption

LEMMA RecordTypes ==
    /\ Unknown \in Records
    /\ \A s \in States, g \in Nat : Rec(s, g) \in Records
    /\ \A s, g : Rec(s, g).state = s /\ Rec(s, g).gen = g
    /\ \A r \in Records : r = Rec(r.state, r.gen)
  BY DEF Unknown, Rec, Records, States

LEMMA FreshType ==
    ASSUME NEW p \in Node, NEW s \in States, NEW g \in Nat
    PROVE  /\ Fresh(p, s, g) \in [Node -> Records]
           /\ Fresh(p, s, g)[p] = Rec(s, g)
           /\ \A q \in Node \ {p} : Fresh(p, s, g)[q] = Unknown
  BY RecordTypes DEF Fresh

(* Handlers notify the ring of other members only, of finitely many.       *)
LEMMA EventsType ==
    ASSUME NEW p \in Node, NEW old \in [Node -> Records], NEW new \in [Node -> Records],
           new[p] = old[p]
    PROVE  /\ Events(old, new) \subseteq [id : Node \ {p}, join : BOOLEAN]
           /\ IsFiniteSet(Events(old, new))
  <1> DEFINE Joins == {n \in Node : old[n].state # "ALIVE" /\ new[n].state = "ALIVE"}
             Deaths == {n \in Node : old[n].state \notin {"DEAD", "UNKNOWN"}
                                       /\ new[n].state = "DEAD"}
             JoinEvents == {[id |-> q, join |-> TRUE] : q \in Joins}
             DeathEvents == {[id |-> q, join |-> FALSE] : q \in Deaths}
  <1>1. Events(old, new) = JoinEvents \union DeathEvents
    BY DEF Events
  <1>2. Joins \subseteq Node \ {p} /\ Deaths \subseteq Node \ {p}
    OBVIOUS
  <1>3. IsFiniteSet(Joins) /\ IsFiniteSet(Deaths)
    BY Constants, FS_Subset
  <1> HIDE DEF Joins, Deaths
  <1>4. JoinEvents \union DeathEvents \subseteq [id : Node \ {p}, join : BOOLEAN]
    <2>1. \A q \in Node \ {p}, b \in BOOLEAN :
            [id |-> q, join |-> b] \in [id : Node \ {p}, join : BOOLEAN]
      OBVIOUS
    <2>2. \A e \in JoinEvents : e \in [id : Node \ {p}, join : BOOLEAN]
      <3> TAKE e \in JoinEvents
      <3>1. PICK q \in Joins : e = [id |-> q, join |-> TRUE]
        OBVIOUS
      <3>2. q \in Node \ {p}
        BY <1>2
      <3>3. [id |-> q, join |-> TRUE] \in [id : Node \ {p}, join : BOOLEAN]
        BY <2>1, <3>2
      <3> QED  BY <3>1, <3>3
    <2>3. \A e \in DeathEvents : e \in [id : Node \ {p}, join : BOOLEAN]
      <3> TAKE e \in DeathEvents
      <3>1. PICK q \in Deaths : e = [id |-> q, join |-> FALSE]
        OBVIOUS
      <3>2. q \in Node \ {p}
        BY <1>2
      <3>3. [id |-> q, join |-> FALSE] \in [id : Node \ {p}, join : BOOLEAN]
        BY <2>1, <3>2
      <3> QED  BY <3>1, <3>3
    <2> HIDE DEF JoinEvents, DeathEvents
    <2> QED  BY <2>2, <2>3
  <1>5. IsFiniteSet(JoinEvents)
    <2> DEFINE f == [q \in Joins |-> [id |-> q, join |-> TRUE]]
    <2>1. f \in Surjection(Joins, JoinEvents)
      BY DEF Surjection
    <2> HIDE DEF JoinEvents, f
    <2> QED  BY <1>3, <2>1, FS_Surjection
  <1>6. IsFiniteSet(DeathEvents)
    <2> DEFINE f == [q \in Deaths |-> [id |-> q, join |-> FALSE]]
    <2>1. f \in Surjection(Deaths, DeathEvents)
      BY DEF Surjection
    <2> HIDE DEF DeathEvents, f
    <2> QED  BY <1>3, <2>1, FS_Surjection
  <1> HIDE DEF JoinEvents, DeathEvents
  <1> QED  BY <1>1, <1>4, <1>5, <1>6, FS_Union

(* Notifying the ring.                                                     *)
LEMMA UpdateTypes ==
    ASSUME TablesOK, QueuesOK, lost \subseteq Node,
           NEW p \in Node, NEW new \in [Node -> Records], new[p] = table[p][p],
           Update(p, new)
    PROVE  /\ table' = [table EXCEPT ![p] = new]
           /\ QueuesOK' /\ lost' \subseteq Node
  <1> DEFINE E == Events(table[p], new)
             Event == [id : Node \ {p}, join : BOOLEAN]
             room == Cap - Len(queue[p])
             Taken(events) == IF Len(events) <= room THEN events ELSE SubSeq(events, 1, room)
  <1>1. E \subseteq Event /\ Cardinality(E) \in Nat
    BY EventsType, FS_CardinalityType DEF TablesOK
  <1>2. PICK events \in SetToSeqs(E) :
          /\ queue' = [queue EXCEPT ![p] = @ \o Taken(events)]
          /\ lost' = IF Taken(events) = events THEN lost ELSE lost \union {p}
    BY DEF Update
  <1>3. events \in Seq(Event)
    <2>1. events \in [1 .. Cardinality(E) -> E]
      BY DEF SetToSeqs
    <2> HIDE DEF E, Event
    <2> QED  BY <1>1, <2>1
  <1>4. queue[p] \in Seq(Event) /\ room \in Nat
    BY Constants DEF QueuesOK
  <1>5. Taken(events) \in Seq(Event) /\ Len(Taken(events)) <= room
    <2> HIDE DEF Event, room
    <2> QED  BY <1>3, <1>4
  <1>6. queue[p] \o Taken(events) \in Seq(Event) /\ Len(queue[p] \o Taken(events)) <= Cap
    <2> HIDE DEF Event, Taken
    <2> QED  BY <1>4, <1>5, Constants
  <1>7. QueuesOK'
    <2> HIDE DEF Event, Taken
    <2>1. DOMAIN queue' = Node /\ \A q \in Node : q # p => queue'[q] = queue[q]
      BY <1>2 DEF QueuesOK
    <2>2. queue'[p] = queue[p] \o Taken(events)
      BY <1>2 DEF QueuesOK
    <2> USE DEF Event
    <2> QED  BY <1>6, <2>1, <2>2 DEF QueuesOK
  <1> QED  BY <1>2, <1>7 DEF Update

(* Packets with records that are fit to be sent.                           *)
LEMMA SendTypes ==
    ASSUME NetOK, NEW packets, Send(packets),
           \A packet \in packets :
              /\ packet.from \in Node /\ packet.to \in Node
              /\ DOMAIN packet.members \subseteq Node
              /\ \A q \in DOMAIN packet.members : packet.members[q] \in Records
    PROVE  NetOK'
  BY DEF Send, NetOK

LEMMA SyncTypes ==
    ASSUME NEW p \in Node, NEW T, NEW members
    PROVE  \A packet \in Sync(p, T, members) :
             /\ packet.from = p /\ packet.to \in T
             /\ DOMAIN packet.members \subseteq Node
             /\ \A q \in DOMAIN packet.members : packet.members[q] = members[q]
  <1> TAKE packet \in Sync(p, T, members)
  <1>1. PICK q \in T : packet = Packet(p, q, [id \in Known(members) |-> members[id]])
    BY DEF Sync
  <1>2. Known(members) \subseteq Node
    BY DEF Known
  <1> QED  BY <1>1, <1>2 DEF Packet

LEMMA TargetTypes ==
    ASSUME NEW p \in Node, NEW T \in Targets(p)
    PROVE  T \subseteq Node \ {p}
  BY DEF Targets

-----------------------------------------------------------------------------
(* Type correctness: one lemma per action.                                 *)

LEMMA InitTypes == Init => TypeOK
  <1> SUFFICES ASSUME Init PROVE TypeOK
    OBVIOUS
  <1>1. ProcessesOK
    BY Constants DEF Init, ProcessesOK
  <1>2. TablesOK
    BY FreshType, RecordTypes DEF Init, TablesOK, States
  <1>3. QueuesOK
    BY Constants DEF Init, QueuesOK
  <1>4. RingsOK /\ NetOK
    BY DEF Init, RingsOK, NetOK
  <1> QED  BY <1>1, <1>2, <1>3, <1>4 DEF TypeOK

LEMMA JoinTypes ==
    ASSUME TypeOK, NEW p \in Node, Join(p)
    PROVE  TypeOK'
  <1>1. ProcessesOK'
    BY DEF TypeOK, Join, ProcessesOK
  <1>2. TablesOK' /\ QueuesOK' /\ RingsOK'
    BY DEF TypeOK, Join, TablesOK, QueuesOK, RingsOK
  <1>3. NetOK'
    <2> DEFINE packets == {Packet(p, q, [id \in {p} |-> table[p][p]]) : q \in Seeds[p]}
    <2>1. Seeds[p] \subseteq Node /\ table[p][p] \in Records
      BY Constants DEF TypeOK, TablesOK
    <2>2. \A packet \in packets :
             /\ packet.from \in Node /\ packet.to \in Node
             /\ DOMAIN packet.members \subseteq Node
             /\ \A q \in DOMAIN packet.members : packet.members[q] \in Records
      BY <2>1 DEF Packet
    <2>3. NetOK /\ Send(packets)
      BY DEF TypeOK, Join
    <2> HIDE DEF packets
    <2> QED  BY <2>2, <2>3, SendTypes
  <1> QED  BY <1>1, <1>2, <1>3 DEF TypeOK

(* A round of gossip, with the table as it is or with a new own record.    *)
LEMMA RoundTypes ==
    ASSUME NetOK, NEW p \in Node, NEW T \in Targets(p),
           NEW members \in [Node -> Records], Send(Sync(p, T, members))
    PROVE  NetOK'
  <1>1. T \subseteq Node
    BY TargetTypes
  <1>2. \A packet \in Sync(p, T, members) :
           /\ packet.from \in Node /\ packet.to \in Node
           /\ DOMAIN packet.members \subseteq Node
           /\ \A q \in DOMAIN packet.members : packet.members[q] \in Records
    <2> TAKE packet \in Sync(p, T, members)
    <2>1. /\ packet.from = p /\ packet.to \in T
          /\ DOMAIN packet.members \subseteq Node
          /\ \A q \in DOMAIN packet.members : packet.members[q] = members[q]
      BY <1>1, SyncTypes
    <2> QED  BY <1>1, <2>1
  <1> QED  BY <1>2, SendTypes

LEMMA GossipToTypes ==
    ASSUME TypeOK, NEW p \in Node, NEW T, GossipTo(p, T)
    PROVE  TypeOK'
  <1>1. ProcessesOK' /\ TablesOK' /\ QueuesOK' /\ RingsOK'
    BY DEF TypeOK, GossipTo, ProcessesOK, TablesOK, QueuesOK, RingsOK
  <1>2. NetOK'
    BY RoundTypes DEF TypeOK, GossipTo, TablesOK
  <1> QED  BY <1>1, <1>2 DEF TypeOK

(* A handler that changes records of others keeps the types.               *)
LEMMA UpdateKeepsTables ==
    ASSUME TablesOK, run' = run, NEW p \in Node, NEW new \in [Node -> Records],
           new[p] = table[p][p], table' = [table EXCEPT ![p] = new]
    PROVE  TablesOK'
  BY DEF TablesOK

LEMMA ReceiveTypes ==
    ASSUME TypeOK, NEW packet \in net, Receive(packet)
    PROVE  TypeOK'
  <1> DEFINE p == packet.to
             m == packet.members
             new == [q \in Node |->
                IF q \in DOMAIN m /\ Takes(p, packet.from, q, m[q]) THEN m[q]
                ELSE table[p][q]]
  <1>1. p \in Node /\ \A q \in DOMAIN m : m[q] \in Records
    BY DEF TypeOK, NetOK
  <1>2. new \in [Node -> Records] /\ new[p] = table[p][p]
    BY <1>1 DEF TypeOK, TablesOK, Takes
  <1>3. RingsOK' /\ NetOK' /\ run' = run
    BY DEF TypeOK, Receive, RingsOK, NetOK
  <1>4. CASE Talking(p)
    <2>1. Update(p, new)
      BY <1>4 DEF Receive
    <2>2. TablesOK /\ QueuesOK /\ lost \subseteq Node
      BY DEF TypeOK, ProcessesOK
    <2> HIDE DEF new, p
    <2>3. table' = [table EXCEPT ![p] = new] /\ QueuesOK' /\ lost' \subseteq Node
      BY <1>1, <1>2, <2>1, <2>2, UpdateTypes
    <2>4. ProcessesOK'
      BY <2>3 DEF TypeOK, Receive, ProcessesOK
    <2>5. TablesOK'
      BY <1>1, <1>2, <1>3, <2>2, <2>3, UpdateKeepsTables
    <2> QED  BY <1>3, <2>3, <2>4, <2>5 DEF TypeOK
  <1>5. CASE ~Talking(p)
    <2>1. ProcessesOK' /\ TablesOK' /\ QueuesOK'
      BY <1>5 DEF TypeOK, Receive, ProcessesOK, TablesOK, QueuesOK
    <2> QED  BY <1>3, <2>1 DEF TypeOK
  <1> QED  BY <1>4, <1>5

(* What detectFailures makes of a record.                                  *)
Silent(p, S) ==
    [q \in Node |->
       IF q \notin S THEN table[p][q]
       ELSE Rec(IF table[p][q].state = "ALIVE" THEN "SUSPECT" ELSE "DEAD",
                table[p][q].gen)]

LEMMA SilentType ==
    ASSUME TablesOK, NEW p \in Node, NEW S, S \subseteq Watched(p)
    PROVE  Silent(p, S) \in [Node -> Records] /\ Silent(p, S)[p] = table[p][p]
  <1>1. p \notin S
    BY DEF Watched
  <1>2. \A q \in Node : Rec(IF table[p][q].state = "ALIVE" THEN "SUSPECT" ELSE "DEAD",
                            table[p][q].gen) \in Records
    BY DEF TablesOK, Rec, Records, States
  <1> QED  BY <1>1, <1>2 DEF Silent, TablesOK

LEMMA DetectFailuresTypes ==
    ASSUME TypeOK, NEW p \in Node, NEW S, DetectFailures(p, S)
    PROVE  TypeOK'
  <1>1. TablesOK /\ QueuesOK /\ lost \subseteq Node
    BY DEF TypeOK, ProcessesOK
  <1>2. Update(p, Silent(p, S)) /\ S \subseteq Watched(p) /\ run' = run
    BY DEF DetectFailures, Silent
  <1>3. Silent(p, S) \in [Node -> Records] /\ Silent(p, S)[p] = table[p][p]
    BY <1>1, <1>2, SilentType
  <1>4. table' = [table EXCEPT ![p] = Silent(p, S)] /\ QueuesOK' /\ lost' \subseteq Node
    BY <1>1, <1>2, <1>3, UpdateTypes
  <1>5. late' \in 0 .. MaxLate
    <2> DEFINE wrong == {q \in S : Talking(p) /\ Talking(q)}
    <2>1. wrong \subseteq Node
      BY <1>2 DEF Watched
    <2>2. IsFiniteSet(wrong)
      BY <2>1, Constants, FS_Subset
    <2>3. Cardinality(wrong) \in Nat
      BY <2>2, FS_CardinalityType
    <2>4. late' = late + Cardinality(wrong) /\ late' <= MaxLate /\ late \in Nat
      BY DEF DetectFailures, TypeOK, ProcessesOK
    <2> QED  BY <2>3, <2>4, Constants
  <1>6. ProcessesOK'
    BY <1>4, <1>5 DEF TypeOK, DetectFailures, ProcessesOK
  <1>7. TablesOK'
    BY <1>1, <1>2, <1>3, <1>4, UpdateKeepsTables
  <1>8. RingsOK' /\ NetOK'
    BY DEF TypeOK, DetectFailures, RingsOK, NetOK
  <1> QED  BY <1>4, <1>6, <1>7, <1>8 DEF TypeOK

LEMMA RingEventTypes ==
    ASSUME TypeOK, NEW p \in Node, RingEvent(p)
    PROVE  TypeOK'
  <1> DEFINE Event == [id : Node \ {p}, join : BOOLEAN]
  <1>1. queue[p] \in Seq(Event) /\ queue[p] # <<>> /\ Len(queue[p]) <= Cap
    BY DEF TypeOK, QueuesOK, RingEvent
  <1>2. Head(queue[p]) \in Event
    <2> HIDE DEF Event
    <2> QED  BY <1>1
  <1>3. Tail(queue[p]) \in Seq(Event) /\ Len(Tail(queue[p])) <= Cap
    <2> HIDE DEF Event
    <2> QED  BY <1>1, Constants
  <1>4. Head(queue[p]).id \in Node \ {p}
    BY <1>2
  <1>5. RingsOK'
    BY <1>4 DEF TypeOK, RingsOK, RingEvent, AddOrRemove
  <1>6. QueuesOK'
    <2>1. DOMAIN queue' = Node /\ \A q \in Node : q # p => queue'[q] = queue[q]
      BY DEF TypeOK, QueuesOK, RingEvent
    <2>2. queue'[p] = Tail(queue[p])
      BY DEF TypeOK, QueuesOK, RingEvent
    <2> QED  BY <1>3, <2>1, <2>2 DEF TypeOK, QueuesOK
  <1>7. ProcessesOK' /\ TablesOK' /\ NetOK'
    BY DEF TypeOK, RingEvent, ProcessesOK, TablesOK, NetOK
  <1> QED  BY <1>5, <1>6, <1>7 DEF TypeOK

LEMMA KillTypes ==
    ASSUME TypeOK, NEW p \in Node, Kill(p)
    PROVE  TypeOK'
  BY DEF TypeOK, Kill, ProcessesOK, TablesOK, QueuesOK, RingsOK, NetOK

LEMMA RestoreTypes ==
    ASSUME TypeOK, NEW p \in Node, Restore(p)
    PROVE  TypeOK' /\ table'[p][p] = Rec("ALIVE", table[p][p].gen + 1)
  <1> DEFINE own == Rec(table[p][p].state, table[p][p].gen + 1)
  <1>1. table[p] \in [Node -> Records] /\ table[p][p].gen \in Nat /\ table[p][p].state = "ALIVE"
    BY DEF TypeOK, TablesOK, Restore, Records
  <1>2. own \in Records /\ own.state = "ALIVE"
    BY <1>1, RecordTypes DEF States
  <1>3. table' = [table EXCEPT ![p] = [table[p] EXCEPT ![p] = own]]
    BY DEF Restore
  <1> HIDE DEF own
  <1>4. /\ \A q \in Node : q # p => table'[q] = table[q]
        /\ table'[p] \in [Node -> Records] /\ table'[p][p] = own
        /\ table' \in [Node -> [Node -> Records]]
    BY <1>1, <1>2, <1>3 DEF TypeOK, TablesOK
  <1>5. TablesOK'
    BY <1>2, <1>4 DEF TypeOK, TablesOK, Restore
  <1>6. ProcessesOK'
    BY DEF TypeOK, Restore, ProcessesOK
  <1>7. QueuesOK' /\ RingsOK' /\ NetOK'
    BY DEF TypeOK, Restore, QueuesOK, RingsOK, NetOK
  <1> QED  BY <1>1, <1>4, <1>5, <1>6, <1>7 DEF TypeOK, own

(* The end of a process and its new table.                                 *)
LEMMA EndTypes ==
    ASSUME TypeOK, NEW p \in Node, NEW how \in {"crashed", "left"},
           NEW self \in Records, End(p, how, self), leaves' \subseteq Node \X Nat, NetOK'
    PROVE  TypeOK' /\ table' = [table EXCEPT ![p] = Fresh(p, self.state, self.gen)]
  <1>1. self.state \in States /\ self.gen \in Nat
    BY DEF Records
  <1>2. Fresh(p, self.state, self.gen) \in [Node -> Records]
    BY <1>1, FreshType
  <1>3. table' = [table EXCEPT ![p] = Fresh(p, self.state, self.gen)] /\ run' = [run EXCEPT ![p] = how]
    BY DEF End
  <1>4. TablesOK'
    <2> DEFINE new == Fresh(p, self.state, self.gen)
    <2> HIDE DEF new
    <2>1. table' \in [Node -> [Node -> Records]] /\ \A q \in Node \ {p} : table'[q] = table[q]
      BY <1>2, <1>3 DEF TypeOK, TablesOK, new
    <2>2. run'[p] # "up" /\ \A q \in Node \ {p} : run'[q] = run[q]
      BY <1>3 DEF TypeOK, ProcessesOK
    <2> QED  BY <2>1, <2>2 DEF TypeOK, TablesOK
  <1>5. QueuesOK'
    BY Constants DEF TypeOK, QueuesOK, End
  <1>6. ProcessesOK'
    BY Constants DEF TypeOK, ProcessesOK, End
  <1>7. RingsOK'
    BY DEF TypeOK, RingsOK, End
  <1> QED  BY <1>3, <1>4, <1>5, <1>6, <1>7 DEF TypeOK

(* The record a stopping node announces.                                   *)
Farewell(p) == Rec("LEFT", table[p][p].gen + 1)

LEMMA StopTypes ==
    ASSUME TypeOK, NEW p \in Node, Stop(p)
    PROVE  /\ TypeOK'
           /\ table' = [table EXCEPT ![p] = Fresh(p, "LEFT", table[p][p].gen + 1)]
           /\ leaves' = leaves \union {<<p, table[p][p].gen + 1>>}
           /\ \E T \in Targets(p) : Send(Sync(p, T, [table[p] EXCEPT ![p] = Farewell(p)]))
  <1>1. table[p] \in [Node -> Records] /\ table[p][p].gen \in Nat
    BY DEF TypeOK, TablesOK, Records
  <1>2. /\ Farewell(p) \in Records
        /\ Farewell(p).state = "LEFT" /\ Farewell(p).gen = table[p][p].gen + 1
    BY <1>1, RecordTypes DEF Farewell, States
  <1>3. /\ \E T \in Targets(p) : Send(Sync(p, T, [table[p] EXCEPT ![p] = Farewell(p)]))
        /\ leaves' = leaves \union {<<p, Farewell(p).gen>>}
        /\ End(p, "left", Farewell(p))
    BY DEF Stop, Farewell, NextGeneration
  <1>4. [table[p] EXCEPT ![p] = Farewell(p)] \in [Node -> Records]
    BY <1>1, <1>2
  <1>5. NetOK'
    BY <1>3, <1>4, RoundTypes DEF TypeOK
  <1>6. leaves' \subseteq Node \X Nat
    BY <1>1, <1>2, <1>3 DEF TypeOK, ProcessesOK
  <1> QED  BY <1>2, <1>3, <1>5, <1>6, EndTypes

LEMMA CrashTypes ==
    ASSUME TypeOK, NEW p \in Node, Crash(p)
    PROVE  /\ TypeOK'
           /\ table' = [table EXCEPT ![p] =
                 Fresh(p, table[p][p].state, table[p][p].gen)]
  <1>1. table[p][p] \in Records /\ leaves' \subseteq Node \X Nat
    BY DEF TypeOK, TablesOK, ProcessesOK, Crash
  <1>2. NetOK'
    BY DEF TypeOK, NetOK, Crash
  <1> QED  BY <1>1, <1>2, EndTypes DEF Crash

LEMMA RestartTypes ==
    ASSUME TypeOK, NEW p \in Node, Restart(p)
    PROVE  TypeOK'
  <1>1. table[p][p].gen + 1 \in Nat
    BY DEF TypeOK, TablesOK, Records
  <1>2. /\ Fresh(p, "ALIVE", table[p][p].gen + 1) \in [Node -> Records]
        /\ Fresh(p, "ALIVE", table[p][p].gen + 1)[p].state = "ALIVE"
    BY <1>1, FreshType, RecordTypes DEF States
  <1>3. TablesOK'
    BY <1>2 DEF TypeOK, TablesOK, Restart
  <1>4. ProcessesOK'
    BY Constants DEF TypeOK, ProcessesOK, Restart
  <1>5. QueuesOK' /\ RingsOK' /\ NetOK'
    BY DEF TypeOK, QueuesOK, RingsOK, NetOK, Restart
  <1> QED  BY <1>3, <1>4, <1>5 DEF TypeOK

-----------------------------------------------------------------------------
(* Announced records: one lemma per action.                                *)

(* A handler of p changes no own record but that of p, and that one only   *)
(* to a newer generation; it records that p left only under that one.      *)
Grows(p) ==
    /\ \A q \in Node \ {p} : table'[q][q] = table[q][q]
    /\ \/ table'[p][p].gen = table[p][p].gen /\ leaves' = leaves
       \/ /\ table'[p][p].gen > table[p][p].gen
          /\ leaves' \in {leaves, leaves \union {<<p, table'[p][p].gen>>}}

LEMMA StillSays ==
    ASSUME TypeOK, TypeOK', NEW p \in Node, Grows(p)
    PROVE  \A q \in Node, r \in Records :
             Says(q, r, table[q][q].gen, leaves) => Says(q, r, table'[q][q].gen, leaves')
  <1>1. \A q \in Node : table[q][q].gen \in Nat /\ table'[q][q].gen \in Nat
    BY DEF TypeOK, TablesOK, Records
  <1>2. \A q \in Node : table[q][q].gen <= table'[q][q].gen
    BY <1>1 DEF Grows
  <1>3. \A q \in Node, g \in Nat : g <= table[q][q].gen =>
           (<<q, g>> \in leaves <=> <<q, g>> \in leaves')
    BY <1>1 DEF Grows
  <1> TAKE q \in Node, r \in Records
  <1>4. r.gen \in Nat
    BY DEF Records
  <1> QED  BY <1>1, <1>2, <1>3, <1>4 DEF Says

LEMMA StillLeft ==
    ASSUME TypeOK, TypeOK', NEW p \in Node, Grows(p), LeavesSay
    PROVE  LeavesSay'
  <1>1. \A q \in Node : table[q][q].gen \in Nat /\ table'[q][q].gen \in Nat
    BY DEF TypeOK, TablesOK, Records
  <1> SUFFICES ASSUME NEW q \in Node, NEW g \in Nat, <<q, g>> \in leaves'
               PROVE  g <= table'[q][q].gen
    BY DEF LeavesSay
  <1>2. CASE <<q, g>> \in leaves
    BY <1>1, <1>2 DEF LeavesSay, Grows
  <1>3. CASE <<q, g>> \notin leaves
    BY <1>1, <1>3 DEF Grows
  <1> QED  BY <1>2, <1>3

(* Tables: every record of p is one that was announced, before or now.     *)
LEMMA StillTables ==
    ASSUME TypeOK, TypeOK', TablesSay, NEW p \in Node, Grows(p),
           \A q \in Node \ {p} : table'[q] = table[q],
           \A q \in Node : \/ Says(q, table'[p][q], table[q][q].gen, leaves)
                          \/ Says(q, table'[p][q], table'[q][q].gen, leaves')
    PROVE  TablesSay'
  <1>1. \A q \in Node, r \in Records :
          Says(q, r, table[q][q].gen, leaves) => Says(q, r, table'[q][q].gen, leaves')
    BY StillSays
  <1>2. \A a, q \in Node : table[a][q] \in Records /\ table'[a][q] \in Records
    BY DEF TypeOK, TablesOK
  <1> SUFFICES ASSUME NEW a \in Node, NEW q \in Node
               PROVE  Says(q, table'[a][q], table'[q][q].gen, leaves')
    BY DEF TablesSay, Announced
  <1>3. CASE a = p
    BY <1>1, <1>2, <1>3
  <1>4. CASE a # p
    <2>1. Says(q, table[a][q], table[q][q].gen, leaves) /\ table'[a][q] = table[a][q]
      BY <1>4 DEF TablesSay, Announced
    <2> QED  BY <1>1, <1>2, <2>1
  <1> QED  BY <1>3, <1>4

LEMMA StillNet ==
    ASSUME TypeOK, TypeOK', NetSays, NEW p \in Node, Grows(p),
           \A packet \in net' \ net : \A q \in DOMAIN packet.members :
              \/ Says(q, packet.members[q], table[q][q].gen, leaves)
              \/ Says(q, packet.members[q], table'[q][q].gen, leaves')
    PROVE  NetSays'
  <1>1. \A q \in Node, r \in Records :
          Says(q, r, table[q][q].gen, leaves) => Says(q, r, table'[q][q].gen, leaves')
    BY StillSays
  <1> SUFFICES ASSUME NEW packet \in net', NEW q \in DOMAIN packet.members
               PROVE  Says(q, packet.members[q], table'[q][q].gen, leaves')
    BY DEF NetSays, Announced
  <1>2. q \in Node /\ packet.members[q] \in Records
    BY DEF TypeOK, NetOK
  <1>3. CASE packet \in net
    <2>1. Says(q, packet.members[q], table[q][q].gen, leaves)
      BY <1>3 DEF NetSays, Announced
    <2> QED  BY <1>1, <1>2, <2>1
  <1>4. CASE packet \notin net
    BY <1>1, <1>2, <1>4
  <1> QED  BY <1>3, <1>4

LEMMA InitHistory == Init => HistoryInv
  <1> SUFFICES ASSUME Init PROVE HistoryInv
    OBVIOUS
  <1>1. \A p \in Node : /\ table[p][p] = Rec("ALIVE", 1)
                       /\ \A q \in Node \ {p} : table[p][q] = Unknown
    BY FreshType DEF Init, States
  <1>2. TablesSay
    BY <1>1 DEF TablesSay, Announced, Says, Rec, Init
  <1> QED  BY <1>2 DEF Init, HistoryInv, NetSays, LeavesSay

(* Actions that leave all tables alone and announce nothing new.           *)
LEMMA QuietHistory ==
    ASSUME HistoryInv, table' = table, leaves' = leaves,
           \A packet \in net' \ net : \A q \in DOMAIN packet.members :
              Announced(q, packet.members[q])
    PROVE  HistoryInv'
  BY DEF HistoryInv, TablesSay, NetSays, LeavesSay, Announced

LEMMA JoinHistory ==
    ASSUME TypeOK, HistoryInv, NEW p \in Node, Join(p)
    PROVE  HistoryInv'
  <1> DEFINE packets == {Packet(p, q, [id \in {p} |-> table[p][p]]) : q \in Seeds[p]}
  <1>1. net' \ net \subseteq packets /\ table' = table /\ leaves' = leaves
    BY DEF Join, Send
  <1>2. \A packet \in packets : \A q \in DOMAIN packet.members :
           Announced(q, packet.members[q])
    BY DEF Packet, HistoryInv, TablesSay
  <1> HIDE DEF packets
  <1> QED  BY <1>1, <1>2, QuietHistory

LEMMA GossipToHistory ==
    ASSUME TypeOK, HistoryInv, NEW p \in Node, NEW T, GossipTo(p, T)
    PROVE  HistoryInv'
  <1>1. net' \ net \subseteq Sync(p, T, table[p]) /\ table' = table /\ leaves' = leaves
    BY DEF GossipTo, Send
  <1>2. T \in SUBSET Node /\ table[p] \in [Node -> Records]
    BY TargetTypes DEF GossipTo, TypeOK, TablesOK
  <1>3. ASSUME NEW packet \in Sync(p, T, table[p]), NEW q \in DOMAIN packet.members
        PROVE  Announced(q, packet.members[q])
    <2>1. DOMAIN packet.members \subseteq Node /\ packet.members[q] = table[p][q]
      BY <1>2, SyncTypes
    <2> QED  BY <2>1 DEF HistoryInv, TablesSay
  <1> QED  BY <1>1, <1>3, QuietHistory

LEMMA ReceiveHistory ==
    ASSUME TypeOK, TypeOK', HistoryInv, NEW packet \in net, Receive(packet)
    PROVE  HistoryInv'
  <1> DEFINE p == packet.to
             m == packet.members
             new == [q \in Node |->
                IF q \in DOMAIN m /\ Takes(p, packet.from, q, m[q]) THEN m[q]
                ELSE table[p][q]]
  <1>1. p \in Node
    BY DEF TypeOK, NetOK
  <1>2. net' \subseteq net /\ leaves' = leaves
    BY DEF Receive
  <1>3. CASE Talking(p)
    <2>1. table' = [table EXCEPT ![p] = new]
      BY <1>3 DEF Receive, Update
    <2>2. \A q \in Node : Announced(q, table[p][q]) /\ (q \in DOMAIN m => Announced(q, m[q]))
      BY <1>1 DEF HistoryInv, TablesSay, NetSays
    <2>3. \A q \in Node : Announced(q, new[q])
      BY <2>2
    <2>4. new[p] = table[p][p]
      BY <1>1 DEF Takes
    <2> HIDE DEF new, p
    <2>5. table'[p] = new /\ \A q \in Node \ {p} : table'[q] = table[q]
      BY <1>1, <2>1 DEF TypeOK, TablesOK
    <2>6. Grows(p)
      BY <1>1, <1>2, <2>4, <2>5 DEF Grows
    <2>7. \A q \in Node : Says(q, table'[p][q], table[q][q].gen, leaves)
      BY <2>3, <2>5 DEF Announced
    <2>8. TablesSay'
      BY <1>1, <2>5, <2>6, <2>7, StillTables DEF HistoryInv
    <2>9. NetSays'
      BY <1>1, <1>2, <2>6, StillNet DEF HistoryInv
    <2>10. LeavesSay'
      BY <1>1, <2>6, StillLeft DEF HistoryInv
    <2> QED  BY <2>8, <2>9, <2>10 DEF HistoryInv
  <1>4. CASE ~Talking(p)
    <2>1. table' = table
      BY <1>4 DEF Receive
    <2> QED  BY <1>2, <2>1, QuietHistory
  <1> QED  BY <1>3, <1>4

LEMMA DetectFailuresHistory ==
    ASSUME TypeOK, TypeOK', HistoryInv, NEW p \in Node, NEW S, DetectFailures(p, S)
    PROVE  HistoryInv'
  <1>1. /\ table' = [table EXCEPT ![p] = Silent(p, S)] /\ S \subseteq Watched(p)
        /\ net' = net /\ leaves' = leaves
    BY DEF DetectFailures, Update, Silent
  <1>2. table'[p] = Silent(p, S) /\ \A q \in Node \ {p} : table'[q] = table[q]
    BY <1>1 DEF TypeOK, TablesOK
  <1>3. Silent(p, S)[p] = table[p][p]
    BY <1>1, SilentType DEF TypeOK
  <1>4. Grows(p)
    BY <1>1, <1>2, <1>3 DEF Grows
  <1>5. ASSUME NEW q \in Node
        PROVE  Says(q, table'[p][q], table[q][q].gen, leaves)
    <2>1. Says(q, table[p][q], table[q][q].gen, leaves)
      BY DEF HistoryInv, TablesSay, Announced
    <2>2. CASE q \in S
      <3>1. table[p][q].state \in {"ALIVE", "SUSPECT"}
        BY <1>1, <2>2 DEF Watched
      <3>2. table[p][q] # Unknown /\ table[p][q].state # "LEFT"
        BY <3>1 DEF Unknown
      <3>3. /\ table'[p][q].gen = table[p][q].gen
            /\ table'[p][q].state \in {"SUSPECT", "DEAD"}
        BY <1>2, <2>2 DEF Silent, Rec
      <3> QED  BY <2>1, <3>2, <3>3 DEF Says
    <2>3. CASE q \notin S
      BY <1>2, <2>1, <2>3 DEF Silent
    <2> QED  BY <2>2, <2>3
  <1>6. TablesSay'
    BY <1>2, <1>4, <1>5, StillTables DEF HistoryInv
  <1>7. NetSays'
    BY <1>1, <1>4, StillNet DEF HistoryInv
  <1>8. LeavesSay'
    BY <1>4, StillLeft DEF HistoryInv
  <1> QED  BY <1>6, <1>7, <1>8 DEF HistoryInv

LEMMA RestoreHistory ==
    ASSUME TypeOK, TypeOK', HistoryInv, NEW p \in Node, Restore(p)
    PROVE  HistoryInv'
  <1>1. table'[p][p] = Rec("ALIVE", table[p][p].gen + 1) /\ table[p][p].gen \in Nat
    BY RestoreTypes DEF TypeOK, TablesOK, Records
  <1>2. /\ \A q \in Node \ {p} : table'[q] = table[q] /\ table'[p][q] = table[p][q]
        /\ net' = net /\ leaves' = leaves
    BY DEF TypeOK, TablesOK, Restore
  <1>3. table'[p][p].gen = table[p][p].gen + 1 /\ table'[p][p].state = "ALIVE"
    BY <1>1 DEF Rec
  <1>4. Grows(p)
    BY <1>1, <1>2, <1>3 DEF Grows
  <1>5. Says(p, table'[p][p], table'[p][p].gen, leaves')
    BY <1>1, <1>2, <1>3 DEF HistoryInv, LeavesSay, Says
  <1>6. \A q \in Node \ {p} : Says(q, table'[p][q], table[q][q].gen, leaves)
    BY <1>2 DEF HistoryInv, TablesSay, Announced
  <1>7. TablesSay'
    BY <1>2, <1>4, <1>5, <1>6, StillTables DEF HistoryInv
  <1>8. NetSays'
    BY <1>2, <1>4, StillNet DEF HistoryInv
  <1>9. LeavesSay'
    BY <1>4, StillLeft DEF HistoryInv
  <1> QED  BY <1>7, <1>8, <1>9 DEF HistoryInv

(* A table that knows its own record only.                                 *)
LEMMA FreshSays ==
    ASSUME TypeOK, TypeOK', HistoryInv, NEW p \in Node, NEW s \in States, NEW g \in Nat,
           table' = [table EXCEPT ![p] = Fresh(p, s, g)],
           \/ g = table[p][p].gen /\ s = table[p][p].state /\ leaves' = leaves
           \/ g > table[p][p].gen /\ s = "ALIVE" /\ leaves' = leaves
           \/ /\ g > table[p][p].gen /\ s = "LEFT"
              /\ leaves' = leaves \union {<<p, g>>}
    PROVE  /\ Grows(p) /\ TablesSay' /\ LeavesSay'
           /\ Says(p, Rec(s, g), table'[p][p].gen, leaves')
  <1>1. /\ \A q \in Node \ {p} : table'[q] = table[q] /\ table'[p][q] = Unknown
        /\ table'[p][p] = Rec(s, g)
    BY FreshType DEF TypeOK, TablesOK
  <1>2. /\ table'[p][p].gen = g /\ table'[p][p].state = s
        /\ table[p][p].gen \in Nat /\ table[p][p] \in Records
    BY <1>1 DEF Rec, TypeOK, TablesOK, Records
  <1>3. Grows(p)
    BY <1>1, <1>2 DEF Grows
  <1>4. <<p, g>> \in leaves => g <= table[p][p].gen
    BY DEF HistoryInv, LeavesSay
  <1>5. Says(p, Rec(s, g), table'[p][p].gen, leaves')
    <2>1. CASE g = table[p][p].gen /\ s = table[p][p].state /\ leaves' = leaves
      <3>1. Rec(s, g) = table[p][p]
        BY <1>2, <2>1, RecordTypes
      <3>2. Says(p, table[p][p], table[p][p].gen, leaves)
        BY DEF HistoryInv, TablesSay, Announced
      <3> QED  BY <1>2, <2>1, <3>1, <3>2
    <2>2. CASE g > table[p][p].gen /\ s = "ALIVE" /\ leaves' = leaves
      BY <1>2, <1>4, <2>2 DEF Says, Rec
    <2>3. CASE /\ g > table[p][p].gen /\ s = "LEFT"
               /\ leaves' = leaves \union {<<p, g>>}
      BY <1>2, <2>3 DEF Says, Rec
    <2> QED  BY <2>1, <2>2, <2>3
  <1>6. \A q \in Node \ {p} : Says(q, table'[p][q], table[q][q].gen, leaves)
    BY <1>1 DEF Says
  <1>7. TablesSay'
    BY <1>1, <1>3, <1>5, <1>6, StillTables DEF HistoryInv
  <1>8. LeavesSay'
    BY <1>3, StillLeft DEF HistoryInv
  <1> QED  BY <1>3, <1>5, <1>7, <1>8

LEMMA StopHistory ==
    ASSUME TypeOK, TypeOK', HistoryInv, NEW p \in Node, Stop(p)
    PROVE  HistoryInv'
  <1> DEFINE g == table[p][p].gen + 1
             members == [table[p] EXCEPT ![p] = Farewell(p)]
  <1>1. /\ table' = [table EXCEPT ![p] = Fresh(p, "LEFT", g)]
        /\ leaves' = leaves \union {<<p, g>>}
        /\ \E T \in Targets(p) : Send(Sync(p, T, members))
    BY StopTypes
  <1>2. g \in Nat /\ g > table[p][p].gen /\ "LEFT" \in States
    BY DEF TypeOK, TablesOK, Records, States
  <1> HIDE DEF g
  <1>3. /\ Grows(p) /\ TablesSay' /\ LeavesSay'
        /\ Says(p, Rec("LEFT", g), table'[p][p].gen, leaves')
    BY <1>1, <1>2, FreshSays
  <1>4. PICK T \in Targets(p) : net' \ net \subseteq Sync(p, T, members)
    BY <1>1 DEF Send
  <1>5. /\ T \in SUBSET Node /\ members \in [Node -> Records]
        /\ members[p] = Rec("LEFT", g) /\ \A q \in Node \ {p} : members[q] = table[p][q]
    BY <1>2, TargetTypes, RecordTypes DEF Farewell, TypeOK, TablesOK, g
  <1> HIDE DEF members
  <1>6. ASSUME NEW packet \in net' \ net, NEW q \in DOMAIN packet.members
        PROVE  \/ Says(q, packet.members[q], table[q][q].gen, leaves)
               \/ Says(q, packet.members[q], table'[q][q].gen, leaves')
    <2>0. packet \in Sync(p, T, members)
      BY <1>4
    <2>1. q \in Node /\ packet.members[q] = members[q]
      BY <1>5, <2>0, SyncTypes
    <2> QED  BY <1>3, <1>5, <2>1 DEF HistoryInv, TablesSay, Announced
  <1>7. NetSays'
    BY <1>3, <1>6, StillNet DEF HistoryInv
  <1> QED  BY <1>3, <1>7 DEF HistoryInv

LEMMA CrashHistory ==
    ASSUME TypeOK, TypeOK', HistoryInv, NEW p \in Node, Crash(p)
    PROVE  HistoryInv'
  <1>1. /\ table' = [table EXCEPT ![p] = Fresh(p, table[p][p].state, table[p][p].gen)]
        /\ leaves' = leaves /\ net' = net
    BY CrashTypes DEF Crash
  <1>2. table[p][p].state \in States /\ table[p][p].gen \in Nat
    BY DEF TypeOK, TablesOK, Records
  <1>3. Grows(p) /\ TablesSay' /\ LeavesSay'
    BY <1>1, <1>2, FreshSays
  <1>4. NetSays'
    BY <1>1, <1>3, StillNet DEF HistoryInv
  <1> QED  BY <1>3, <1>4 DEF HistoryInv

LEMMA RestartHistory ==
    ASSUME TypeOK, TypeOK', HistoryInv, NEW p \in Node, Restart(p)
    PROVE  HistoryInv'
  <1>1. /\ table' = [table EXCEPT ![p] = Fresh(p, "ALIVE", table[p][p].gen + 1)]
        /\ leaves' = leaves /\ net' = net
    BY DEF Restart
  <1>2. /\ "ALIVE" \in States /\ table[p][p].gen + 1 \in Nat
        /\ table[p][p].gen + 1 > table[p][p].gen
    BY DEF TypeOK, TablesOK, Records, States
  <1>3. Grows(p) /\ TablesSay' /\ LeavesSay'
    BY <1>1, <1>2, FreshSays
  <1>4. NetSays'
    BY <1>1, <1>3, StillNet DEF HistoryInv
  <1> QED  BY <1>3, <1>4 DEF HistoryInv

-----------------------------------------------------------------------------
(* Theorems.                                                               *)

LEMMA StepKeepsTypes == TypeOK /\ [Next]_vars => TypeOK'
  <1> SUFFICES ASSUME TypeOK, [Next]_vars PROVE TypeOK'
    OBVIOUS
  <1>1. CASE \E packet \in net : Receive(packet)
    BY <1>1, ReceiveTypes
  <1>2. ASSUME NEW p \in Node,
               \/ Join(p)
               \/ \E T \in SUBSET Node : GossipTo(p, T) \/ DetectFailures(p, T)
               \/ RingEvent(p) \/ Kill(p) \/ Restore(p)
               \/ Stop(p) \/ Crash(p) \/ Restart(p)
        PROVE  TypeOK'
    BY <1>2, JoinTypes, GossipToTypes, DetectFailuresTypes, RingEventTypes, KillTypes,
       RestoreTypes, StopTypes, CrashTypes, RestartTypes
  <1>3. CASE UNCHANGED vars
    BY <1>3 DEF vars, TypeOK, ProcessesOK, TablesOK, QueuesOK, RingsOK, NetOK
  <1> QED  BY <1>1, <1>2, <1>3 DEF Next

LEMMA StepKeepsHistory == TypeOK /\ TypeOK' /\ HistoryInv /\ [Next]_vars => HistoryInv'
  <1> SUFFICES ASSUME TypeOK, TypeOK', HistoryInv, [Next]_vars PROVE HistoryInv'
    OBVIOUS
  <1>1. CASE \E packet \in net : Receive(packet)
    BY <1>1, ReceiveHistory
  <1>2. ASSUME NEW p \in Node,
               \/ Join(p)
               \/ \E T \in SUBSET Node : GossipTo(p, T) \/ DetectFailures(p, T)
               \/ RingEvent(p) \/ Kill(p) \/ Restore(p)
               \/ Stop(p) \/ Crash(p) \/ Restart(p)
        PROVE  HistoryInv'
    <2>1. CASE RingEvent(p) \/ Kill(p)
      <3>1. table' = table /\ leaves' = leaves /\ net' = net
        BY <2>1 DEF RingEvent, Kill
      <3> QED  BY <3>1, QuietHistory
    <2> QED  BY <1>2, <2>1, JoinHistory, GossipToHistory, DetectFailuresHistory,
                RestoreHistory, StopHistory, CrashHistory, RestartHistory
  <1>3. CASE UNCHANGED vars
    BY <1>3, QuietHistory DEF vars
  <1> QED  BY <1>1, <1>2, <1>3 DEF Next

(* In every reachable state the variables have their types: a node that    *)
(* runs holds itself alive and is in its own ring, and the channel to the  *)
(* ring is never longer than its capacity nor about the node itself.       *)
THEOREM GossipTypes == Spec => []TypeOK
  <1>1. Init => TypeOK
    BY InitTypes
  <1>2. TypeOK /\ [Next]_vars => TypeOK'
    BY StepKeepsTypes
  <1> QED  BY <1>1, <1>2, PTL DEF Spec

LEMMA HistorySuffices == TypeOK /\ HistoryInv => RecordsWereAnnounced
  <1> SUFFICES ASSUME TypeOK, HistoryInv, NEW q \in Node, NEW r \in Held(q) \ {Unknown}
               PROVE  /\ r.gen <= table[q][q].gen
                      /\ (r.state = "LEFT") <=> (<<q, r.gen>> \in leaves)
    BY DEF RecordsWereAnnounced
  <1>1. Announced(q, r)
    BY DEF Held, HistoryInv, TablesSay, NetSays
  <1> QED  BY <1>1 DEF Announced, Says

(* Whatever packets are lost, late or out of order, and however nodes      *)
(* crash, restart, leave and are restored, in a cluster of any size nobody *)
(* holds a generation of a member that it never had, and a member is held  *)
(* to have left exactly under the generations under which it left.         *)
THEOREM RecordsCorrect == Spec => []RecordsWereAnnounced
  <1>1. Init => HistoryInv
    BY InitHistory
  <1>2. TypeOK /\ TypeOK' /\ HistoryInv /\ [Next]_vars => HistoryInv'
    BY StepKeepsHistory
  <1>3. TypeOK /\ HistoryInv => RecordsWereAnnounced
    BY HistorySuffices
  <1> QED  BY <1>1, <1>2, <1>3, GossipTypes, PTL DEF Spec

-----------------------------------------------------------------------------
(* The ring follows the table.                                             *)

(* Whether q is in the ring "r" once the channel "s" is empty, and what    *)
(* the reader and the handlers do to that.                                 *)
Joined(q) == [id |-> q, join |-> TRUE]

Died(q) == [id |-> q, join |-> FALSE]

WillHoldOf(r, s, q) ==
    \/ q \in r /\ \A i \in 1 .. Len(s) : s[i].id # q
    \/ \E i \in 1 .. Len(s) : /\ s[i] = Joined(q)
                              /\ \A j \in 1 .. Len(s) : j > i => s[j].id # q

Event(p) == [id : Node \ {p}, join : BOOLEAN]

LEMMA ConcatPlaces ==
    ASSUME NEW E, NEW s \in Seq(E), NEW e \in Seq(E)
    PROVE  /\ Len(s) \in Nat /\ Len(e) \in Nat /\ Len(s \o e) = Len(s) + Len(e)
           /\ \A i \in 1 .. Len(s) : (s \o e)[i] = s[i]
           /\ \A k \in 1 .. Len(e) : (s \o e)[Len(s) + k] = e[k]
           /\ \A i \in 1 .. Len(s) + Len(e) :
                 i \in 1 .. Len(s) \/ \E k \in 1 .. Len(e) : i = Len(s) + k
  <1>1. Len(s) \in Nat /\ Len(e) \in Nat
    OBVIOUS
  <1>2. ASSUME NEW i \in 1 .. Len(s) + Len(e), i \notin 1 .. Len(s)
        PROVE  \E k \in 1 .. Len(e) : i = Len(s) + k
    <2>1. i - Len(s) \in 1 .. Len(e) /\ i = Len(s) + (i - Len(s))
      BY <1>1, <1>2
    <2> QED  BY <2>1
  <1>3. /\ Len(s \o e) = Len(s) + Len(e)
        /\ \A i \in 1 .. Len(s) : (s \o e)[i] = s[i]
    OBVIOUS
  <1>4. \A k \in 1 .. Len(e) : (s \o e)[Len(s) + k] = e[k]
    OBVIOUS
  <1> QED  BY <1>1, <1>2, <1>3, <1>4

(* Notifications about others say nothing of q.                            *)
LEMMA QuietEvents ==
    ASSUME NEW E, NEW r, NEW s \in Seq(E), NEW e \in Seq(E), NEW q,
           \A k \in 1 .. Len(e) : e[k].id # q
    PROVE  WillHoldOf(r, s \o e, q) <=> WillHoldOf(r, s, q)
  <1> DEFINE c == s \o e
  <1>0. /\ Len(s) \in Nat /\ Len(e) \in Nat /\ Len(s \o e) = Len(s) + Len(e)
        /\ \A i \in 1 .. Len(s) : (s \o e)[i] = s[i]
        /\ \A k \in 1 .. Len(e) : (s \o e)[Len(s) + k] = e[k]
        /\ \A i \in 1 .. Len(s) + Len(e) :
              i \in 1 .. Len(s) \/ \E k \in 1 .. Len(e) : i = Len(s) + k
    BY ConcatPlaces, Zenon
  <1>1. /\ Len(s) \in Nat /\ Len(e) \in Nat /\ Len(c) = Len(s) + Len(e)
        /\ \A i \in 1 .. Len(s) : c[i] = s[i]
        /\ \A k \in 1 .. Len(e) : c[Len(s) + k] = e[k]
        /\ \A i \in 1 .. Len(c) : i \in 1 .. Len(s) \/ \E k \in 1 .. Len(e) : i = Len(s) + k
    BY <1>0, Zenon
  <1> HIDE DEF c
  <1>2. \A i \in 1 .. Len(c) : i \notin 1 .. Len(s) => c[i].id # q
    BY <1>1
  <1>3. \A i \in 1 .. Len(s) : i \in 1 .. Len(c)
    BY <1>1
  <1>4. \A i \in 1 .. Len(c) : c[i] = Joined(q) => i \in 1 .. Len(s)
    BY <1>2 DEF Joined
  <1>5. WillHoldOf(r, c, q) => WillHoldOf(r, s, q)
    BY <1>1, <1>3, <1>4 DEF WillHoldOf
  <1>6. WillHoldOf(r, s, q) => WillHoldOf(r, c, q)
    <2>1. ASSUME \A i \in 1 .. Len(s) : s[i].id # q
          PROVE  \A i \in 1 .. Len(c) : c[i].id # q
      BY <1>1, <1>2, <2>1
    <2>2. ASSUME NEW i \in 1 .. Len(s), \A j \in 1 .. Len(s) : j > i => s[j].id # q
          PROVE  \A j \in 1 .. Len(c) : j > i => c[j].id # q
      BY <1>1, <1>2, <2>2
    <2> QED  BY <1>1, <1>3, <2>1, <2>2 DEF WillHoldOf
  <1> QED  BY <1>5, <1>6 DEF c

(* The only notification about q decides.                                  *)
LEMMA OneEvent ==
    ASSUME NEW E, NEW r, NEW s \in Seq(E), NEW e \in Seq(E), NEW q,
           NEW k \in 1 .. Len(e), e[k] \in {Joined(q), Died(q)},
           \A j \in 1 .. Len(e) : j # k => e[j].id # q
    PROVE  WillHoldOf(r, s \o e, q) <=> e[k] = Joined(q)
  <1> DEFINE c == s \o e
  <1>1. /\ Len(s) \in Nat /\ Len(e) \in Nat /\ Len(c) = Len(s) + Len(e)
        /\ \A j \in 1 .. Len(e) : c[Len(s) + j] = e[j]
        /\ \A i \in 1 .. Len(c) : i \in 1 .. Len(s) \/ \E j \in 1 .. Len(e) : i = Len(s) + j
    BY ConcatPlaces
  <1> HIDE DEF c
  <1>2. Len(s) + k \in 1 .. Len(c) /\ c[Len(s) + k] = e[k] /\ e[k].id = q
    BY <1>1 DEF Joined, Died
  <1>3. \A i \in 1 .. Len(c) : i > Len(s) + k => c[i].id # q
    <2> TAKE i \in 1 .. Len(c)
    <2> HAVE i > Len(s) + k
    <2>1. PICK j \in 1 .. Len(e) : i = Len(s) + j
      BY <1>1
    <2>2. j # k /\ c[i] = e[j]
      BY <1>1, <2>1
    <2> QED  BY <2>2
  <1>4. \A i \in 1 .. Len(c) : c[i].id = q => i <= Len(s) + k
    BY <1>1, <1>3
  <1>5. e[k] = Joined(q) => WillHoldOf(r, c, q)
    BY <1>2, <1>3 DEF WillHoldOf
  <1>6. ASSUME e[k] = Died(q)  PROVE ~WillHoldOf(r, c, q)
    <2>1. c[Len(s) + k].id = q
      BY <1>2
    <2>2. ASSUME NEW i \in 1 .. Len(c), c[i] = Joined(q),
                 \A j \in 1 .. Len(c) : j > i => c[j].id # q
          PROVE  FALSE
      <3>1. i <= Len(s) + k
        BY <1>4, <2>2 DEF Joined
      <3>2. ~(Len(s) + k > i)
        BY <1>2, <2>1, <2>2
      <3>3. i = Len(s) + k
        <4>1. i \in Int /\ Len(s) + k \in Int
          BY <1>1
        <4> QED  BY <3>1, <3>2, <4>1
      <3>4. Joined(q) = Died(q)
        BY <1>2, <1>6, <2>2, <3>3
      <3> QED  BY <3>4 DEF Joined, Died
    <2> QED  BY <1>2, <2>1, <2>2 DEF WillHoldOf
  <1> QED  BY <1>5, <1>6 DEF c

(* What the reader has taken from the channel is in the ring.              *)
LEMMA HeadTaken ==
    ASSUME NEW p, NEW r, NEW s \in Seq(Event(p)), s # <<>>, NEW q
    PROVE  WillHoldOf(AddOrRemove(r, Head(s)), Tail(s), q) <=> WillHoldOf(r, s, q)
  <1> DEFINE t == Tail(s)
             h == Head(s)
  <1>1. /\ Len(s) \in Nat \ {0} /\ Len(t) = Len(s) - 1
        /\ \A i \in 1 .. Len(t) : t[i] = s[i + 1]
        /\ h = s[1] /\ h \in Event(p)
    OBVIOUS
  <1>2. /\ \A i \in 1 .. Len(t) : i + 1 \in 1 .. Len(s)
        /\ \A i \in 1 .. Len(s) : i = 1 \/ (i - 1 \in 1 .. Len(t) /\ i = (i - 1) + 1)
    BY <1>1
  <1> HIDE DEF t, h
  <1>3. h.join \in BOOLEAN /\ h = [id |-> h.id, join |-> h.join]
    BY <1>1 DEF Event
  <1>4. (\E i \in 1 .. Len(t) : t[i].id = q) <=> (\E i \in 1 .. Len(s) : i > 1 /\ s[i].id = q)
    <2>1. \A i \in 1 .. Len(t) : i + 1 \in 1 .. Len(s) /\ i + 1 > 1 /\ s[i + 1] = t[i]
      BY <1>1, <1>2
    <2>2. \A i \in 1 .. Len(s) : i > 1 => i - 1 \in 1 .. Len(t) /\ t[i - 1] = s[i]
      BY <1>1, <1>2
    <2> QED  BY <2>1, <2>2
  <1>5. (\E i \in 1 .. Len(t) : /\ t[i] = Joined(q)
                                /\ \A j \in 1 .. Len(t) : j > i => t[j].id # q)
        <=> (\E i \in 1 .. Len(s) : /\ i > 1 /\ s[i] = Joined(q)
                                    /\ \A j \in 1 .. Len(s) : j > i => s[j].id # q)
    <2>1. ASSUME NEW i \in 1 .. Len(t), t[i] = Joined(q),
                 \A j \in 1 .. Len(t) : j > i => t[j].id # q
          PROVE  /\ i + 1 \in 1 .. Len(s) /\ i + 1 > 1 /\ s[i + 1] = Joined(q)
                 /\ \A j \in 1 .. Len(s) : j > i + 1 => s[j].id # q
      <3>1. ASSUME NEW j \in 1 .. Len(s), j > i + 1  PROVE s[j].id # q
        <4>1. j - 1 \in 1 .. Len(t) /\ j - 1 > i /\ t[j - 1] = s[j]
          BY <1>1, <1>2, <3>1
        <4> QED  BY <2>1, <4>1
      <3> QED  BY <1>1, <1>2, <2>1, <3>1
    <2>2. ASSUME NEW i \in 1 .. Len(s), i > 1, s[i] = Joined(q),
                 \A j \in 1 .. Len(s) : j > i => s[j].id # q
          PROVE  /\ i - 1 \in 1 .. Len(t) /\ t[i - 1] = Joined(q)
                 /\ \A j \in 1 .. Len(t) : j > i - 1 => t[j].id # q
      <3>1. i - 1 \in 1 .. Len(t) /\ t[i - 1] = s[i]
        BY <1>1, <1>2, <2>2
      <3>2. ASSUME NEW j \in 1 .. Len(t), j > i - 1  PROVE t[j].id # q
        <4>1. j + 1 \in 1 .. Len(s) /\ j + 1 > i /\ t[j] = s[j + 1]
          BY <1>1, <1>2, <3>2
        <4> QED  BY <2>2, <4>1
      <3> QED  BY <2>2, <3>1, <3>2
    <2> QED  BY <2>1, <2>2
  <1>6. WillHoldOf(r, s, q) <=>
          \/ \E i \in 1 .. Len(s) : /\ i > 1 /\ s[i] = Joined(q)
                                    /\ \A j \in 1 .. Len(s) : j > i => s[j].id # q
          \/ /\ \A i \in 1 .. Len(s) : i > 1 => s[i].id # q
             /\ s[1] = Joined(q) \/ (q \in r /\ s[1].id # q)
    BY <1>1 DEF WillHoldOf
  <1>7. q \in AddOrRemove(r, h) <=> h = Joined(q) \/ (q \in r /\ h.id # q)
    BY <1>3 DEF AddOrRemove, Joined
  <1> QED  BY <1>1, <1>4, <1>5, <1>6, <1>7 DEF WillHoldOf, t, h

(* The events of a handler that concern q: at most one, and the right one. *)
LEMMA EventsOf ==
    ASSUME NEW old, NEW new, NEW q \in Node
    PROVE  /\ Joined(q) \in Events(old, new)
                <=> old[q].state # "ALIVE" /\ new[q].state = "ALIVE"
           /\ Died(q) \in Events(old, new)
                <=> old[q].state \notin {"DEAD", "UNKNOWN"} /\ new[q].state = "DEAD"
           /\ \A x \in Events(old, new) : x.id = q => x \in {Joined(q), Died(q)}
  <1> DEFINE Joins == {n \in Node : old[n].state # "ALIVE" /\ new[n].state = "ALIVE"}
             Deaths == {n \in Node : old[n].state \notin {"DEAD", "UNKNOWN"}
                                       /\ new[n].state = "DEAD"}
  <1>1. Events(old, new) = {Joined(n) : n \in Joins} \union {Died(n) : n \in Deaths}
    BY DEF Events, Joined, Died
  <1>2. /\ \A n : Joined(n).id = n /\ Died(n).id = n
        /\ \A n, m : Joined(n) # Died(m)
    BY DEF Joined, Died
  <1>3. Joined(q) \in Events(old, new) <=> q \in Joins
    <2> HIDE DEF Joins, Deaths
    <2> QED  BY <1>1, <1>2
  <1>4. Died(q) \in Events(old, new) <=> q \in Deaths
    <2> HIDE DEF Joins, Deaths
    <2> QED  BY <1>1, <1>2
  <1>5. \A x \in Events(old, new) : x.id = q => x \in {Joined(q), Died(q)}
    <2> HIDE DEF Joins, Deaths
    <2> QED  BY <1>1, <1>2
  <1> QED  BY <1>3, <1>4, <1>5

(* The notifications of a handler are each sent once.                      *)
LEMMA SequenceOfEvents ==
    ASSUME NEW S, IsFiniteSet(S), NEW events \in SetToSeqs(S)
    PROVE  /\ events \in Seq(S) /\ Len(events) = Cardinality(S)
           /\ \A x \in S : \E k \in 1 .. Len(events) : events[k] = x
           /\ \A j, k \in 1 .. Len(events) : j # k => events[j] # events[k]
  <1> DEFINE n == Cardinality(S)
  <1>1. n \in Nat
    BY FS_CardinalityType
  <1>2. /\ events \in [1 .. n -> S]
        /\ \A i, j \in 1 .. n : i # j => events[i] # events[j]
    BY DEF SetToSeqs
  <1>3. events \in Injection(1 .. n, S)
    BY <1>2 DEF Injection, IsInjective
  <1>4. Cardinality(1 .. n) = n
    BY <1>1, FS_Interval
  <1>5. events \in Surjection(1 .. n, S)
    BY <1>3, <1>4, FS_Injection
  <1>6. events \in Seq(S) /\ Len(events) = n
    BY <1>1, <1>2
  <1> HIDE DEF n
  <1> QED  BY <1>2, <1>5, <1>6 DEF Surjection, n

-----------------------------------------------------------------------------
(* The invariant: a node's ring is about to be what its table says.        *)
Follows(p) ==
    \A q \in Node \ {p} :
        /\ table[p][q].state = "ALIVE" => WillHoldOf(ring[p], queue[p], q)
        /\ table[p][q].state \in {"DEAD", "UNKNOWN"} => ~WillHoldOf(ring[p], queue[p], q)

RingsFollow == \A p \in Node \ lost : run[p] = "up" => Follows(p)

(* What is sent is known, and what does not run holds nothing.             *)
NetKnown ==
    \A packet \in net : \A q \in DOMAIN packet.members : packet.members[q].state # "UNKNOWN"

StoppedAreEmpty == \A p \in Node : run[p] # "up" => ring[p] = {p} /\ queue[p] = <<>>

FollowInv == RingsFollow /\ NetKnown /\ StoppedAreEmpty

LEMMA QueueTypes ==
    ASSUME QueuesOK
    PROVE  \A p \in Node : queue[p] \in Seq(Event(p))
  BY DEF QueuesOK, Event

LEMMA EmptyHolds ==
    ASSUME NEW p, NEW q, q # p
    PROVE  ~WillHoldOf({p}, <<>>, q)
  BY DEF WillHoldOf

(* A handler that changed some members' records, and has told the ring.    *)
LEMMA UpdateFollows ==
    ASSUME TablesOK, QueuesOK, NEW p \in Node, p \notin lost', Follows(p),
           NEW new \in [Node -> Records], new[p] = table[p][p],
           \A q \in Node : new[q].state = "UNKNOWN" => table[p][q].state = "UNKNOWN",
           Update(p, new), ring' = ring
    PROVE  Follows(p)'
  <1> DEFINE E == Events(table[p], new)
  <1>1. E \subseteq Event(p) /\ IsFiniteSet(E)
    BY EventsType DEF TablesOK, Event
  <1>2. PICK events \in SetToSeqs(E) :
          LET room  == Cap - Len(queue[p])
              taken == IF Len(events) <= room THEN events ELSE SubSeq(events, 1, room)
          IN  /\ queue' = [queue EXCEPT ![p] = @ \o taken]
              /\ lost' = IF taken = events THEN lost ELSE lost \union {p}
    BY DEF Update
  <1> DEFINE room == Cap - Len(queue[p])
             taken == IF Len(events) <= room THEN events ELSE SubSeq(events, 1, room)
  <1>3. taken = events
    BY <1>2
  <1>4. queue'[p] = queue[p] \o events
    BY <1>2, <1>3 DEF QueuesOK
  <1>5. table'[p] = new
    BY DEF Update, TablesOK
  <1>6. queue[p] \in Seq(Event(p))
    BY QueueTypes
  <1> HIDE DEF E, taken, room
  <1>7. /\ events \in Seq(E)
        /\ \A x \in E : \E k \in 1 .. Len(events) : events[k] = x
        /\ \A j, k \in 1 .. Len(events) : j # k => events[j] # events[k]
    BY <1>1, SequenceOfEvents
  <1>8. events \in Seq(Event(p)) /\ \A k \in 1 .. Len(events) : events[k] \in E
    <2> HIDE DEF Event
    <2> QED  BY <1>1, <1>7
  <1> SUFFICES ASSUME NEW q \in Node \ {p}
               PROVE  /\ new[q].state = "ALIVE" => WillHoldOf(ring[p], queue[p] \o events, q)
                      /\ new[q].state \in {"DEAD", "UNKNOWN"}
                            => ~WillHoldOf(ring[p], queue[p] \o events, q)
    BY <1>4, <1>5 DEF Follows
  <1>9. /\ Joined(q) \in E <=> table[p][q].state # "ALIVE" /\ new[q].state = "ALIVE"
        /\ Died(q) \in E <=> table[p][q].state \notin {"DEAD", "UNKNOWN"} /\ new[q].state = "DEAD"
        /\ \A x \in E : x.id = q => x \in {Joined(q), Died(q)}
    BY EventsOf DEF E
  <1>10. Joined(q).id = q /\ Died(q).id = q
    BY DEF Joined, Died
  <1>11. CASE Joined(q) \notin E /\ Died(q) \notin E
    <2>1. \A k \in 1 .. Len(events) : events[k].id # q
      BY <1>8, <1>9, <1>11
    <2>2. WillHoldOf(ring[p], queue[p] \o events, q) <=> WillHoldOf(ring[p], queue[p], q)
      BY <1>6, <1>8, <2>1, QuietEvents
    <2> QED  BY <1>9, <1>11, <2>2 DEF Follows
  <1>12. ASSUME NEW x \in {Joined(q), Died(q)}, x \in E
         PROVE  /\ x = Joined(q) => WillHoldOf(ring[p], queue[p] \o events, q)
                /\ x = Died(q) => ~WillHoldOf(ring[p], queue[p] \o events, q)
    <2>1. PICK k \in 1 .. Len(events) : events[k] = x
      BY <1>7, <1>12
    <2>2. ~(Joined(q) \in E /\ Died(q) \in E)
      BY <1>9
    <2>3. \A y \in E : y.id = q => y = x
      BY <1>9, <1>12, <2>2
    <2>4. \A j \in 1 .. Len(events) : j # k => events[j].id # q
      BY <1>7, <1>8, <2>1, <2>3
    <2>6. /\ queue[p] \in Seq(Event(p)) /\ events \in Seq(Event(p))
          /\ k \in 1 .. Len(events)
      BY <1>6, <1>8
    <2>7. WillHoldOf(ring[p], queue[p] \o events, q) <=> events[k] = Joined(q)
      BY <2>1, <2>4, <2>6, OneEvent
    <2>8. Joined(q) # Died(q)
      BY DEF Joined, Died
    <2> QED  BY <2>1, <2>7, <2>8
  <1>13. CASE Joined(q) \in E
    BY <1>9, <1>12, <1>13
  <1>14. CASE Died(q) \in E
    BY <1>9, <1>12, <1>14
  <1> QED  BY <1>11, <1>13, <1>14

(* A node whose ring, channel and table a step leaves alone.               *)
LEMMA FollowsSame ==
    ASSUME NEW p \in Node, Follows(p), ring'[p] = ring[p], queue'[p] = queue[p],
           \A q \in Node \ {p} : table'[p][q] = table[p][q]
    PROVE  Follows(p)'
  BY DEF Follows

LEMMA ReceiveFollows ==
    ASSUME TypeOK, FollowInv, NEW packet \in net, Receive(packet)
    PROVE  RingsFollow'
  <1> DEFINE p == packet.to
             m == packet.members
             new == [q \in Node |->
                IF q \in DOMAIN m /\ Takes(p, packet.from, q, m[q]) THEN m[q]
                ELSE table[p][q]]
  <1>1. p \in Node /\ \A q \in DOMAIN m : m[q] \in Records /\ m[q].state # "UNKNOWN"
    BY DEF TypeOK, NetOK, FollowInv, NetKnown
  <1>2. /\ new \in [Node -> Records] /\ new[p] = table[p][p]
        /\ \A q \in Node : new[q].state = "UNKNOWN" => table[p][q].state = "UNKNOWN"
    BY <1>1 DEF TypeOK, TablesOK, Takes
  <1>3. run' = run /\ ring' = ring
    BY DEF Receive
  <1>4. CASE Talking(p)
    <2>1. Update(p, new)
      BY <1>4 DEF Receive
    <2>2. /\ TablesOK /\ QueuesOK /\ lost \subseteq lost'
          /\ \A q \in Node \ {p} : table'[q] = table[q] /\ queue'[q] = queue[q]
      BY <1>1, <2>1 DEF TypeOK, Update, TablesOK, QueuesOK
    <2> HIDE DEF new, p
    <2>3. ASSUME p \notin lost', run[p] = "up"  PROVE Follows(p)'
      <3>1. Follows(p)
        BY <1>1, <2>2, <2>3 DEF FollowInv, RingsFollow
      <3> QED  BY <1>1, <1>2, <1>3, <2>1, <2>2, <2>3, <3>1, UpdateFollows
    <2>4. ASSUME NEW q \in Node \ lost', run[q] = "up", q # p  PROVE Follows(q)'
      BY <1>3, <2>2, <2>4, FollowsSame DEF FollowInv, RingsFollow
    <2> QED  BY <1>3, <2>3, <2>4 DEF RingsFollow
  <1>5. CASE ~Talking(p)
    <2>1. UNCHANGED <<table, queue, ring, lost, run>>
      BY <1>3, <1>5 DEF Receive
    <2> QED  BY <2>1, FollowsSame DEF FollowInv, RingsFollow
  <1> QED  BY <1>4, <1>5

LEMMA DetectFailuresFollows ==
    ASSUME TypeOK, FollowInv, NEW p \in Node, NEW S, DetectFailures(p, S)
    PROVE  RingsFollow'
  <1>1. TablesOK /\ QueuesOK
    BY DEF TypeOK
  <1>2. Update(p, Silent(p, S)) /\ S \subseteq Watched(p) /\ run' = run /\ ring' = ring
    BY DEF DetectFailures, Silent
  <1>3. Silent(p, S) \in [Node -> Records] /\ Silent(p, S)[p] = table[p][p]
    BY <1>1, <1>2, SilentType
  <1>4. \A q \in Node : Silent(p, S)[q].state = "UNKNOWN" => table[p][q].state = "UNKNOWN"
    BY DEF Silent, Rec
  <1>5. /\ lost \subseteq lost'
        /\ \A q \in Node \ {p} : table'[q] = table[q] /\ queue'[q] = queue[q]
    BY <1>1, <1>2 DEF Update, TablesOK, QueuesOK
  <1>6. ASSUME p \notin lost', run[p] = "up"  PROVE Follows(p)'
    <2>1. Follows(p)
      BY <1>5, <1>6 DEF FollowInv, RingsFollow
    <2> QED  BY <1>1, <1>2, <1>3, <1>4, <1>6, <2>1, UpdateFollows
  <1>7. ASSUME NEW q \in Node \ lost', run[q] = "up", q # p  PROVE Follows(q)'
    BY <1>2, <1>5, <1>7, FollowsSame DEF FollowInv, RingsFollow
  <1> QED  BY <1>2, <1>6, <1>7 DEF RingsFollow

LEMMA RingEventFollows ==
    ASSUME TypeOK, FollowInv, NEW p \in Node, RingEvent(p)
    PROVE  RingsFollow'
  <1>1. /\ UNCHANGED <<run, table, lost>> /\ queue[p] # <<>>
        /\ ring'[p] = AddOrRemove(ring[p], Head(queue[p])) /\ queue'[p] = Tail(queue[p])
        /\ \A q \in Node \ {p} : ring'[q] = ring[q] /\ queue'[q] = queue[q]
    BY DEF TypeOK, RingsOK, QueuesOK, RingEvent
  <1>2. queue[p] \in Seq(Event(p))
    BY QueueTypes DEF TypeOK
  <1>3. \A q : WillHoldOf(ring'[p], queue'[p], q) <=> WillHoldOf(ring[p], queue[p], q)
    BY <1>1, <1>2, HeadTaken
  <1>4. Follows(p) => Follows(p)'
    BY <1>1, <1>3 DEF Follows
  <1>5. ASSUME NEW q \in Node \ {p}  PROVE Follows(q) => Follows(q)'
    BY <1>1, FollowsSame
  <1> QED  BY <1>1, <1>4, <1>5 DEF FollowInv, RingsFollow

(* The process of one node ends or starts.                                 *)
LEMMA EndFollows ==
    ASSUME TypeOK, FollowInv, NEW p \in Node, NEW how \in {"crashed", "left"},
           NEW self, End(p, how, self)
    PROVE  RingsFollow' /\ StoppedAreEmpty'
  <1>1. /\ run'[p] # "up" /\ ring'[p] = {p} /\ queue'[p] = <<>> /\ lost' = lost \ {p}
        /\ \A q \in Node \ {p} : /\ run'[q] = run[q] /\ ring'[q] = ring[q]
                                 /\ queue'[q] = queue[q] /\ table'[q] = table[q]
    BY DEF TypeOK, ProcessesOK, RingsOK, QueuesOK, TablesOK, End
  <1>2. ASSUME NEW q \in Node \ {p}  PROVE Follows(q) => Follows(q)'
    BY <1>1, FollowsSame
  <1> QED  BY <1>1, <1>2 DEF FollowInv, RingsFollow, StoppedAreEmpty

LEMMA RestartFollows ==
    ASSUME TypeOK, FollowInv, NEW p \in Node, Restart(p)
    PROVE  RingsFollow' /\ StoppedAreEmpty'
  <1>1. table[p][p].gen + 1 \in Nat /\ run[p] # "up"
    BY DEF TypeOK, TablesOK, Records, Restart
  <1>2. /\ UNCHANGED <<queue, ring, lost>>
        /\ table'[p] = Fresh(p, "ALIVE", table[p][p].gen + 1)
        /\ \A q \in Node \ {p} : table'[q] = table[q] /\ run'[q] = run[q]
    BY DEF TypeOK, TablesOK, ProcessesOK, Restart
  <1>3. ring[p] = {p} /\ queue[p] = <<>>
    BY <1>1 DEF FollowInv, StoppedAreEmpty
  <1>4. \A q \in Node \ {p} : table'[p][q].state = "UNKNOWN"
    BY <1>1, <1>2, FreshType DEF States, Unknown
  <1>5. \A q \in Node \ {p} : ~WillHoldOf({p}, <<>>, q)
    BY EmptyHolds
  <1>6. Follows(p)'
    BY <1>2, <1>3, <1>4, <1>5 DEF Follows
  <1>7. ASSUME NEW q \in Node \ {p}  PROVE Follows(q) => Follows(q)'
    BY <1>2, FollowsSame
  <1>8. RingsFollow'
    BY <1>2, <1>6, <1>7 DEF FollowInv, RingsFollow
  <1>9. StoppedAreEmpty'
    BY <1>2, <1>3 DEF FollowInv, StoppedAreEmpty
  <1> QED  BY <1>8, <1>9

LEMMA RestoreFollows ==
    ASSUME TypeOK, FollowInv, NEW p \in Node, Restore(p)
    PROVE  RingsFollow'
  <1>1. /\ UNCHANGED <<run, queue, ring, lost>>
        /\ \A q \in Node \ {p} : table'[q] = table[q] /\ table'[p][q] = table[p][q]
    BY DEF TypeOK, TablesOK, Restore
  <1>2. ASSUME NEW q \in Node  PROVE Follows(q) => Follows(q)'
    BY <1>1, FollowsSame
  <1> QED  BY <1>1, <1>2 DEF FollowInv, RingsFollow

(* Packets: what is sent is a part of a table that is known.               *)
LEMMA NetStaysKnown ==
    ASSUME TypeOK, FollowInv, Next
    PROVE  NetKnown'
  <1>1. ASSUME NEW packets, Send(packets),
               \A packet \in packets : \A q \in DOMAIN packet.members :
                  packet.members[q].state # "UNKNOWN"
        PROVE  NetKnown'
    BY <1>1 DEF Send, FollowInv, NetKnown
  <1>2. ASSUME net' \subseteq net  PROVE NetKnown'
    BY <1>2 DEF FollowInv, NetKnown
  <1>3. CASE \E packet \in net : Receive(packet)
    BY <1>2, <1>3 DEF Receive
  <1>4. ASSUME NEW p \in Node, Join(p)  PROVE NetKnown'
    <2> DEFINE packets == {Packet(p, q, [id \in {p} |-> table[p][p]]) : q \in Seeds[p]}
    <2>1. table[p][p].state = "ALIVE" /\ Send(packets)
      BY <1>4 DEF Join, TypeOK, TablesOK
    <2>2. \A packet \in packets : \A q \in DOMAIN packet.members :
             packet.members[q].state # "UNKNOWN"
      BY <2>1 DEF Packet
    <2> HIDE DEF packets
    <2> QED  BY <1>1, <2>1, <2>2
  <1>5. ASSUME NEW p, NEW T, NEW members, Send(Sync(p, T, members))  PROVE NetKnown'
    <2>1. ASSUME NEW packet \in Sync(p, T, members), NEW q \in DOMAIN packet.members
          PROVE  packet.members[q].state # "UNKNOWN"
      <3>1. PICK x \in T : packet = Packet(p, x, [id \in Known(members) |-> members[id]])
        BY DEF Sync
      <3>2. q \in Known(members) /\ packet.members[q] = members[q]
        BY <3>1 DEF Packet
      <3> QED  BY <3>2 DEF Known
    <2> QED  BY <1>1, <1>5, <2>1
  <1>6. ASSUME NEW p \in Node, NEW T, GossipTo(p, T)  PROVE NetKnown'
    BY <1>5, <1>6 DEF GossipTo
  <1>7. ASSUME NEW p \in Node, Stop(p)  PROVE NetKnown'
    BY <1>5, <1>7 DEF Stop
  <1>8. ASSUME NEW p \in Node,
               \/ \E S \in SUBSET Node : DetectFailures(p, S)
               \/ RingEvent(p) \/ Kill(p) \/ Restore(p) \/ Crash(p) \/ Restart(p)
        PROVE  NetKnown'
    BY <1>2, <1>8 DEF DetectFailures, RingEvent, Kill, Restore, Crash, Restart
  <1> QED  BY <1>3, <1>4, <1>6, <1>7, <1>8 DEF Next

LEMMA StepKeepsFollow == TypeOK /\ FollowInv /\ [Next]_vars => FollowInv'
  <1> SUFFICES ASSUME TypeOK, FollowInv, [Next]_vars PROVE FollowInv'
    OBVIOUS
  <1>1. ASSUME UNCHANGED <<run, table, queue, ring, lost>>
        PROVE  RingsFollow' /\ StoppedAreEmpty'
    BY <1>1, FollowsSame DEF FollowInv, RingsFollow, StoppedAreEmpty
  <1>2. ASSUME NEW p \in Node, run' = run, ring' = ring, run[p] = "up",
               \A q \in Node \ {p} : queue'[q] = queue[q]
        PROVE  StoppedAreEmpty'
    BY <1>2 DEF FollowInv, StoppedAreEmpty
  <1>3. ASSUME NEW p \in Node, Join(p) \/ Kill(p) \/ \E T \in SUBSET Node : GossipTo(p, T)
        PROVE  RingsFollow' /\ StoppedAreEmpty'
    BY <1>1, <1>3 DEF Join, Kill, GossipTo
  <1>4. ASSUME NEW p \in Node, NEW S \in SUBSET Node, DetectFailures(p, S)
        PROVE  RingsFollow' /\ StoppedAreEmpty'
    <2>1. /\ run' = run /\ ring' = ring /\ run[p] = "up"
          /\ \A q \in Node \ {p} : queue'[q] = queue[q]
      BY <1>4 DEF DetectFailures, Update, TypeOK, QueuesOK
    <2> QED  BY <1>2, <1>4, <2>1, DetectFailuresFollows
  <1>5. ASSUME NEW p \in Node, RingEvent(p)
        PROVE  RingsFollow' /\ StoppedAreEmpty'
    <2>1. /\ run' = run /\ run[p] = "up"
          /\ \A q \in Node \ {p} : queue'[q] = queue[q] /\ ring'[q] = ring[q]
      BY <1>5 DEF RingEvent, TypeOK, QueuesOK, RingsOK
    <2>2. StoppedAreEmpty'
      BY <2>1 DEF FollowInv, StoppedAreEmpty
    <2> QED  BY <1>5, <2>2, RingEventFollows
  <1>6. ASSUME NEW p \in Node, Restore(p)
        PROVE  RingsFollow' /\ StoppedAreEmpty'
    <2>1. StoppedAreEmpty'
      BY <1>6 DEF Restore, FollowInv, StoppedAreEmpty
    <2> QED  BY <1>6, <2>1, RestoreFollows
  <1>7. ASSUME NEW p \in Node, Stop(p) \/ Crash(p)
        PROVE  RingsFollow' /\ StoppedAreEmpty'
    BY <1>7, EndFollows DEF Stop, Crash
  <1>8. ASSUME NEW p \in Node, Restart(p)
        PROVE  RingsFollow' /\ StoppedAreEmpty'
    BY <1>8, RestartFollows
  <1>9. ASSUME NEW packet \in net, Receive(packet)
        PROVE  RingsFollow' /\ StoppedAreEmpty'
    <2>1. StoppedAreEmpty'
      BY <1>9 DEF Receive, Update, Talking, TypeOK, QueuesOK, FollowInv, StoppedAreEmpty
    <2> QED  BY <1>9, <2>1, ReceiveFollows
  <1>10. CASE Next
    <2>1. RingsFollow' /\ StoppedAreEmpty'
      BY <1>3, <1>4, <1>5, <1>6, <1>7, <1>8, <1>9, <1>10 DEF Next
    <2> QED  BY <1>10, <2>1, NetStaysKnown DEF FollowInv
  <1>11. CASE UNCHANGED vars
    <2>1. NetKnown'
      BY <1>11 DEF vars, FollowInv, NetKnown
    <2> QED  BY <1>1, <1>11, <2>1 DEF vars, FollowInv
  <1> QED  BY <1>10, <1>11

LEMMA InitFollow == Init => FollowInv
  <1> SUFFICES ASSUME Init PROVE FollowInv
    OBVIOUS
  <1>1. ASSUME NEW p \in Node, NEW q \in Node \ {p}
        PROVE  /\ table[p][q].state = "UNKNOWN"
               /\ ~WillHoldOf(ring[p], queue[p], q)
    <2>1. ring[p] = {p} /\ queue[p] = <<>> /\ table[p][q] = Unknown
      BY FreshType DEF Init, States
    <2>2. ~WillHoldOf({p}, <<>>, q)
      BY EmptyHolds
    <2>3. table[p][q].state = "UNKNOWN"
      BY <2>1 DEF Unknown
    <2> QED  BY <2>1, <2>2, <2>3, Zenon
  <1> QED  BY <1>1 DEF Init, FollowInv, RingsFollow, Follows, NetKnown, StoppedAreEmpty

(* In a cluster of any size, whatever is lost, late or out of order and    *)
(* whoever crashes, leaves or comes back: a node that dropped no           *)
(* notification has, once its channel is read, every live member in its    *)
(* ring and no dead one.                                                   *)
THEOREM RingsCorrect == Spec => []RingFollowsMembers
  <1>1. TypeOK /\ FollowInv => RingFollowsMembers
    <2> SUFFICES ASSUME TypeOK, FollowInv, NEW p \in Node \ lost, run[p] = "up",
                        NEW q \in Node \ {p}
                 PROVE  /\ table[p][q].state = "ALIVE" => WillHold(p, q)
                        /\ table[p][q].state \in {"DEAD", "UNKNOWN"} => ~WillHold(p, q)
      BY DEF RingFollowsMembers
    <2>1. queue[p] \in Seq(Event(p))
      BY QueueTypes DEF TypeOK
    <2>2. DOMAIN queue[p] = 1 .. Len(queue[p])
      BY <2>1
    <2>3. WillHoldOf(ring[p], queue[p], q) <=> WillHold(p, q)
      BY <2>2, Zenon DEF WillHold, WillHoldOf, Joined
    <2> QED  BY <2>3 DEF FollowInv, RingsFollow, Follows
  <1> QED  BY <1>1, InitFollow, StepKeepsFollow, GossipTypes, PTL DEF Spec
=============================================================================
