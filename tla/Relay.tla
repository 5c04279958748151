------------------------------- MODULE Relay --------------------------------
(***************************************************************************)
(* How the events of one node reach the subscribers of the others          *)
(* (internal/gossip/gossip.go, internal/coordinator/coordinator.go).  Each *)
(* SYNC packet carries the whole buffer of pending events, which is never  *)
(* emptied: it only drops its oldest when it is full.  What keeps an event *)
(* from being shown again and again is the set of seen ones, and a         *)
(* maintenance loop removes those of more than thirty minutes ago.         *)
(*                                                                         *)
(* Ages are not kept: any seen event may be old.  Membership chooses the   *)
(* targets and is left out, and so is the chaos switch: what it silences   *)
(* is lost.  A node that starts again has an empty memory, and a bus with  *)
(* subscribers of its own.                                                 *)
(***************************************************************************)
EXTENDS Integers, Sequences, FiniteSets

CONSTANTS
    Peer,
    News,          \* the writes and deletes that are announced
    Origin,        \* the node that each of them succeeds on
    Buffer,        \* the length of pendingEvents (50)
    MaxForgotten,  \* bound: how often a node forgets an event
    MaxWire,       \* bound: packets in flight
    MaxCrashes     \* bound: restarts of nodes

ASSUME RelayAssumption ==
    /\ Origin \in [News -> Peer]
    /\ Buffer \in Nat \ {0} /\ {MaxForgotten, MaxWire, MaxCrashes} \subseteq Nat

VARIABLES
    stage,          \* of each event: new, published, broadcast, dropped
    pendingEvents,  \* per node
    seenEvents,     \* likewise
    wire,           \* packets in flight
    crashes,        \* restarts so far
    publications,   \* history: how often each process published each event
    forgotten       \* history: how often each process forgot it

relayVars ==
    <<stage, pendingEvents, seenEvents, wire, crashes, publications, forgotten>>

-----------------------------------------------------------------------------
NewsStages == {"new", "published", "broadcast", "dropped"}

Mail == [to : Peer, events : UNION {[1 .. n -> News] : n \in 0 .. Buffer}]

Buffered(events, e) ==
    LET longer == Append(events, e)
    IN  IF Len(longer) > Buffer THEN Tail(longer) ELSE longer

(* Write and Delete: the own bus first, then, under the gossiper's lock,   *)
(* its buffer.                                                             *)
Announce(e) ==
    /\ stage[e] = "new"
    /\ stage' = [stage EXCEPT ![e] = "published"]
    /\ publications' = [publications EXCEPT ![Origin[e]][e] = @ + 1]
    /\ UNCHANGED <<pendingEvents, seenEvents, wire, crashes, forgotten>>

unseenAtOrigin(p, e) == seenEvents[p]

seenAtOrigin(p, e) == seenEvents[p] \union {e}

BroadcastEvent(e) ==
    LET p == Origin[e]
    IN
    /\ stage[e] = "published"
    /\ stage' = [stage EXCEPT ![e] = "broadcast"]
    /\ seenEvents' = [seenEvents EXCEPT ![p] = seenAtOrigin(p, e)]
    /\ pendingEvents' = [pendingEvents EXCEPT ![p] = Buffered(@, e)]
    /\ UNCHANGED <<wire, crashes, publications, forgotten>>

(* gossip: the buffer goes to some peers, and to some of them arrives.  A  *)
(* packet without events changes nothing here.                             *)
SendPending(p, T) ==
    /\ pendingEvents[p] # <<>> /\ T # {}
    /\ wire' = wire \union {[to |-> q, events |-> pendingEvents[p]] : q \in T}
    /\ Cardinality(wire') <= MaxWire
    /\ UNCHANGED <<stage, pendingEvents, seenEvents, crashes, publications, forgotten>>

(* merge, event by event.                                                  *)
TakeEvent(memory, e) ==
    IF e \in memory.seen THEN memory
    ELSE [seen    |-> memory.seen \union {e},
          pending |-> Buffered(memory.pending, e),
          shown   |-> [memory.shown EXCEPT ![e] = @ + 1]]

MemoryAfter(p, events) ==
    LET memory[i \in 0 .. Len(events)] ==
            IF i = 0
            THEN [seen |-> seenEvents[p], pending |-> pendingEvents[p], shown |-> publications[p]]
            ELSE TakeEvent(memory[i - 1], events[i])
    IN  memory[Len(events)]

MergeEvents(mail) ==
    LET p == mail.to
        memory == MemoryAfter(p, mail.events)
    IN
    /\ wire' = wire \ {mail}
    /\ seenEvents' = [seenEvents EXCEPT ![p] = memory.seen]
    /\ pendingEvents' = [pendingEvents EXCEPT ![p] = memory.pending]
    /\ publications' = [publications EXCEPT ![p] = memory.shown]
    /\ UNCHANGED <<stage, crashes, forgotten>>

(* eventMaintenanceLoop: the buffer still holds what is forgotten.         *)
ForgetOld(p, old) ==
    /\ old \subseteq seenEvents[p] /\ old # {}
    /\ \A e \in old : forgotten[p][e] < MaxForgotten
    /\ seenEvents' = [seenEvents EXCEPT ![p] = @ \ old]
    /\ forgotten' = [forgotten EXCEPT ![p] = [e \in News |->
                        IF e \in old THEN @[e] + 1 ELSE @[e]]]
    /\ UNCHANGED <<stage, pendingEvents, wire, crashes, publications>>

(* NewGossiper; an event that was published and not yet handed to the      *)
(* gossiper stays at home.                                                 *)
StartAgain(p) ==
    /\ crashes < MaxCrashes /\ crashes' = crashes + 1
    /\ stage' = [e \in News |-> IF Origin[e] = p /\ stage[e] = "published"
                                THEN "dropped" ELSE stage[e]]
    /\ pendingEvents' = [pendingEvents EXCEPT ![p] = <<>>]
    /\ seenEvents' = [seenEvents EXCEPT ![p] = {}]
    /\ publications' = [publications EXCEPT ![p] = [e \in News |-> 0]]
    /\ forgotten' = [forgotten EXCEPT ![p] = [e \in News |-> 0]]
    /\ UNCHANGED wire

RelayInit ==
    /\ stage = [e \in News |-> "new"]
    /\ pendingEvents = [p \in Peer |-> <<>>]
    /\ seenEvents = [p \in Peer |-> {}]
    /\ wire = {}
    /\ crashes = 0
    /\ publications = [p \in Peer |-> [e \in News |-> 0]]
    /\ forgotten = [p \in Peer |-> [e \in News |-> 0]]

RelayNext ==
    \/ \E e \in News : Announce(e) \/ BroadcastEvent(e)
    \/ \E mail \in wire : MergeEvents(mail)
    \/ \E p \in Peer :
        \/ \E T \in SUBSET (Peer \ {p}) : SendPending(p, T)
        \/ \E old \in SUBSET News : ForgetOld(p, old)
        \/ StartAgain(p)

RelaySpec == RelayInit /\ [][RelayNext]_relayVars

-----------------------------------------------------------------------------
(* Types.                                                                  *)
RelayTypeOK ==
    /\ stage \in [News -> NewsStages]
    /\ \A p \in Peer : pendingEvents[p] \in Seq(News) /\ Len(pendingEvents[p]) <= Buffer
    /\ seenEvents \in [Peer -> SUBSET News]
    /\ wire \subseteq Mail
    /\ crashes \in 0 .. MaxCrashes
    /\ publications \in [Peer -> [News -> Nat]]
    /\ forgotten \in [Peer -> [News -> 0 .. MaxForgotten]]

(* A process shows its subscribers an event once, and once more only for   *)
(* every time that its memory of it has expired: whatever the buffers of   *)
(* its peers repeat, packets bring late, and restarts of others ask anew.  *)
(* Also the node that announced it, between its bus and its gossiper.      *)
RepeatsWereForgotten ==
    \A p \in Peer : \A e \in News : publications[p][e] <= 1 + forgotten[p][e]
=============================================================================
