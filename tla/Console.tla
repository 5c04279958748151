------------------------------ MODULE Console -------------------------------
(***************************************************************************)
(* The dashboard's picture of the cluster and the selection of a node:     *)
(* web/src/App.tsx.                                                        *)
(*                                                                         *)
(* The cluster goes through versions, of which a constant says the members *)
(* and another in which order the members' least tokens follow each other. *)
(* A refresh (fetchInitialData) asks three endpoints at once; it is known  *)
(* by the version at its start and by what selectedNodeId was in the       *)
(* closure it was called from.  Each endpoint reads the cluster at some    *)
(* time between the start and the answer.                                  *)
(*                                                                         *)
(* Refreshes come from the event stream (module Feed: a socket opened, or  *)
(* an event of any client arrived), which is possible at any time, and     *)
(* from the user's own writes and chaos commands.                          *)
(***************************************************************************)
EXTENDS Integers, Sequences, FiniteSets, SequencesExt

CONSTANTS
    NodeId,
    NoNode,        \* undefined
    RingOrder,     \* all nodes by their least token
    MaxVersion,    \* bound: versions of the cluster
    Members,       \* the members of each version
    MaxRefresh     \* bound: refreshes in flight

Versions == 1 .. MaxVersion

ASSUME ConsoleAssumption ==
    /\ NoNode \notin NodeId
    /\ RingOrder \in Seq(NodeId) /\ IsInjective(RingOrder) /\ Range(RingOrder) = NodeId
    /\ MaxVersion \in Nat \ {0} /\ MaxRefresh \in Nat \ {0}
    /\ Members \in [Versions -> (SUBSET NodeId) \ {{}}]

VARIABLES
    version,         \* of the cluster
    refresh,         \* the refreshes in flight
    ringData,        \* the version shown, 0 before the first
    cluster,         \* cluster.nodes, in the order shown
    clusterKeys,     \* the version shown, 0 before the first
    selectedNodeId, activeModal, currentView,
    asked,           \* history: the version when the last refresh started
    spoiled          \* history: since refreshes were last all answered, two
                     \* overlapped or one failed

consoleVars == <<version, refresh, ringData, cluster, clusterKeys, selectedNodeId,
                 activeModal, currentView, asked, spoiled>>

Slots == 1 .. MaxRefresh

(* A refresh waits for a POST of the user, for all three answers, or has   *)
(* only the body of the last one to read.                                  *)
Idle == [stage |-> "idle"]

Posting(selected) == [stage |-> "post", selected |-> selected]

Fetching(selected, v) == [stage |-> "fetch", selected |-> selected, since |-> v]

ReadingKeys(v) == [stage |-> "keys", read |-> v]

InFlight == {i \in Slots : refresh[i].stage \in {"fetch", "keys"}}

-----------------------------------------------------------------------------
(* Steps 1 and 2: the index of a node among those of a ring snapshot by    *)
(* first appearance; only its order matters.  Nodes that the snapshot does *)
(* not have come before all others.                                        *)
RingPlace(n) == CHOOSE p \in DOMAIN RingOrder : RingOrder[p] = n

indexOf(n, v) == IF n \in Members[v] THEN RingPlace(n) ELSE 0

(* Step 3: the nodes by that index; those that have none come as the       *)
(* server listed them, which is in no order.                               *)
SortedByIndex(nodesRead, v) ==
    {order \in SetToSeqs(Members[nodesRead]) :
        \A i, j \in DOMAIN order : i < j => indexOf(order[i], v) <= indexOf(order[j], v)}

SortedByShownRing(nodesRead, ringRead) ==
    SortedByIndex(nodesRead, IF ringData = 0 THEN ringRead ELSE ringData)

SortedByRing(nodesRead, ringRead) == SortedByIndex(nodesRead, ringRead)

Starts(i, selected) ==
    /\ refresh' = [refresh EXCEPT ![i] = Fetching(selected, version)]
    /\ asked' = version
    /\ spoiled' = (InFlight # {})

(* From the effect of the first render, whose selectedNodeId is undefined  *)
(* for ever.                                                               *)
RefreshFromFeed(i) ==
    /\ refresh[i] = Idle
    /\ Starts(i, NoNode)
    /\ UNCHANGED <<version, ringData, cluster, clusterKeys, selectedNodeId, activeModal,
                   currentView>>

(* handleSet and handleChaos: a POST, and a refresh when it went well.     *)
Post(i) ==
    /\ refresh[i] = Idle
    /\ refresh' = [refresh EXCEPT ![i] = Posting(selectedNodeId)]

WriteKey(i) ==
    /\ currentView = "dashboard"
    /\ Post(i)
    /\ UNCHANGED <<version, ringData, cluster, clusterKeys, selectedNodeId, activeModal,
                   currentView, asked, spoiled>>

Chaos(i) ==
    /\ activeModal = "chaos"
    /\ Post(i)
    /\ activeModal' = "none"
    /\ UNCHANGED <<version, ringData, cluster, clusterKeys, selectedNodeId, currentView,
                   asked, spoiled>>

PostAnswered(i) ==
    /\ refresh[i].stage = "post"
    /\ Starts(i, refresh[i].selected)
    /\ UNCHANGED <<version, ringData, cluster, clusterKeys, selectedNodeId, activeModal,
                   currentView>>

PostFails(i) ==
    /\ refresh[i].stage = "post"
    /\ refresh' = [refresh EXCEPT ![i] = Idle]
    /\ UNCHANGED <<version, ringData, cluster, clusterKeys, selectedNodeId, activeModal,
                   currentView, asked, spoiled>>

(* All three answers are there, and ring and nodes are good.  The body of  *)
(* the keys is read after the picture was set.                             *)
SelectedAfter(selected, order) ==
    IF selected = NoNode /\ order # <<>> THEN Head(order) ELSE selectedNodeId

RefreshArrives(i) ==
    /\ refresh[i].stage = "fetch"
    /\ \E ringRead, nodesRead, keysRead \in refresh[i].since .. version :
          /\ ringData' = ringRead
          /\ \E order \in SortedByRing(nodesRead, ringRead) :
                /\ cluster' = order
                /\ selectedNodeId' = SelectedAfter(refresh[i].selected, order)
          /\ refresh' = [refresh EXCEPT ![i] = ReadingKeys(keysRead)]
    /\ UNCHANGED <<version, clusterKeys, activeModal, currentView, asked, spoiled>>

KeysNotSet(i) == clusterKeys

KeysSet(i) == refresh[i].read

KeysArrive(i) ==
    /\ refresh[i].stage = "keys"
    /\ clusterKeys' = KeysSet(i)
    /\ refresh' = [refresh EXCEPT ![i] = Idle]
    /\ UNCHANGED <<version, ringData, cluster, selectedNodeId, activeModal, currentView,
                   asked, spoiled>>

(* The ring or the nodes are not ok, but the keys are.                     *)
OnlyKeysArrive(i) ==
    /\ refresh[i].stage = "fetch"
    /\ \E v \in refresh[i].since .. version :
          refresh' = [refresh EXCEPT ![i] = ReadingKeys(v)]
    /\ spoiled' = TRUE
    /\ UNCHANGED <<version, ringData, cluster, clusterKeys, selectedNodeId, activeModal,
                   currentView, asked>>

(* A network error, or an answer that is not ok: nothing more is set.      *)
RefreshFails(i) ==
    /\ i \in InFlight
    /\ refresh' = [refresh EXCEPT ![i] = Idle]
    /\ spoiled' = TRUE
    /\ UNCHANGED <<version, ringData, cluster, clusterKeys, selectedNodeId, activeModal,
                   currentView, asked>>

-----------------------------------------------------------------------------
(* The user.                                                               *)
Select(n) ==
    /\ selectedNodeId' = n
    /\ UNCHANGED <<version, refresh, ringData, cluster, clusterKeys, currentView, asked,
                   spoiled>>

ClickNodeOnRing(n) ==
    /\ currentView = "dashboard" /\ activeModal = "none"
    /\ n \in Range(cluster)
    /\ Select(n)
    /\ activeModal' = "explorer"

ClickNodeInExplorer(n) ==
    /\ activeModal = "explorer"
    /\ n \in Range(cluster)
    /\ Select(n)
    /\ UNCHANGED activeModal

(* The header's buttons, which the guide hides.                            *)
ToggleModal(modal) ==
    /\ currentView = "dashboard"
    /\ activeModal' = IF activeModal = modal THEN "none" ELSE modal
    /\ UNCHANGED <<version, refresh, ringData, cluster, clusterKeys, selectedNodeId,
                   currentView, asked, spoiled>>

CloseModal ==
    /\ activeModal # "none"
    /\ activeModal' = "none"
    /\ UNCHANGED <<version, refresh, ringData, cluster, clusterKeys, selectedNodeId,
                   currentView, asked, spoiled>>

SwitchView ==
    /\ currentView' = IF currentView = "guide" THEN "dashboard" ELSE "guide"
    /\ UNCHANGED <<version, refresh, ringData, cluster, clusterKeys, selectedNodeId,
                   activeModal, asked, spoiled>>

(* Members come and go, keys are written: by anybody.                      *)
ClusterChanges ==
    /\ version < MaxVersion
    /\ version' = version + 1
    /\ UNCHANGED <<refresh, ringData, cluster, clusterKeys, selectedNodeId, activeModal,
                   currentView, asked, spoiled>>

ConsoleInit ==
    /\ version = 1
    /\ refresh = [i \in Slots |-> Idle]
    /\ ringData = 0 /\ cluster = <<>> /\ clusterKeys = 0
    /\ selectedNodeId = NoNode
    /\ activeModal = "none" /\ currentView = "dashboard"
    /\ asked = 0 /\ spoiled = FALSE

ConsoleNext ==
    \/ \E i \in Slots :
          \/ RefreshFromFeed(i) \/ WriteKey(i) \/ Chaos(i) \/ PostAnswered(i) \/ PostFails(i)
          \/ RefreshArrives(i) \/ OnlyKeysArrive(i) \/ KeysArrive(i) \/ RefreshFails(i)
    \/ \E n \in NodeId : ClickNodeOnRing(n) \/ ClickNodeInExplorer(n)
    \/ \E modal \in {"explorer", "chaos"} : ToggleModal(modal)
    \/ CloseModal \/ SwitchView \/ ClusterChanges

ConsoleSpec == ConsoleInit /\ [][ConsoleNext]_consoleVars
-----------------------------------------------------------------------------
Selections == NodeId \union {NoNode}

ConsoleTypeOK ==
    /\ version \in Versions
    /\ refresh \in [Slots -> {Idle} \union {Posting(n) : n \in Selections}
                               \union {Fetching(n, v) : n \in Selections, v \in Versions}
                               \union {ReadingKeys(v) : v \in Versions}]
    /\ ringData \in 0 .. MaxVersion /\ clusterKeys \in 0 .. MaxVersion
    /\ cluster \in Seq(NodeId) /\ IsInjective(cluster)
    /\ selectedNodeId \in Selections
    /\ activeModal \in {"none", "explorer", "chaos"}
    /\ currentView \in {"dashboard", "guide"}
    /\ asked \in 0 .. MaxVersion /\ spoiled \in BOOLEAN

(* "Sort physical nodes by ring SUCCESSION to ensure visual adjacency":    *)
(* the nodes that are drawn and own tokens of the ring that is drawn are   *)
(* in the order of that ring, after those that own none, whatever answers  *)
(* overtook each other.                                                    *)
DrawnInRingOrder ==
    LET Strange(i) == cluster[i] \notin Members[ringData]
    IN  \A i, j \in DOMAIN cluster :
            i < j => \/ Strange(i)
                     \/ ~Strange(j) /\ RingPlace(cluster[i]) < RingPlace(cluster[j])

(* Once all refreshes are answered, the picture is at least as new as the  *)
(* cluster was when the last one started, unless two overlapped (the older *)
(* one may be answered last, and nothing corrects it) or one failed.       *)
QuietPictureIsRecent ==
    InFlight = {} /\ ~spoiled /\ asked # 0 =>
        ringData >= asked /\ clusterKeys >= asked /\
        \E v \in Versions : v >= asked /\ Range(cluster) = Members[v]

(* "Click any node to explore": while the explorer is open, the node that  *)
(* it shows changes by the clicks of the user, which no answer undoes.     *)
ExploredNodeIsTheUsers ==
    [][activeModal = "explorer" /\ selectedNodeId \notin {NoNode, selectedNodeId'}
         => UNCHANGED refresh]_consoleVars
=============================================================================
