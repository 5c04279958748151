-------------------------------- MODULE Guide -------------------------------
(***************************************************************************)
(* The guide of the dashboard (web/src/components/ExplorerGuide.tsx): a    *)
(* list of topics of which one is shown, and the toy ring of the topic     *)
(* "hashing", a list of nodes that lives as long as the topic is shown.    *)
(* React tells the nodes of that list apart by their names.  "Node 3" is   *)
(* 3; "Node A", "Node B" and "Node C" are members of a constant.           *)
(***************************************************************************)
EXTENDS Naturals, Sequences, SequencesExt

CONSTANTS
    FirstNames,    \* the names the list starts with
    MaxToyNodes    \* bound: length of the list

ASSUME GuideAssumption ==
    /\ FirstNames \in Seq(Range(FirstNames)) /\ IsInjective(FirstNames)
    /\ Range(FirstNames) \intersect Nat = {}
    /\ MaxToyNodes \in Nat

TOPICS == {"welcome", "dashboard", "cli", "exp-replication", "exp-chaos", "hashing",
           "gossip", "quorum"}

VARIABLES
    reading,        \* whether the guide is the current view
    activeTopic,
    toyNodes        \* the state of HashingSection

guideVars == <<reading, activeTopic, toyNodes>>

-----------------------------------------------------------------------------
(* The guide starts with the welcome whenever it is opened, and the topic  *)
(* with its first nodes whenever it is shown.                              *)
OpenGuide ==
    /\ ~reading
    /\ reading' = TRUE /\ activeTopic' = "welcome"
    /\ UNCHANGED toyNodes

onBack ==
    /\ reading
    /\ reading' = FALSE
    /\ UNCHANGED <<activeTopic, toyNodes>>

ShowTopic(topic) ==
    /\ reading /\ topic # activeTopic
    /\ activeTopic' = topic
    /\ toyNodes' = FirstNames
    /\ UNCHANGED reading

(* The name of a new node is the length of the list.                       *)
AddToyNode ==
    /\ reading /\ activeTopic = "hashing" /\ Len(toyNodes) < MaxToyNodes
    /\ toyNodes' = Append(toyNodes, Len(toyNodes))
    /\ UNCHANGED <<reading, activeTopic>>

WithoutFirst == Tail(toyNodes)

WithoutLast == Front(toyNodes)

RemoveToyNode ==
    /\ reading /\ activeTopic = "hashing"
    /\ toyNodes' = IF toyNodes = <<>> THEN toyNodes ELSE WithoutLast
    /\ UNCHANGED <<reading, activeTopic>>

GuideInit ==
    reading = FALSE /\ activeTopic = "welcome" /\ toyNodes = FirstNames

GuideNext ==
    \/ OpenGuide \/ onBack \/ AddToyNode \/ RemoveToyNode
    \/ \E topic \in TOPICS : ShowTopic(topic)

GuideSpec == GuideInit /\ [][GuideNext]_guideVars
-----------------------------------------------------------------------------
GuideTypeOK ==
    /\ reading \in BOOLEAN /\ activeTopic \in TOPICS
    /\ \A i \in DOMAIN toyNodes : toyNodes[i] \in Nat \union Range(FirstNames)

(* The names by which React tells the nodes apart are told apart: adding   *)
(* and removing, in any order and number, never gives a name twice.  (It   *)
(* would if nodes were removed at the front.)                              *)
GuideKeysUnique == IsInjective(toyNodes)
=============================================================================
