------------------------------ MODULE Explorer -----------------------------
(***************************************************************************)
(* The cluster explorer of the dashboard: components/NodeExplorer.tsx.     *)
(*                                                                         *)
(* Its parent (App.tsx, module Console) mounts it with the explorer modal  *)
(* and gives it a node and the keys of every node; both change at any      *)
(* time, by the user's clicks and by refreshes.  The component asks for    *)
(* the node's details and for the values of keys and has no way to tell    *)
(* which request an answer belongs to: "details" and "values" count the    *)
(* requests in flight for each node and each key.  What is shown is known  *)
(* by the node or the key that was asked for; "(not found)" and the error  *)
(* texts are answers for the key, too.                                     *)
(***************************************************************************)
EXTENDS Integers, FiniteSets

CONSTANTS
    Shard,        \* nodes
    Record,       \* keys
    Nothing,      \* undefined, null
    MaxPending    \* bound: requests in flight for one node or key

ASSUME ExplorerAssumption ==
    /\ Nothing \notin Shard \union Record
    /\ MaxPending \in Nat \ {0}

VARIABLES
    open,           \* whether the component is mounted
    node,           \* the prop selectedNodeId
    nodeKeys,       \* the prop clusterKeys
    nodeDetail, loading, details,
    selectedKey, keyValue, loadingValue, values,
    copied,
    detailMissed,   \* history: the last details requests overlapped, or one failed
    valuesOverlap   \* history: the last value requests overlapped

explorerVars == <<open, node, nodeKeys, nodeDetail, loading, details, selectedKey,
                  keyValue, loadingValue, values, copied, detailMissed, valuesOverlap>>

NoneOf(S) == [x \in S |-> 0]

-----------------------------------------------------------------------------
(* fetchNodeDetail up to its first await, and what the effect does with it *)
(* whenever selectedNodeId changes.                                        *)
neverLoading == FALSE

startLoading == TRUE

Effect(n) ==
    /\ node' = n
    /\ IF n = Nothing
       THEN UNCHANGED <<loading, details, detailMissed, selectedKey, keyValue>>
       ELSE /\ loading' = startLoading
            /\ details' = [details EXCEPT ![n] = @ + 1]
            /\ detailMissed' = (details # NoneOf(Shard))
            /\ selectedKey' = Nothing /\ keyValue' = Nothing

(* Mounted: fresh state, then the effect.  Unmounted: answers still in     *)
(* flight set the state of a component that is no more.                    *)
Mount(n) ==
    /\ ~open
    /\ open' = TRUE
    /\ node' = n
    /\ nodeDetail' = Nothing
    /\ loading' = (n # Nothing)
    /\ details' = [s \in Shard |-> IF s = n THEN 1 ELSE 0]
    /\ detailMissed' = FALSE
    /\ selectedKey' = Nothing /\ keyValue' = Nothing
    /\ loadingValue' = FALSE /\ values' = NoneOf(Record) /\ valuesOverlap' = FALSE
    /\ copied' = FALSE
    /\ UNCHANGED nodeKeys

Unmount ==
    /\ open
    /\ open' = FALSE
    /\ details' = NoneOf(Shard) /\ values' = NoneOf(Record)
    /\ UNCHANGED <<node, nodeKeys, nodeDetail, loading, selectedKey, keyValue,
                   loadingValue, copied, detailMissed, valuesOverlap>>

(* By a click in the sidebar, or by a refresh of the parent.               *)
NodeChanges(n) ==
    /\ open /\ n # node
    /\ n \in Shard /\ details[n] < MaxPending
    /\ Effect(n)
    /\ UNCHANGED <<open, nodeKeys, nodeDetail, loadingValue, values, copied, valuesOverlap>>

KeysChange(s, keys) ==
    /\ nodeKeys' = [nodeKeys EXCEPT ![s] = keys]
    /\ UNCHANGED <<open, node, nodeDetail, loading, details, selectedKey, keyValue,
                   loadingValue, values, copied, detailMissed, valuesOverlap>>

DetailArrives(n, ok) ==
    /\ details[n] > 0
    /\ details' = [details EXCEPT ![n] = @ - 1]
    /\ nodeDetail' = IF ok THEN n ELSE nodeDetail
    /\ loading' = FALSE
    /\ detailMissed' = (detailMissed \/ ~ok)
    /\ UNCHANGED <<open, node, nodeKeys, selectedKey, keyValue, loadingValue, values,
                   copied, valuesOverlap>>

(* currentKeys, of which the filter shows some.                            *)
currentKeys == IF node = Nothing THEN {} ELSE nodeKeys[node]

(* fetchKeyValue up to its await: a second click closes the key.           *)
loadingFromElsewhere == loadingValue

loadingFrom == TRUE

ToggleKey(k) ==
    /\ selectedKey = k
    /\ selectedKey' = Nothing /\ keyValue' = Nothing
    /\ UNCHANGED <<loadingValue, values, valuesOverlap>>

AskForValue(k) ==
    /\ selectedKey # k /\ values[k] < MaxPending
    /\ selectedKey' = k /\ keyValue' = Nothing
    /\ loadingValue' = loadingFrom
    /\ values' = [values EXCEPT ![k] = @ + 1]
    /\ valuesOverlap' = (values # NoneOf(Record))

ClickKey(k) ==
    /\ open /\ k \in currentKeys
    /\ ToggleKey(k) \/ AskForValue(k)
    /\ UNCHANGED <<open, node, nodeKeys, nodeDetail, loading, details, copied, detailMissed>>

(* Found, absent, refused or failed: the panel gets a text in every case.  *)
ValueArrives(k) ==
    /\ values[k] > 0
    /\ values' = [values EXCEPT ![k] = @ - 1]
    /\ keyValue' = k
    /\ loadingValue' = FALSE
    /\ UNCHANGED <<open, node, nodeKeys, nodeDetail, loading, details, selectedKey, copied,
                   detailMissed, valuesOverlap>>

CloseValue ==
    /\ open /\ selectedKey # Nothing
    /\ selectedKey' = Nothing /\ keyValue' = Nothing
    /\ UNCHANGED <<open, node, nodeKeys, nodeDetail, loading, details, loadingValue, values,
                   copied, detailMissed, valuesOverlap>>

(* copyValue, and its timer.                                               *)
CopyValue ==
    /\ open /\ selectedKey # Nothing /\ keyValue # Nothing
    /\ copied' = TRUE
    /\ UNCHANGED <<open, node, nodeKeys, nodeDetail, loading, details, selectedKey, keyValue,
                   loadingValue, values, detailMissed, valuesOverlap>>

CopiedFades ==
    /\ copied
    /\ copied' = FALSE
    /\ UNCHANGED <<open, node, nodeKeys, nodeDetail, loading, details, selectedKey, keyValue,
                   loadingValue, values, detailMissed, valuesOverlap>>

ExplorerInit ==
    /\ open = FALSE /\ node = Nothing
    /\ nodeKeys = [s \in Shard |-> {}]
    /\ nodeDetail = Nothing /\ loading = FALSE /\ details = NoneOf(Shard)
    /\ selectedKey = Nothing /\ keyValue = Nothing
    /\ loadingValue = FALSE /\ values = NoneOf(Record)
    /\ copied = FALSE
    /\ detailMissed = FALSE /\ valuesOverlap = FALSE

ExplorerNext ==
    \/ \E n \in Shard \union {Nothing} : Mount(n)
    \/ \E n \in Shard : NodeChanges(n) \/ \E ok \in BOOLEAN : DetailArrives(n, ok)
    \/ \E n \in Shard : \E keys \in SUBSET Record : KeysChange(n, keys)
    \/ \E k \in Record : ClickKey(k) \/ ValueArrives(k)
    \/ Unmount \/ CloseValue \/ CopyValue \/ CopiedFades

ExplorerSpec == ExplorerInit /\ [][ExplorerNext]_explorerVars
-----------------------------------------------------------------------------
ExplorerTypeOK ==
    /\ open \in BOOLEAN /\ node \in Shard \union {Nothing}
    /\ nodeKeys \in [Shard -> SUBSET Record]
    /\ nodeDetail \in Shard \union {Nothing} /\ loading \in BOOLEAN
    /\ details \in [Shard -> Nat]
    /\ selectedKey \in Record \union {Nothing} /\ keyValue \in Record \union {Nothing}
    /\ loadingValue \in BOOLEAN /\ values \in [Record -> Nat]
    /\ copied \in BOOLEAN /\ detailMissed \in BOOLEAN /\ valuesOverlap \in BOOLEAN

(* What the panel shows of a node, dimmed while it loads, and of a key.    *)
NodePanel == [title |-> node, detail |-> nodeDetail, dimmed |-> loading]

ValuePanel ==
    IF selectedKey = Nothing THEN [shows |-> "hint"]
    ELSE IF loadingValue THEN [shows |-> "fetching", for |-> selectedKey]
    ELSE [shows |-> "value", for |-> selectedKey, value |-> keyValue]

(* The status, size and role in the header are those of the node whose     *)
(* name stands next to them, unless the panel is dimmed, or the details    *)
(* were asked for while other answers were on their way, or were not given *)
(* (the panel then goes on to show those of another node).                 *)
DetailOfSelectedNode ==
    open /\ node # Nothing /\ ~NodePanel.dimmed /\ ~detailMissed
        => NodePanel.detail = NodePanel.title

(* What stands under "Value for" a key is the answer for that key, unless  *)
(* it was asked for while the answer for another was on its way; changing  *)
(* the node, closing the key and opening it again are no exceptions.       *)
ValueOfSelectedKey ==
    open /\ ValuePanel.shows = "value" /\ ~valuesOverlap
        => ValuePanel.value = ValuePanel.for
=============================================================================
