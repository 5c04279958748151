------------------------------ MODULE RingView ------------------------------
(***************************************************************************)
(* What the dashboard draws of the ring: fetchInitialData of               *)
(* web/src/App.tsx, which puts the nodes in order, and                     *)
(* web/src/components/HashRing.tsx, which draws them on a circle with arcs *)
(* from a key to its replicas.  The ring itself is module Ring; its        *)
(* snapshot (GetSnapshot) is "keys", the map from tokens to owners.        *)
(*                                                                         *)
(* Ring, event and drawing are of one moment here: answers of several      *)
(* moments are the matter of module Console.                               *)
(***************************************************************************)
EXTENDS Ring

(* Step 1: the hashes of the snapshot, which are texts in the JSON and     *)
(* compared as numbers.                                                    *)
AsText(t) == IF t < 10 THEN 20 * t ELSE 2 * t + 1

AsNumber(t) == t

hashesByText == Sorted({t \in Tokens : keys[t] # Nobody}, AsText)

sortedHashes == Sorted({t \in Tokens : keys[t] # Nobody}, AsNumber)

(* Steps 2 and 3: the members by their first appearance as an owner.  The  *)
(* snapshot is of the same moment, so that every member appears in it.     *)
firstAppearance(n) ==
    LET hashes == sortedHashes
    IN  Min({i \in DOMAIN hashes : keys[hashes[i]] = n})

drawnNodes == Sorted(nodes, firstAppearance)

(* The place of each node on the circle, of as many as there are nodes.    *)
nodePositions ==
    LET drawn == drawnNodes
    IN  [n \in nodes |-> CHOOSE i \in DOMAIN drawn : drawn[i] = n]

(* The event of a request (KeyOpMetadata), and the places its arcs end at: *)
(* a replica that is not drawn has no arc.                                 *)
KeyOp(h) == [key_hash |-> h, replica_nodes |-> GetNodes(h, RF)]

Arcs(meta, positions) ==
    [i \in {j \in DOMAIN meta.replica_nodes : meta.replica_nodes[j] \in DOMAIN positions} |->
        positions[meta.replica_nodes[i]]]
-----------------------------------------------------------------------------
(* "Sort physical nodes by ring SUCCESSION to ensure visual adjacency",    *)
(* "a stable clockwise ordering that matches the UI visualization": every  *)
(* replica of a key has its arc, and the arcs end at neighbours, clockwise *)
(* from the primary -- the browser and the node sort the ring in two ways  *)
(* that agree.                                                             *)
ReplicasAreNeighbours ==
    LET positions == nodePositions
        size == Cardinality(nodes)
    IN  \A h \in Hash :
            LET arcs == Arcs(KeyOp(h), positions)
            IN  /\ DOMAIN arcs = 1 .. Min({RF, size})
                /\ \A i \in 1 .. Min({RF, size}) - 1 : arcs[i + 1] = (arcs[i] % size) + 1
=============================================================================
