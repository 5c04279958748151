-------------------------------- MODULE Ring --------------------------------
(***************************************************************************)
(* The consistent-hash ring of one node (internal/ring/ring.go), changed   *)
(* by the goroutine that reads membership events (internal/node/app.go):   *)
(* AddNode for every join, also of a member that only came back from       *)
(* suspicion and is still in the ring, and RemoveNode for every death.     *)
(*                                                                         *)
(* hr.ring, a sorted slice of tokens, is the bag "copies".  Hashes are     *)
(* small numbers, and no two nodes share a token.                          *)
(***************************************************************************)
EXTENDS Integers, Sequences, FiniteSets, FiniteSetsExt, SequencesExt

CONSTANTS
    Node,
    Self,       \* the node that owns the ring
    Nobody,     \* the owner of a token that keys does not know
    Token,      \* the hashes of each node's virtual nodes
    Hash,       \* the hashes of keys
    RF,         \* the configured replication factor
    MaxCopies   \* bound: how often a token can be in the slice

Tokens == UNION {Token[n] : n \in Node}

ASSUME RingAssumption ==
    /\ IsFiniteSet(Node) /\ Self \in Node /\ Nobody \notin Node
    /\ Token \in [Node -> (SUBSET Nat) \ {{}}] /\ Hash \subseteq Nat
    /\ \A n \in Node : IsFiniteSet(Token[n])
    /\ \A n, m \in Node : n # m => Token[n] \intersect Token[m] = {}
    /\ RF \in Nat \ {0} /\ MaxCopies \in Nat \ {0}

VARIABLES
    nodes,    \* the members
    copies,   \* how often each token is in the slice
    keys,     \* the owner of each token
    again     \* history: the nodes that were added while tokens of theirs were in

vars == <<nodes, copies, keys, again>>

-----------------------------------------------------------------------------
AddNode(n) ==
    /\ nodes' = nodes \union {n}
    /\ copies' = [t \in Tokens |-> copies[t] + (IF t \in Token[n] THEN 1 ELSE 0)]
    /\ keys' = [t \in Tokens |-> IF t \in Token[n] THEN n ELSE keys[t]]
    /\ again' = again \union {m \in {n} : \E t \in Token[n] : copies[t] > 0}

(* One pass over the slice: a token of the node is dropped and its owner   *)
(* forgotten, so that a second copy is no longer taken for the node's.     *)
AfterRemovalOfFirst(t, n) ==
    IF keys[t] = n /\ t = Min(Token[n]) THEN copies[t] - 1 ELSE copies[t]

AfterRemoval(t, n) == IF keys[t] = n THEN copies[t] - 1 ELSE copies[t]

OwnerKept(t, n) == keys[t]

OwnerForgotten(t, n) == IF keys[t] = n THEN Nobody ELSE keys[t]

RemoveNode(n) ==
    /\ nodes' = nodes \ {n}
    /\ copies' = [t \in Tokens |-> AfterRemoval(t, n)]
    /\ keys' = [t \in Tokens |-> OwnerForgotten(t, n)]
    /\ UNCHANGED again

-----------------------------------------------------------------------------
(* Lookups.                                                                *)

(* The elements of a set by rank; no two have the same.                    *)
Sorted(S, rank(_)) ==
    [i \in 1 .. Cardinality(S) |->
        CHOOSE x \in S : Cardinality({y \in S : rank(y) <= rank(x)}) = i]

(* sort.Search, wrapping around: the first token at or after the hash.     *)
Search(h) ==
    LET ring  == {t \in Tokens : copies[t] > 0}
        after == {t \in ring : t >= h}
    IN  IF after = {} THEN Min(ring) ELSE Min(after)

(* The members by their least token.                                       *)
maxHash(n) == Max({t \in Tokens : keys[t] = n})

minHash(n) == Min({t \in Tokens : keys[t] = n})

physicalRingOrder == Sorted(nodes, minHash)

(* Where the walk starts: at the owner of the token, or at the first       *)
(* member when the token has none.                                         *)
StartOfHash(h) == (h % Cardinality(nodes)) + 1

Start(h) ==
    LET order == physicalRingOrder
    IN  Min({i \in DOMAIN order : order[i] = keys[Search(h)]}
              \union (IF keys[Search(h)] \in nodes THEN {} ELSE {1}))

(* GetNodes and GetKeyInfo: members clockwise from the start.              *)
GetNodesToEnd(h, count) ==
    SubSeq(physicalRingOrder, Start(h), Min({Start(h) + count - 1, Cardinality(nodes)}))

GetNodes(h, count) ==
    LET order == physicalRingOrder
        size  == Len(order)
    IN  [i \in 1 .. Min({count, size}) |-> order[((Start(h) + i - 2) % size) + 1]]

-----------------------------------------------------------------------------
(* NewApp adds the node itself, which no membership event is about.        *)
Init ==
    /\ nodes = {Self}
    /\ copies = [t \in Tokens |-> IF t \in Token[Self] THEN 1 ELSE 0]
    /\ keys = [t \in Tokens |-> IF t \in Token[Self] THEN Self ELSE Nobody]
    /\ again = {}

Next ==
    \E n \in Node \ {Self} :
        \/ AddNode(n) /\ \A t \in Tokens : copies'[t] <= MaxCopies
        \/ RemoveNode(n)

Spec == Init /\ [][Next]_vars
-----------------------------------------------------------------------------
(* Correctness.                                                            *)

(* Types; and a token has the owner that hashes to it, or none.            *)
TypeOK ==
    /\ nodes \subseteq Node /\ Self \in nodes
    /\ copies \in [Tokens -> 0 .. MaxCopies]
    /\ keys \in [Tokens -> nodes \union {Nobody}]
    /\ \A t \in Tokens : keys[t] # Nobody => t \in Token[keys[t]] /\ copies[t] > 0
    /\ again \subseteq Node

(* What the coordinator relies on (WalkAssumption of module Coordinator):  *)
(* asked for as many nodes as there are members, the ring returns each of  *)
(* them once, whatever was added twice, removed, and orphaned.             *)
WalksVisitMembersOnce ==
    \A h \in Hash :
        LET walk == GetNodes(h, Cardinality(Node))
        IN  IsInjective(walk) /\ Range(walk) = nodes

(* The test of AddNode and RemoveNode: a member has its tokens once, and a *)
(* removed node has none.  It holds of the nodes that were never added     *)
(* twice; for the others RemoveNode leaves tokens without owner.           *)
RemovalTakesAllTokens ==
    \A n \in Node \ again : \A t \in Token[n] :
        copies[t] = IF n \in nodes THEN 1 ELSE 0

NoOrphans == \A t \in Tokens : copies[t] > 0 => keys[t] # Nobody

(* The replicas as a function of the members alone: the owner of the next  *)
(* token, and the members whose least tokens follow its own.               *)
Placement(h, members) ==
    LET ring    == UNION {Token[n] : n \in members}
        after   == {t \in ring : t >= h}
        first   == IF after = {} THEN Min(ring) ELSE Min(after)
        primary == CHOOSE n \in members : first \in Token[n]
        Least(n) == Min(Token[n])
        Passed(n, m) == IF Least(n) >= Least(primary)
                        THEN Least(m) \in Least(primary) .. Least(n) - 1
                        ELSE Least(m) \notin Least(n) .. Least(primary) - 1
    IN  {n \in members : Cardinality({m \in members : Passed(n, m)}) < RF}

(* Two nodes that know the same members place every key at the same        *)
(* replicas, in whatever order they heard of them, as long as no token has *)
(* lost its owner.                                                         *)
PlacementFollowsMembers ==
    NoOrphans => \A h \in Hash : Range(GetNodes(h, RF)) = Placement(h, nodes)

(* "When nodes leave or join, only a small fraction of keys move": a key   *)
(* moves only when the node that left was one of its replicas or the node  *)
(* that joined becomes one.  (It may then move from all of them: the       *)
(* primary follows the tokens, the others follow the primary's place.)     *)
OnlyTheirKeysMove ==
    [][nodes' # nodes /\ NoOrphans /\ NoOrphans' => \A h \in Hash :
         LET old == Range(GetNodes(h, RF))
             new == Range(GetNodes(h, RF)')
             changed == (nodes \ nodes') \union (nodes' \ nodes)
         IN  new # old => changed \subseteq (old \ new) \union (new \ old)]_vars
=============================================================================
