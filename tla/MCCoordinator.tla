--------------------------- MODULE MCCoordinator ----------------------------
EXTENDS Coordinator, TLC

CONSTANTS n1, n2

(* A ring in which removing a member does not disturb the others' order.   *)
WalkOf(order) ==
    [S \in SUBSET Range(order) |-> SelectSeq(order, LAMBDA n : n \in S)]

MCWalk == WalkOf(<<n1, n2>>)

Requests == Permutations(Request)
=============================================================================
