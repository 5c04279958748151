------------------------------ MODULE MCGossip ------------------------------
EXTENDS Gossip, TLC

CONSTANTS n1, n2

(* As in docker-compose.yml, every node has all others for seeds.          *)
MCSeeds == [p \in Node |-> Node \ {p}]

(* A cluster that n1 began: it was started without seeds, the others join  *)
(* through it.                                                             *)
MCFirst == [p \in Node |-> {n1} \ {p}]
=============================================================================
