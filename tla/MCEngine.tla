------------------------------ MODULE MCEngine ------------------------------
EXTENDS Engine, TLC

CONSTANTS w1, w2, w3, d1, n1, n2

(* Two writes of one coordinator, one after the other, a concurrent one    *)
(* with a time to live, and a delete.                                      *)
MCClock ==
    w1 :> (n1 :> 1) @@ w2 :> (n1 :> 2) @@ w3 :> (n2 :> 1)
=============================================================================
