------------------------------- MODULE VClock -------------------------------
(***************************************************************************)
(* Vector clocks (internal/store/vclock.go).  A clock is a Go map from     *)
(* node ids to counters, so a function whose domain is the set of nodes    *)
(* that have an entry; reading a missing entry yields 0, as in Go.         *)
(***************************************************************************)
EXTENDS Integers

(* The clocks over the nodes N: any subset of N may have an entry.         *)
Clocks(N) == UNION {[D -> Nat] : D \in SUBSET N}

(* Membership in Clocks(N), in a form TLC evaluates.                       *)
IsClock(vc, N) == DOMAIN vc \subseteq N /\ vc \in [DOMAIN vc -> Nat]

(* NewVectorClock: a map without entries.                                  *)
EmptyClock == [n \in {} |-> 0]

(* vc[n] in Go: the entry, or the zero value when there is none.           *)
At(vc, n) == IF n \in DOMAIN vc THEN vc[n] ELSE 0

Increment(vc, n) ==
    [m \in DOMAIN vc \union {n} |-> At(vc, m) + (IF m = n THEN 1 ELSE 0)]

(* Merge writes the entries of "other" that are above its own.             *)
Merge(vc, other) ==
    LET raised == {n \in DOMAIN other : At(vc, n) < other[n]}
    IN  [n \in DOMAIN vc \union raised |->
            IF n \in raised THEN other[n] ELSE vc[n]]

(* The two flags that the loops of Compare compute.                        *)
IsGreater(vc, other) == \E n \in DOMAIN vc : vc[n] > At(other, n)

IsLess(vc, other) ==
    \/ \E n \in DOMAIN vc : vc[n] < At(other, n)
    \/ \E n \in DOMAIN other \ DOMAIN vc : other[n] > 0

CompareLessFirst(vc, other) ==
    IF IsLess(vc, other) THEN -1 ELSE IF IsGreater(vc, other) THEN 1 ELSE 0

(* 1: vc is newer, -1: older, 0: equal, 2: concurrent.                     *)
Compare(vc, other) ==
    CASE IsGreater(vc, other) /\ ~IsLess(vc, other) -> 1
      [] IsLess(vc, other) /\ ~IsGreater(vc, other) -> -1
      [] ~IsGreater(vc, other) /\ ~IsLess(vc, other) -> 0
      [] OTHER -> 2

-----------------------------------------------------------------------------
(* The reference order: entry by entry, over whatever both clocks name.    *)
Leq(vc, other) == \A n \in DOMAIN vc : vc[n] <= At(other, n)
=============================================================================
