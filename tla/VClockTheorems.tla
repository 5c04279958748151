--------------------------- MODULE VClockTheorems ---------------------------
(***************************************************************************)
(* What the vector clock operations of internal/store/vclock.go guarantee, *)
(* for clocks over any set of nodes.                                       *)
(***************************************************************************)
EXTENDS VClock, TLAPS

(* IsClock is membership in Clocks.                                        *)
LEMMA ClockIsMember ==
    ASSUME NEW N, NEW vc
    PROVE  IsClock(vc, N) <=> vc \in Clocks(N)
  BY DEF IsClock, Clocks

(* Reading an entry, present or missing, gives a natural number.           *)
LEMMA AtType ==
    ASSUME NEW N, NEW vc, IsClock(vc, N), NEW n
    PROVE  At(vc, n) \in Nat
  BY DEF IsClock, At

LEMMA EmptyClockType ==
    ASSUME NEW N
    PROVE  IsClock(EmptyClock, N)
  BY DEF IsClock, EmptyClock

(* Increment yields a clock over the same nodes.                           *)
LEMMA IncrementType ==
    ASSUME NEW N, NEW vc, IsClock(vc, N), NEW n \in N
    PROVE  IsClock(Increment(vc, n), N)
  <1>1. \A m : At(vc, m) \in Nat
    BY AtType
  <1>2. Increment(vc, n) \in [DOMAIN vc \union {n} -> Nat]
    BY <1>1 DEF Increment
  <1> QED  BY <1>2 DEF IsClock

(* The entry-wise order of two clocks, whatever nodes they name.           *)
LEMMA LeqAt ==
    ASSUME NEW N, NEW a, NEW b, IsClock(a, N), IsClock(b, N)
    PROVE  Leq(a, b) <=> \A n : At(a, n) <= At(b, n)
  <1>1. \A n : At(b, n) \in Nat
    BY AtType
  <1>2. ASSUME Leq(a, b), NEW n  PROVE At(a, n) <= At(b, n)
    BY <1>1, <1>2 DEF Leq, At
  <1>3. ASSUME \A n : At(a, n) <= At(b, n)  PROVE Leq(a, b)
    BY <1>3 DEF Leq, At
  <1> QED  BY <1>2, <1>3

(* The flag isGreater of Compare is the negation of the order.             *)
LEMMA GreaterIsNotLeq ==
    ASSUME NEW N, NEW a, NEW b, IsClock(a, N), IsClock(b, N)
    PROVE  IsGreater(a, b) <=> ~Leq(a, b)
  <1>1. \A n : At(b, n) \in Nat
    BY AtType
  <1>2. \A n \in DOMAIN a : a[n] \in Nat
    BY DEF IsClock
  <1> QED  BY <1>1, <1>2 DEF IsGreater, Leq

(* The flag isLess, computed by two loops, is the negation of the converse.*)
LEMMA LessIsNotGeq ==
    ASSUME NEW N, NEW a, NEW b, IsClock(a, N), IsClock(b, N)
    PROVE  IsLess(a, b) <=> ~Leq(b, a)
  <1>1. \A n \in DOMAIN a : a[n] \in Nat
    BY DEF IsClock
  <1>2. \A n \in DOMAIN b : b[n] \in Nat
    BY DEF IsClock
  <1>3. ASSUME IsLess(a, b)  PROVE ~Leq(b, a)
    <2>1. CASE \E n \in DOMAIN a : a[n] < At(b, n)
      <3>1. PICK n \in DOMAIN a : a[n] < At(b, n)
        BY <2>1
      <3>2. n \in DOMAIN b /\ a[n] < b[n]
        BY <3>1, <1>1 DEF At
      <3> QED  BY <3>1, <3>2, <1>1, <1>2 DEF Leq, At
    <2>2. CASE \E n \in DOMAIN b \ DOMAIN a : b[n] > 0
      BY <2>2, <1>2 DEF Leq, At
    <2> QED  BY <1>3, <2>1, <2>2 DEF IsLess
  <1>4. ASSUME ~Leq(b, a)  PROVE IsLess(a, b)
    <2>1. PICK n \in DOMAIN b : ~(b[n] <= At(a, n))
      BY <1>4 DEF Leq
    <2>2. CASE n \in DOMAIN a
      BY <2>1, <2>2, <1>1, <1>2 DEF IsLess, At
    <2>3. CASE n \notin DOMAIN a
      BY <2>1, <2>3, <1>2 DEF IsLess, At
    <2> QED  BY <2>2, <2>3
  <1> QED  BY <1>3, <1>4

(* Compare decides the entry-wise partial order, and its four results are  *)
(* the four ways two clocks can stand to each other: the two loops over    *)
(* maps with missing entries miss no case.                                 *)
THEOREM CompareDecidesOrder ==
    ASSUME NEW N, NEW a, NEW b, IsClock(a, N), IsClock(b, N)
    PROVE  /\ Compare(a, b) \in {1, -1, 0, 2}
           /\ Compare(a, b) =  1 <=> Leq(b, a) /\ ~Leq(a, b)
           /\ Compare(a, b) = -1 <=> Leq(a, b) /\ ~Leq(b, a)
           /\ Compare(a, b) =  0 <=> Leq(a, b) /\ Leq(b, a)
           /\ Compare(a, b) =  2 <=> ~Leq(a, b) /\ ~Leq(b, a)
  BY GreaterIsNotLeq, LessIsNotGeq DEF Compare

(* A version that SetVersioned does not drop is at least the stored one.   *)
COROLLARY NotAboveIsLeq ==
    ASSUME NEW N, NEW a, NEW b, IsClock(a, N), IsClock(b, N)
    PROVE  ~(Compare(a, b) > 0) <=> Leq(a, b)
  BY CompareDecidesOrder

(* The order is transitive, so "newer" can be decided along a chain.       *)
LEMMA LeqTransitive ==
    ASSUME NEW N, NEW a, NEW b, NEW c,
           IsClock(a, N), IsClock(b, N), IsClock(c, N), Leq(a, b), Leq(b, c)
    PROVE  Leq(a, c)
  <1>1. \A n : At(a, n) \in Nat /\ At(b, n) \in Nat /\ At(c, n) \in Nat
    BY AtType
  <1>2. \A n : At(a, n) <= At(b, n) /\ At(b, n) <= At(c, n)
    BY LeqAt
  <1>3. \A n : At(a, n) <= At(c, n)
    BY <1>1, <1>2
  <1> QED  BY <1>3, LeqAt

(* Incrementing makes a clock strictly newer than the one it came from,    *)
(* and so than every clock that one is at least: a coordinator's write is  *)
(* newer than the version its first replica held and than all that version *)
(* was newer than or equal to.                                             *)
THEOREM IncrementIsNewer ==
    ASSUME NEW N, NEW vc, IsClock(vc, N), NEW n \in N
    PROVE  /\ Compare(Increment(vc, n), vc) = 1
           /\ \A c : IsClock(c, N) /\ Leq(c, vc) => Compare(Increment(vc, n), c) = 1
  <1> DEFINE up == Increment(vc, n)
  <1>1. IsClock(up, N)
    BY IncrementType
  <1>2. \A m : At(vc, m) \in Nat
    BY AtType
  <1>3. \A m : At(up, m) = At(vc, m) + (IF m = n THEN 1 ELSE 0)
    BY <1>2 DEF Increment, At
  <1>4. Leq(vc, up)
    BY <1>1, <1>2, <1>3, LeqAt
  <1>5. ~Leq(up, vc)
    BY <1>1, <1>2, <1>3, LeqAt
  <1> HIDE DEF up
  <1>6. Compare(up, vc) = 1
    BY <1>1, <1>4, <1>5, CompareDecidesOrder
  <1>7. ASSUME NEW c, IsClock(c, N), Leq(c, vc)  PROVE Compare(up, c) = 1
    <2>1. Leq(c, up)
      BY <1>1, <1>4, <1>7, LeqTransitive
    <2>2. ~Leq(up, c)
      BY <1>1, <1>5, <1>7, LeqTransitive
    <2> QED  BY <1>1, <1>7, <2>1, <2>2, CompareDecidesOrder
  <1> QED  BY <1>6, <1>7 DEF up

(* Merge is the least upper bound.                                         *)
THEOREM MergeIsLub ==
    ASSUME NEW N, NEW a, NEW b, IsClock(a, N), IsClock(b, N)
    PROVE  /\ IsClock(Merge(a, b), N)
           /\ Leq(a, Merge(a, b)) /\ Leq(b, Merge(a, b))
           /\ \A c : IsClock(c, N) /\ Leq(a, c) /\ Leq(b, c) => Leq(Merge(a, b), c)
  <1> DEFINE m == Merge(a, b)
  <1>1. \A n : At(a, n) \in Nat /\ At(b, n) \in Nat
    BY AtType
  <1>2. \A n \in DOMAIN b : b[n] = At(b, n)
    BY DEF At
  <1>3. \A n \in DOMAIN a : a[n] = At(a, n)
    BY DEF At
  <1>4. IsClock(m, N)
    BY <1>1, <1>2, <1>3 DEF Merge, IsClock
  <1>5. \A n : At(m, n) = IF At(a, n) < At(b, n) THEN At(b, n) ELSE At(a, n)
    BY <1>1 DEF Merge, At
  <1> HIDE DEF m
  <1>6. Leq(a, m) /\ Leq(b, m)
    BY <1>1, <1>4, <1>5, LeqAt
  <1>7. ASSUME NEW c, IsClock(c, N), Leq(a, c), Leq(b, c)  PROVE Leq(m, c)
    BY <1>4, <1>5, <1>7, LeqAt
  <1> QED  BY <1>4, <1>6, <1>7 DEF m

(* Merging a clock that is not above leaves the clock as it is, entries    *)
(* and all: the merge in SetVersioned, which runs only then, never writes  *)
(* to the map that the goroutines of a fan-out share.                      *)
THEOREM MergeNoOp ==
    ASSUME NEW N, NEW a, NEW b, IsClock(a, N), IsClock(b, N), Leq(b, a)
    PROVE  Merge(a, b) = a
  <1>1. \A n : At(a, n) \in Nat
    BY AtType
  <1>2. {n \in DOMAIN b : At(a, n) < b[n]} = {}
    BY <1>1 DEF Leq, IsClock
  <1>3. Merge(a, b) = [n \in DOMAIN a |-> a[n]]
    BY <1>2 DEF Merge
  <1> QED  BY <1>3 DEF IsClock
=============================================================================
