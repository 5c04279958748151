----------------------------- MODULE RingProofs -----------------------------
(***************************************************************************)
(* Proofs about modules Ring and RingView, for any nodes, tokens and       *)
(* bounds.                                                                 *)
(***************************************************************************)
EXTENDS RingView, FiniteSetTheorems, WellFoundedInduction, TLAPS

(* A member owns all its tokens.                                           *)
MembersOwnTokens == \A n \in nodes : \A t \in Token[n] : keys[t] = n

RingInv == TypeOK /\ MembersOwnTokens /\ RemovalTakesAllTokens

(* Two nodes share no token.                                               *)
LEMMA OneOwner ==
    ASSUME NEW n \in Node, NEW m \in Node, NEW t \in Token[n], t \in Token[m]
    PROVE  n = m /\ t \in Tokens
  BY RingAssumption DEF Tokens

LEMMA InitRing == Init => RingInv
  <1> SUFFICES ASSUME Init PROVE RingInv
    OBVIOUS
  <1>1. TypeOK
    BY RingAssumption DEF Init, TypeOK
  <1>2. MembersOwnTokens
    BY OneOwner, RingAssumption DEF Init, MembersOwnTokens
  <1>3. RemovalTakesAllTokens
    BY OneOwner, RingAssumption DEF Init, RemovalTakesAllTokens
  <1> QED  BY <1>1, <1>2, <1>3 DEF RingInv

LEMMA AddKeeps ==
    ASSUME RingInv, NEW n \in Node \ {Self}, AddNode(n),
           \A t \in Tokens : copies'[t] <= MaxCopies
    PROVE  RingInv'
  <1> USE DEF RingInv
  <1>1. TypeOK'
    <2>1. copies' \in [Tokens -> 0 .. MaxCopies]
      BY RingAssumption DEF TypeOK, AddNode
    <2>2. /\ keys' \in [Tokens -> nodes' \union {Nobody}]
          /\ \A t \in Tokens : keys'[t] # Nobody => t \in Token[keys'[t]] /\ copies'[t] > 0
      BY RingAssumption DEF TypeOK, AddNode
    <2> QED  BY <2>1, <2>2 DEF TypeOK, AddNode
  <1>2. MembersOwnTokens'
    BY OneOwner DEF MembersOwnTokens, AddNode, TypeOK
  <1>3. RemovalTakesAllTokens'
    <2> SUFFICES ASSUME NEW m \in Node \ again', NEW t \in Token[m]
                 PROVE  copies'[t] = IF m \in nodes' THEN 1 ELSE 0
      BY DEF RemovalTakesAllTokens
    <2>1. t \in Tokens /\ m \notin again
      BY OneOwner DEF AddNode
    <2>2. CASE m = n
      BY <2>1, <2>2 DEF AddNode, TypeOK
    <2>3. CASE m # n
      BY <2>1, <2>3, OneOwner DEF AddNode, TypeOK, RemovalTakesAllTokens
    <2> QED  BY <2>2, <2>3
  <1> QED  BY <1>1, <1>2, <1>3

LEMMA RemoveKeeps ==
    ASSUME RingInv, NEW n \in Node \ {Self}, RemoveNode(n)
    PROVE  RingInv'
  <1> USE DEF RingInv, AfterRemoval, OwnerForgotten
  <1>0. Nobody \notin Node
    BY RingAssumption
  <1>1. TypeOK'
    <2>1. copies' \in [Tokens -> 0 .. MaxCopies]
      BY <1>0, RingAssumption DEF TypeOK, RemoveNode
    <2>2. /\ keys' \in [Tokens -> nodes' \union {Nobody}]
          /\ \A t \in Tokens : keys'[t] # Nobody => t \in Token[keys'[t]] /\ copies'[t] > 0
      BY <1>0 DEF TypeOK, RemoveNode
    <2> QED  BY <2>1, <2>2 DEF TypeOK, RemoveNode
  <1>2. MembersOwnTokens'
    BY OneOwner DEF MembersOwnTokens, RemoveNode, TypeOK
  <1>3. RemovalTakesAllTokens'
    <2> SUFFICES ASSUME NEW m \in Node \ again', NEW t \in Token[m]
                 PROVE  copies'[t] = IF m \in nodes' THEN 1 ELSE 0
      BY DEF RemovalTakesAllTokens
    <2>1. t \in Tokens /\ m \notin again
      BY OneOwner DEF RemoveNode
    <2>2. keys[t] = n => m = n
      BY <1>0, <2>1, OneOwner DEF TypeOK
    <2>3. m \in nodes => keys[t] = m
      BY DEF MembersOwnTokens
    <2> QED  BY <1>0, <2>1, <2>2, <2>3 DEF RemoveNode, TypeOK, RemovalTakesAllTokens
  <1> QED  BY <1>1, <1>2, <1>3

LEMMA RingStep == RingInv /\ [Next]_vars => RingInv'
  <1> SUFFICES ASSUME RingInv, [Next]_vars PROVE RingInv'
    OBVIOUS
  <1>1. CASE Next
    BY <1>1, AddKeeps, RemoveKeeps DEF Next
  <1>2. CASE UNCHANGED vars
    BY <1>2 DEF vars, RingInv, TypeOK, MembersOwnTokens, RemovalTakesAllTokens
  <1> QED  BY <1>1, <1>2

(* Whatever joins, repeated joins and deaths: the tokens of a node that    *)
(* was never added twice are in the slice once while it is a member, and   *)
(* are gone when it is not.                                                *)
THEOREM RemovalCorrect == Spec => [](TypeOK /\ RemovalTakesAllTokens)
  <1>1. RingInv /\ [Next]_vars => RingInv'
    BY RingStep
  <1>2. RingInv => TypeOK /\ RemovalTakesAllTokens
    BY DEF RingInv
  <1> QED  BY <1>1, <1>2, InitRing, PTL DEF Spec

-----------------------------------------------------------------------------
(* Walks.                                                                  *)

(* A set of numbers has a least one.                                       *)
LEMMA LeastIs ==
    ASSUME NEW T \in SUBSET Nat, T # {}
    PROVE  Min(T) \in T /\ \A y \in T : Min(T) <= y
  <1> DEFINE R == {ss \in Nat \X Nat : ss[1] < ss[2]}
  <1>1. IsWellFoundedOn(R, Nat)
    BY NatLessThanWellFounded DEF OpToRel
  <1>2. PICK x \in T : \A y \in T : ~(<<y, x>> \in R)
    BY <1>1, WFMin
  <1>3. ASSUME NEW y \in T  PROVE x <= y
    <2>1. x \in Nat /\ y \in Nat
      OBVIOUS
    <2>2. y < x => <<y, x>> \in R
      BY <2>1
    <2>3. ~(y < x)
      BY <1>2, <2>2
    <2> HIDE DEF R
    <2> QED  BY <2>1, <2>3
  <1>4. \E z \in T : \A y \in T : z <= y
    BY <1>3
  <1> HIDE DEF R
  <1> QED  BY <1>4 DEF Min

(* Ranks: every place is taken once, in the order of the numbers.          *)
LEMMA RankedOnce ==
    ASSUME NEW S, IsFiniteSet(S), NEW f \in [S -> Nat],
           \A x, y \in S : f[x] = f[y] => x = y,
           NEW rank, rank = [x \in S |-> Cardinality({y \in S : f[y] <= f[x]})]
    PROVE  LET N == Cardinality(S)
           IN  /\ \A x \in S : rank[x] \in 1 .. N
               /\ \A x, y \in S : f[x] < f[y] => rank[x] < rank[y]
               /\ \A i \in 1 .. N : \E x \in S : rank[x] = i
  <1> DEFINE N == Cardinality(S)
             upTo(x) == {y \in S : f[y] <= f[x]}
  <1>0. DOMAIN rank = S /\ \A x \in S : rank[x] = Cardinality(upTo(x))
    OBVIOUS
  <1>1. N \in Nat
    BY FS_CardinalityType
  <1>2. ASSUME NEW x \in S
        PROVE  IsFiniteSet(upTo(x)) /\ rank[x] \in 1 .. N
    <2>1. upTo(x) \subseteq S /\ x \in upTo(x)
      OBVIOUS
    <2> HIDE DEF upTo
    <2>2. IsFiniteSet(upTo(x)) /\ Cardinality(upTo(x)) <= N
      BY <2>1, FS_Subset
    <2>3. Cardinality(upTo(x)) \in Nat /\ Cardinality(upTo(x)) # 0
      BY <2>1, <2>2, FS_CardinalityType, FS_EmptySet
    <2> QED  BY <1>0, <1>1, <2>2, <2>3
  <1>3. ASSUME NEW x \in S, NEW y \in S, f[x] < f[y]
        PROVE  rank[x] < rank[y]
    <2>1. upTo(x) \subseteq upTo(y) /\ upTo(x) # upTo(y)
      <3>1. f[x] \in Nat /\ f[y] \in Nat /\ \A z \in S : f[z] \in Nat
        OBVIOUS
      <3>2. y \in upTo(y) /\ y \notin upTo(x)
        BY <1>3, <3>1
      <3>3. \A z \in upTo(x) : z \in upTo(y)
        BY <1>3, <3>1
      <3> HIDE DEF upTo
      <3> QED  BY <3>2, <3>3
    <2>2. IsFiniteSet(upTo(y)) /\ IsFiniteSet(upTo(x))
      BY <1>2
    <2> HIDE DEF upTo
    <2>3. Cardinality(upTo(x)) <= Cardinality(upTo(y))
      BY <2>1, <2>2, FS_Subset
    <2>4. Cardinality(upTo(x)) # Cardinality(upTo(y))
      BY <2>1, <2>2, FS_Subset
    <2>5. Cardinality(upTo(x)) \in Nat /\ Cardinality(upTo(y)) \in Nat
      BY <2>2, FS_CardinalityType
    <2> QED  BY <1>0, <2>3, <2>4, <2>5
  <1>4. ASSUME NEW x \in S, NEW y \in S, rank[x] = rank[y]
        PROVE  x = y
    <2>0. rank[x] \in 1 .. N /\ rank[y] \in 1 .. N
      BY <1>2
    <2>1. f[x] \in Nat /\ f[y] \in Nat /\ rank[x] \in Nat /\ rank[y] \in Nat
      <3> HIDE DEF N
      <3> QED  BY <1>1, <2>0
    <2>2. ~(f[x] < f[y]) /\ ~(f[y] < f[x])
      <3>1. f[x] < f[y] => rank[x] < rank[y]
        BY <1>3
      <3>2. f[y] < f[x] => rank[y] < rank[x]
        BY <1>3
      <3>3. ~(rank[x] < rank[y]) /\ ~(rank[y] < rank[x])
        BY <1>4, <2>1
      <3> QED  BY <3>1, <3>2, <3>3
    <2>3. f[x] = f[y]
      BY <2>1, <2>2
    <2> QED  BY <2>3
  <1>5. rank \in Surjection(S, 1 .. N)
    <2>1. rank \in Injection(S, 1 .. N)
      BY <1>0, <1>2, <1>4 DEF Injection, IsInjective
    <2>2. IsFiniteSet(1 .. N) /\ Cardinality(1 .. N) = N
      BY <1>1, FS_Interval
    <2> QED  BY <2>1, <2>2, FS_Injection
  <1>6. \A i \in 1 .. N : \E x \in S : rank[x] = i
    BY <1>5 DEF Surjection
  <1> QED  BY <1>2, <1>3, <1>6

(* An enumeration of a set by the ranks of its elements' numbers meets     *)
(* each of them once, in the order of the numbers.                         *)
ListedBy(order, S, f) ==
    /\ order \in [1 .. Cardinality(S) -> S]
    /\ \A i \in 1 .. Cardinality(S) :
          Cardinality({y \in S : f[y] <= f[order[i]]}) = i

InOrder(order, S, f) ==
    /\ \A x \in S : \E i \in 1 .. Cardinality(S) : order[i] = x
    /\ \A i, j \in 1 .. Cardinality(S) :
          /\ f[order[i]] < f[order[j]] <=> i < j
          /\ order[i] = order[j] => i = j

LEMMA ListingInOrder ==
    ASSUME NEW S, IsFiniteSet(S), NEW f \in [S -> Nat],
           \A x, y \in S : f[x] = f[y] => x = y,
           NEW order, ListedBy(order, S, f)
    PROVE  InOrder(order, S, f)
  <1> DEFINE N == Cardinality(S)
             rank == [x \in S |-> Cardinality({y \in S : f[y] <= f[x]})]
  <1>1. /\ \A x \in S : rank[x] \in 1 .. N
        /\ \A x, y \in S : f[x] < f[y] => rank[x] < rank[y]
    <2>1. rank = [x \in S |-> Cardinality({y \in S : f[y] <= f[x]})]
      OBVIOUS
    <2> HIDE DEF rank
    <2> QED  BY <2>1, RankedOnce
  <1>2. N \in Nat
    BY FS_CardinalityType
  <1>3. ASSUME NEW i \in 1 .. N PROVE order[i] \in S /\ rank[order[i]] = i
    BY DEF ListedBy
  <1> HIDE DEF N, rank
  <1>4. ASSUME NEW x \in S, NEW y \in S, rank[x] = rank[y] PROVE x = y
    <2>1. rank[x] \in Nat /\ rank[y] \in Nat /\ f[x] \in Nat /\ f[y] \in Nat
      BY <1>1, <1>2
    <2>2. ~(f[x] < f[y]) /\ ~(f[y] < f[x])
      BY <1>1, <1>4, <2>1
    <2> QED  BY <2>1, <2>2
  <1>5. ASSUME NEW x \in S PROVE \E i \in 1 .. N : order[i] = x
    <2>1. rank[x] \in 1 .. N
      BY <1>1
    <2> QED  BY <1>3, <1>4, <2>1
  <1>6. ASSUME NEW i \in 1 .. N, NEW j \in 1 .. N
        PROVE  /\ f[order[i]] < f[order[j]] <=> i < j
               /\ order[i] = order[j] => i = j
    <2>1. /\ order[i] \in S /\ rank[order[i]] = i /\ f[order[i]] \in Nat /\ i \in Nat
          /\ order[j] \in S /\ rank[order[j]] = j /\ f[order[j]] \in Nat /\ j \in Nat
      BY <1>2, <1>3
    <2>2. f[order[i]] < f[order[j]] => i < j
      BY <1>1, <2>1
    <2>3. f[order[j]] < f[order[i]] => j < i
      BY <1>1, <2>1
    <2>4. f[order[i]] = f[order[j]] => i = j
      BY <2>1
    <2> QED  BY <2>1, <2>2, <2>3, <2>4
  <1> QED  BY <1>5, <1>6 DEF N, InOrder

(* What Sorted makes is such an enumeration: each of its choices has a     *)
(* place that some element has.                                            *)
PlaceIn(S, f, x) == Cardinality({y \in S : f[y] <= f[x]})

LEMMA EachPlaceTaken ==
    ASSUME NEW S, IsFiniteSet(S), NEW f \in [S -> Nat],
           \A x, y \in S : f[x] = f[y] => x = y
    PROVE  \A i \in 1 .. Cardinality(S) : \E x \in S : PlaceIn(S, f, x) = i
  <1> DEFINE rank == [x \in S |-> Cardinality({y \in S : f[y] <= f[x]})]
  <1>1. rank = [x \in S |-> Cardinality({y \in S : f[y] <= f[x]})]
    OBVIOUS
  <1>2. \A x \in S : rank[x] = PlaceIn(S, f, x)
    BY DEF PlaceIn
  <1> HIDE DEF rank
  <1>3. \A i \in 1 .. Cardinality(S) : \E x \in S : rank[x] = i
    BY <1>1, RankedOnce
  <1> QED  BY <1>2, <1>3

LEMMA ChosenByPlace ==
    ASSUME NEW S, IsFiniteSet(S), NEW f \in [S -> Nat],
           \A x, y \in S : f[x] = f[y] => x = y,
           NEW order, order = [i \in 1 .. Cardinality(S) |-> order[i]],
           \A i \in 1 .. Cardinality(S) :
               (\E x \in S : PlaceIn(S, f, x) = i)
                   => order[i] \in S /\ PlaceIn(S, f, order[i]) = i
    PROVE  ListedBy(order, S, f)
  <1>1. \A i \in 1 .. Cardinality(S) : order[i] \in S /\ PlaceIn(S, f, order[i]) = i
    BY EachPlaceTaken
  <1>2. order \in [1 .. Cardinality(S) -> S]
    BY <1>1
  <1> QED  BY <1>1, <1>2 DEF ListedBy, PlaceIn

(* There is one such enumeration.                                          *)
LEMMA ListedOneWay ==
    ASSUME NEW S, IsFiniteSet(S), NEW f \in [S -> Nat],
           \A x, y \in S : f[x] = f[y] => x = y,
           NEW order, ListedBy(order, S, f), NEW other, ListedBy(other, S, f)
    PROVE  order = other
  <1> DEFINE N == Cardinality(S)
             rank == [x \in S |-> Cardinality({y \in S : f[y] <= f[x]})]
  <1>1. /\ \A x \in S : rank[x] \in 1 .. N
        /\ \A x, y \in S : f[x] < f[y] => rank[x] < rank[y]
    <2>1. rank = [x \in S |-> Cardinality({y \in S : f[y] <= f[x]})]
      OBVIOUS
    <2> HIDE DEF rank
    <2> QED  BY <2>1, RankedOnce
  <1>2. N \in Nat
    BY FS_CardinalityType
  <1>3. /\ order \in [1 .. N -> S] /\ other \in [1 .. N -> S]
        /\ \A i \in 1 .. N : rank[order[i]] = i /\ rank[other[i]] = i
    BY DEF ListedBy
  <1> HIDE DEF N, rank
  <1>4. ASSUME NEW i \in 1 .. N PROVE order[i] = other[i]
    <2>1. /\ order[i] \in S /\ other[i] \in S /\ rank[order[i]] = rank[other[i]]
          /\ rank[order[i]] \in Nat /\ f[order[i]] \in Nat /\ f[other[i]] \in Nat
      BY <1>2, <1>3
    <2>2. ~(f[order[i]] < f[other[i]]) /\ ~(f[other[i]] < f[order[i]])
      BY <1>1, <2>1
    <2> QED  BY <2>1, <2>2
  <1>5. order = [i \in 1 .. N |-> order[i]] /\ other = [i \in 1 .. N |-> other[i]]
    BY <1>3
  <1>6. [i \in 1 .. N |-> order[i]] = [i \in 1 .. N |-> other[i]]
    BY <1>4
  <1> QED  BY <1>5, <1>6

-----------------------------------------------------------------------------
(* The members in the order of their least tokens.                         *)
LEMMA MinHashOf ==
    ASSUME RingInv, NEW n \in nodes
    PROVE  minHash(n) \in Tokens /\ minHash(n) \in Nat /\ keys[minHash(n)] = n
  <1> DEFINE own == {t \in Tokens : keys[t] = n}
  <1>1. n \in Node /\ Token[n] \subseteq Nat /\ Token[n] # {}
    BY RingAssumption DEF RingInv, TypeOK
  <1>2. Tokens \subseteq Nat
    BY RingAssumption DEF Tokens
  <1>3. own \in SUBSET Nat /\ own # {}
    <2>1. PICK t \in Token[n] : TRUE
      BY <1>1
    <2>2. t \in Tokens /\ keys[t] = n
      BY <1>1, <2>1, OneOwner DEF RingInv, MembersOwnTokens
    <2> QED  BY <1>2, <2>2
  <1>4. minHash(n) = Min(own)
    BY DEF minHash
  <1> HIDE DEF own
  <1>5. Min(own) \in own
    BY <1>3, LeastIs
  <1> USE DEF own
  <1> QED  BY <1>2, <1>4, <1>5

LEMMA OrderOfMembers ==
    ASSUME RingInv
    PROVE  LET N == Cardinality(nodes)
           IN  /\ N \in Nat \ {0} /\ IsFiniteSet(nodes)
               /\ physicalRingOrder \in [1 .. N -> nodes]
               /\ \A n \in nodes : \E i \in 1 .. N : physicalRingOrder[i] = n
               /\ \A i, j \in 1 .. N :
                     i < j => minHash(physicalRingOrder[i]) < minHash(physicalRingOrder[j])
  <1> DEFINE N == Cardinality(nodes)
             f == [n \in nodes |-> minHash(n)]
             place(x) == Cardinality({y \in nodes : minHash(y) <= minHash(x)})
             order == physicalRingOrder
  <1>1. IsFiniteSet(nodes) /\ nodes # {}
    BY RingAssumption, FS_Subset DEF RingInv, TypeOK
  <1>2. N \in Nat \ {0}
    BY <1>1, FS_CardinalityType, FS_EmptySet
  <1>3. /\ f \in [nodes -> Nat] /\ \A x, y \in nodes : f[x] = f[y] => x = y
        /\ \A x \in nodes : f[x] = minHash(x)
    BY MinHashOf
  <1>4. ASSUME NEW x \in nodes
        PROVE  place(x) = PlaceIn(nodes, f, x)
    <2>1. {y \in nodes : f[y] <= f[x]} = {y \in nodes : minHash(y) <= minHash(x)}
      <3> HIDE DEF N
      <3> QED  OBVIOUS
    <2> QED  BY <2>1 DEF PlaceIn
  <1>5. order = [i \in 1 .. N |-> CHOOSE x \in nodes : place(x) = i]
    BY DEF physicalRingOrder, Sorted
  <1> HIDE DEF f, place, order, N
  <1>6. ASSUME NEW i \in 1 .. N, \E x \in nodes : PlaceIn(nodes, f, x) = i
        PROVE  order[i] \in nodes /\ PlaceIn(nodes, f, order[i]) = i
    <2>1. \E x \in nodes : place(x) = i
      BY <1>4, <1>6
    <2>2. order[i] = CHOOSE x \in nodes : place(x) = i
      BY <1>5
    <2>3. order[i] \in nodes /\ place(order[i]) = i
      BY <2>1, <2>2
    <2> QED  BY <1>4, <2>3
  <1>7. order = [i \in 1 .. N |-> order[i]]
    BY <1>5
  <1>8. ListedBy(order, nodes, f)
    BY <1>1, <1>3, <1>6, <1>7, ChosenByPlace DEF N
  <1>9. InOrder(order, nodes, f)
    BY <1>1, <1>3, <1>8, ListingInOrder
  <1>10. /\ order \in [1 .. N -> nodes]
         /\ \A n \in nodes : \E i \in 1 .. N : order[i] = n
         /\ \A i, j \in 1 .. N : i < j => f[order[i]] < f[order[j]]
    BY <1>8, <1>9 DEF ListedBy, InOrder, N
  <1>11. \A i, j \in 1 .. N : i < j => minHash(order[i]) < minHash(order[j])
    BY <1>3, <1>10
  <1> QED  BY <1>1, <1>2, <1>10, <1>11 DEF N, order

(* A walk starts at a member.                                              *)
LEMMA StartIsPlace ==
    ASSUME RingInv, NEW h
    PROVE  /\ Start(h) \in 1 .. Cardinality(nodes)
           /\ keys[Search(h)] \in nodes => physicalRingOrder[Start(h)] = keys[Search(h)]
  <1> DEFINE N == Cardinality(nodes)
             order == physicalRingOrder
             owner == keys[Search(h)]
             places == {i \in DOMAIN order : order[i] = owner}
             T == places \union (IF owner \in nodes THEN {} ELSE {1})
  <1>1. /\ N \in Nat \ {0} /\ order \in [1 .. N -> nodes]
        /\ \A n \in nodes : \E i \in 1 .. N : order[i] = n
    BY OrderOfMembers
  <1>2. Start(h) = Min(T)
    BY DEF Start
  <1> HIDE DEF order, owner, N
  <1>3. places \subseteq 1 .. N /\ 1 \in 1 .. N
    BY <1>1
  <1>4. T # {} /\ T \subseteq 1 .. N
    <2>1. CASE owner \in nodes
      <3>1. \E i \in 1 .. N : order[i] = owner
        BY <1>1, <2>1
      <3>2. places # {}
        BY <1>1, <3>1
      <3> HIDE DEF places
      <3> QED  BY <1>3, <2>1, <3>2
    <2>2. CASE owner \notin nodes
      <3> HIDE DEF places
      <3> QED  BY <1>3, <2>2
    <2> QED  BY <2>1, <2>2
  <1>5. T \in SUBSET Nat
    BY <1>1, <1>4
  <1>6. Min(T) \in T
    <2> HIDE DEF T
    <2> QED  BY <1>4, <1>5, LeastIs
  <1>7. Start(h) \in 1 .. N
    BY <1>2, <1>4, <1>6
  <1>8. ASSUME owner \in nodes  PROVE order[Start(h)] = owner
    <2>1. T = places
      BY <1>8
    <2> QED  BY <1>2, <1>6, <2>1
  <1> QED  BY <1>7, <1>8 DEF N, order, owner

(* Going round once: the places after the start, modulo their number.      *)
LEMMA RoundOnce ==
    ASSUME NEW N \in Nat \ {0}, NEW s \in 1 .. N
    PROVE  \A i \in 1 .. N :
              /\ ((s + i - 2) % N) + 1 \in 1 .. N
              /\ ((s + i - 2) % N) + 1 = IF s + i - 1 <= N THEN s + i - 1 ELSE s + i - 1 - N
  <1> TAKE i \in 1 .. N
  <1>1. CASE s + i - 1 <= N
    <2>1. s + i - 2 \in 0 .. N - 1
      BY <1>1
    <2>2. \A x \in 0 .. N - 1 : x % N = x
      OBVIOUS
    <2> QED  BY <1>1, <2>1, <2>2
  <1>2. CASE ~(s + i - 1 <= N)
    <2>1. s + i - 2 - N \in 0 .. N - 1
      BY <1>2
    <2>2. \A x \in 0 .. N - 1 : (x + N) % N = x
      OBVIOUS
    <2>3. (s + i - 2 - N) + N = s + i - 2
      OBVIOUS
    <2> QED  BY <1>2, <2>1, <2>2, <2>3
  <1> QED  BY <1>1, <1>2

LEMMA PlacesDiffer ==
    ASSUME NEW N \in Nat \ {0}, NEW s \in 1 .. N, NEW i \in 1 .. N, NEW j \in 1 .. N,
           (IF s + i - 1 <= N THEN s + i - 1 ELSE s + i - 1 - N)
              = IF s + j - 1 <= N THEN s + j - 1 ELSE s + j - 1 - N
    PROVE  i = j
  OBVIOUS

(* A walk: the members from the start on, each at its place of the round.  *)
Place(h, i) ==
    IF Start(h) + i - 1 <= Cardinality(nodes) THEN Start(h) + i - 1
    ELSE Start(h) + i - 1 - Cardinality(nodes)

LEMMA WalkIs ==
    ASSUME RingInv, NEW h, NEW count \in Nat \ {0}
    PROVE  LET N == Cardinality(nodes)
               len == IF count <= N THEN count ELSE N
           IN  /\ len \in 1 .. N
               /\ GetNodes(h, count) = [i \in 1 .. len |-> physicalRingOrder[Place(h, i)]]
               /\ \A i \in 1 .. len : Place(h, i) \in 1 .. N
  <1> DEFINE N == Cardinality(nodes)
             len == IF count <= N THEN count ELSE N
             order == physicalRingOrder
  <1>1. N \in Nat \ {0} /\ order \in [1 .. N -> nodes]
    BY OrderOfMembers
  <1>2. Len(order) = N
    <2>1. order \in Seq(nodes) /\ DOMAIN order = 1 .. N
      <3> HIDE DEF order, N
      <3> QED  BY <1>1
    <2> HIDE DEF order, N
    <2> QED  BY <1>1, <2>1
  <1>3. Start(h) \in 1 .. N
    BY StartIsPlace
  <1>4. Min({count, N}) = len /\ len \in 1 .. N
    <2>1. {count, N} \in SUBSET Nat /\ {count, N} # {}
      BY <1>1
    <2>2. Min({count, N}) \in {count, N} /\ \A y \in {count, N} : Min({count, N}) <= y
      BY <2>1, LeastIs
    <2> HIDE DEF N
    <2> QED  BY <1>1, <2>2
  <1>5. GetNodes(h, count) = [i \in 1 .. Min({count, N}) |-> order[((Start(h) + i - 2) % N) + 1]]
    BY <1>2 DEF GetNodes
  <1> HIDE DEF order
  <1>6. ASSUME NEW i \in 1 .. len
        PROVE  ((Start(h) + i - 2) % N) + 1 = Place(h, i) /\ Place(h, i) \in 1 .. N
    <2>1. i \in 1 .. N
      <3> HIDE DEF N
      <3> QED  BY <1>1, <1>4
    <2>2. /\ ((Start(h) + i - 2) % N) + 1 \in 1 .. N
          /\ ((Start(h) + i - 2) % N) + 1
                = IF Start(h) + i - 1 <= N THEN Start(h) + i - 1 ELSE Start(h) + i - 1 - N
      <3> HIDE DEF N
      <3> QED  BY <1>1, <1>3, <2>1, RoundOnce
    <2> QED  BY <2>2 DEF Place
  <1>7. GetNodes(h, count) = [i \in 1 .. len |-> order[Place(h, i)]]
    <2> HIDE DEF len, N
    <2> QED  BY <1>4, <1>5, <1>6
  <1> QED  BY <1>4, <1>6, <1>7 DEF order

LEMMA WalksVisit == RingInv => WalksVisitMembersOnce
  <1> SUFFICES ASSUME RingInv, NEW h \in Hash
               PROVE  /\ IsInjective(GetNodes(h, Cardinality(Node)))
                      /\ Range(GetNodes(h, Cardinality(Node))) = nodes
    BY DEF WalksVisitMembersOnce
  <1> DEFINE N == Cardinality(nodes)
             order == physicalRingOrder
             walk == GetNodes(h, Cardinality(Node))
  <1>1. /\ N \in Nat \ {0} /\ IsFiniteSet(nodes) /\ order \in [1 .. N -> nodes]
        /\ \A i, j \in 1 .. N : i < j => minHash(order[i]) < minHash(order[j])
    BY OrderOfMembers
  <1>2. Cardinality(Node) \in Nat \ {0} /\ N <= Cardinality(Node)
    BY <1>1, RingAssumption, FS_Subset, FS_CardinalityType DEF RingInv, TypeOK
  <1>3. /\ walk = [i \in 1 .. N |-> order[Place(h, i)]]
        /\ \A i \in 1 .. N : Place(h, i) \in 1 .. N
    <2> HIDE DEF N
    <2>1. (IF Cardinality(Node) <= N THEN Cardinality(Node) ELSE N) = N
      BY <1>1, <1>2
    <2>2. LET len == IF Cardinality(Node) <= N THEN Cardinality(Node) ELSE N
          IN  /\ walk = [i \in 1 .. len |-> order[Place(h, i)]]
              /\ \A i \in 1 .. len : Place(h, i) \in 1 .. N
      BY <1>2, WalkIs DEF N
    <2> QED  BY <2>1, <2>2
  <1>4. Start(h) \in 1 .. N
    BY StartIsPlace
  <1> HIDE DEF order, walk
  <1>5. ASSUME NEW i \in 1 .. N, NEW j \in 1 .. N, order[i] = order[j]
        PROVE  i = j
    <2>1. minHash(order[i]) \in Nat
      BY <1>1, MinHashOf
    <2> HIDE DEF N
    <2>2. ~(i < j) /\ ~(j < i)
      BY <1>1, <1>5, <2>1
    <2> QED  BY <1>1, <2>2
  <1>6. ASSUME NEW i \in 1 .. N, NEW j \in 1 .. N, Place(h, i) = Place(h, j)
        PROVE  i = j
    <2>1. (IF Start(h) + i - 1 <= N THEN Start(h) + i - 1 ELSE Start(h) + i - 1 - N)
             = IF Start(h) + j - 1 <= N THEN Start(h) + j - 1 ELSE Start(h) + j - 1 - N
      BY <1>6 DEF Place
    <2> HIDE DEF N
    <2>2. N \in Nat \ {0} /\ Start(h) \in 1 .. N /\ i \in 1 .. N /\ j \in 1 .. N
      BY <1>1, <1>4
    <2> QED  BY <2>1, <2>2, PlacesDiffer
  <1>7. walk \in Injection(1 .. N, nodes)
    <2> HIDE DEF N
    <2>1. walk \in [1 .. N -> nodes]
      BY <1>1, <1>3
    <2>2. \A i, j \in 1 .. N : walk[i] = walk[j] => i = j
      BY <1>3, <1>5, <1>6
    <2> QED  BY <2>1, <2>2 DEF Injection, IsInjective
  <1>8. walk \in Surjection(1 .. N, nodes)
    <2>1. IsFiniteSet(1 .. N) /\ Cardinality(1 .. N) = N
      BY <1>1, FS_Interval
    <2> QED  BY <1>1, <1>7, <2>1, FS_Injection
  <1>9. IsInjective(walk) /\ Range(walk) = nodes
    <2> HIDE DEF N
    <2> QED  BY <1>7, <1>8 DEF Injection, Surjection, Range
  <1> QED  BY <1>9 DEF walk

(* Whatever was added twice, removed and orphaned, in a ring of any nodes  *)
(* and tokens: a walk over all members meets each of them once, so no      *)
(* quorum counts a replica twice.                                          *)
THEOREM WalksCorrect == Spec => []WalksVisitMembersOnce
  BY InitRing, RingStep, WalksVisit, PTL DEF Spec

-----------------------------------------------------------------------------
(* Placement.                                                              *)

(* When no token has lost its owner, the slice holds the members' tokens,  *)
(* and what the lookups find in it depends on the members alone.           *)
LEMMA TokensOfMembers ==
    ASSUME RingInv, NoOrphans
    PROVE  /\ {t \in Tokens : copies[t] > 0} = UNION {Token[n] : n \in nodes}
           /\ \A n \in nodes : minHash(n) = Min(Token[n])
           /\ \A n \in nodes : \A t \in Token[n] :
                 keys[t] = n /\ \A m \in nodes : t \in Token[m] => m = n
  <1> USE DEF RingInv, TypeOK, MembersOwnTokens
  <1>0. Nobody \notin Node
    BY RingAssumption
  <1>1. ASSUME NEW t \in Tokens, copies[t] > 0
        PROVE  \E n \in nodes : t \in Token[n]
    <2>1. keys[t] \in nodes /\ t \in Token[keys[t]]
      BY <1>1 DEF NoOrphans
    <2> QED  BY <2>1
  <1>2. ASSUME NEW n \in nodes, NEW t \in Token[n]
        PROVE  t \in Tokens /\ keys[t] = n /\ copies[t] > 0
    <2>1. t \in Tokens /\ keys[t] = n
      BY OneOwner
    <2> QED  BY <1>0, <2>1
  <1>3. {t \in Tokens : copies[t] > 0} = UNION {Token[n] : n \in nodes}
    BY <1>1, <1>2
  <1>4. ASSUME NEW n \in nodes
        PROVE  {t \in Tokens : keys[t] = n} = Token[n]
    BY <1>0, <1>2
  <1>5. \A n \in nodes : minHash(n) = Min(Token[n])
    BY <1>4 DEF minHash
  <1>6. \A n \in nodes : \A t \in Token[n] :
           keys[t] = n /\ \A m \in nodes : t \in Token[m] => m = n
    BY <1>2
  <1> QED  BY <1>3, <1>5, <1>6

(* The primary: the owner of the token that the search finds.              *)
LEMMA PrimaryIs ==
    ASSUME RingInv, NoOrphans, NEW h
    PROVE  LET ring    == UNION {Token[n] : n \in nodes}
               after   == {t \in ring : t >= h}
               first   == IF after = {} THEN Min(ring) ELSE Min(after)
           IN  /\ keys[Search(h)] \in nodes
               /\ (CHOOSE n \in nodes : first \in Token[n]) = keys[Search(h)]
  <1> DEFINE ring  == UNION {Token[n] : n \in nodes}
             after == {t \in ring : t >= h}
             first == IF after = {} THEN Min(ring) ELSE Min(after)
  <1>1. {t \in Tokens : copies[t] > 0} = ring
    BY TokensOfMembers
  <1>2. Search(h) = first
    BY <1>1 DEF Search
  <1>3. ring \in SUBSET Nat /\ ring # {}
    <2>1. \A n \in nodes : Token[n] \subseteq Nat /\ Token[n] # {}
      BY RingAssumption DEF RingInv, TypeOK
    <2>2. Self \in nodes
      BY DEF RingInv, TypeOK
    <2> QED  BY <2>1, <2>2
  <1>4. first \in ring
    <2>1. after \subseteq ring /\ after \in SUBSET Nat
      BY <1>3
    <2> HIDE DEF ring, after
    <2> QED  BY <1>3, <2>1, LeastIs
  <1>5. PICK n \in nodes : first \in Token[n]
    BY <1>4
  <1> HIDE DEF first
  <1>6. keys[first] = n /\ \A m \in nodes : first \in Token[m] => m = n
    BY <1>5, TokensOfMembers
  <1>7. (CHOOSE m \in nodes : first \in Token[m]) = n
    BY <1>5, <1>6
  <1> QED  BY <1>2, <1>6, <1>7 DEF first

(* How far round a place is from the start.                                *)
Offset(h, i) == IF i >= Start(h) THEN i - Start(h) ELSE Cardinality(nodes) - (Start(h) - i)

LEMMA OffsetOfPlace ==
    ASSUME NEW N \in Nat \ {0}, NEW s \in 1 .. N, NEW i \in 1 .. N
    PROVE  LET off == IF i >= s THEN i - s ELSE N - (s - i)
           IN  /\ off \in 0 .. N - 1
               /\ \A k \in 1 .. N :
                     (IF s + k - 1 <= N THEN s + k - 1 ELSE s + k - 1 - N) = i <=> k = off + 1
  OBVIOUS

Stretch(order, a, b) == {order[j] : j \in a .. b}

(* A stretch of an enumeration without repetition has as many elements as  *)
(* places.                                                                 *)
LEMMA StretchSize ==
    ASSUME NEW S, NEW N \in Nat, NEW order \in Injection(1 .. N, S),
           NEW a \in 1 .. N, NEW b \in 0 .. N, a <= b + 1
    PROVE  Cardinality(Stretch(order, a, b)) = b + 1 - a
  <1> DEFINE T == {order[j] : j \in a .. b}
             f == [j \in a .. b |-> order[j]]
  <1>1. a .. b \subseteq 1 .. N
    OBVIOUS
  <1>2. f \in Surjection(a .. b, T) /\ f \in Injection(a .. b, T)
    BY <1>1 DEF Surjection, Injection, IsInjective
  <1>3. IsFiniteSet(a .. b) /\ Cardinality(a .. b) = b + 1 - a
    <2>1. a \in Int /\ b \in Int
      OBVIOUS
    <2>2. IsFiniteSet(a .. b) /\ Cardinality(a .. b) = IF a > b THEN 0 ELSE b - a + 1
      BY <2>1, FS_Interval
    <2> QED  BY <2>1, <2>2
  <1> HIDE DEF f, T
  <1>4. Cardinality(T) = Cardinality(a .. b)
    BY <1>2, <1>3, FS_Surjection
  <1> QED  BY <1>3, <1>4 DEF T, Stretch

(* The elements between two of them, going up and round.                   *)
Between(S, least, from, to) ==
    {m \in S : IF least[to] >= least[from] THEN least[m] \in least[from] .. least[to] - 1
               ELSE least[m] \notin least[to] .. least[from] - 1}

(* The elements of S in the order of a number they have.                   *)
Listing(S, N, order, least) ==
    /\ IsFiniteSet(S) /\ N \in Nat /\ N = Cardinality(S)
    /\ order \in [1 .. N -> S] /\ least \in [S -> Nat]
    /\ \A n \in S : \E i \in 1 .. N : order[i] = n
    /\ \A i, j \in 1 .. N : i < j => least[order[i]] < least[order[j]]

(* As many members are passed on the way from the start to a place as the  *)
(* place is far from it.                                                   *)
LEMMA PassedSize ==
    ASSUME NEW S, NEW N, NEW order, NEW least, Listing(S, N, order, least),
           NEW s \in 1 .. N, NEW i \in 1 .. N
    PROVE  Cardinality(Between(S, least, order[s], order[i]))
              = IF i >= s THEN i - s ELSE N - (s - i)
  <1>0. /\ IsFiniteSet(S) /\ N \in Nat /\ N = Cardinality(S)
        /\ order \in [1 .. N -> S] /\ least \in [S -> Nat]
        /\ \A n \in S : \E k \in 1 .. N : order[k] = n
        /\ \A j, k \in 1 .. N : j < k => least[order[j]] < least[order[k]]
    BY DEF Listing
  <1> USE <1>0
  <1>1. ASSUME NEW j \in 1 .. N, NEW k \in 1 .. N
        PROVE  /\ least[order[j]] \in Nat /\ least[order[k]] \in Nat
               /\ least[order[j]] <= least[order[k]] <=> j <= k
               /\ least[order[j]] < least[order[k]] <=> j < k
    <2>1. least[order[j]] \in Nat /\ least[order[k]] \in Nat
      OBVIOUS
    <2>2. j < k => least[order[j]] < least[order[k]]
      OBVIOUS
    <2>3. k < j => least[order[k]] < least[order[j]]
      OBVIOUS
    <2>4. j = k => least[order[j]] = least[order[k]]
      OBVIOUS
    <2> QED  BY <2>1, <2>2, <2>3, <2>4
  <1>2. \A j, k \in 1 .. N : order[j] = order[k] => j = k
    <2> SUFFICES ASSUME NEW j \in 1 .. N, NEW k \in 1 .. N, order[j] = order[k]
                 PROVE  j = k
      OBVIOUS
    <2>1. ~(least[order[j]] < least[order[k]]) /\ ~(least[order[k]] < least[order[j]])
      BY <1>1
    <2>2. ~(j < k) /\ ~(k < j)
      BY <1>1, <2>1
    <2> QED  BY <2>2
  <1>6. ASSUME NEW a \in 1 .. N, NEW b \in 0 .. N, a <= b + 1
        PROVE  Cardinality(Stretch(order, a, b)) = b + 1 - a
    <2>1. order \in Injection(1 .. N, S)
      BY <1>2 DEF Injection, IsInjective
    <2> QED  BY <1>6, <2>1, StretchSize
  <1> DEFINE from == least[order[s]]
             to == least[order[i]]
             passed == {m \in S : IF to >= from THEN least[m] \in from .. to - 1
                                  ELSE least[m] \notin to .. from - 1}
  <1>3. from \in Nat /\ to \in Nat /\ (to >= from <=> i >= s)
    BY <1>1
  <1>7. Between(S, least, order[s], order[i]) = passed
    BY DEF Between
  <1>4. CASE i >= s
    <2>1. passed = Stretch(order, s, i - 1)
      <3>1. ASSUME NEW j \in 1 .. N
            PROVE  order[j] \in passed <=> j \in s .. i - 1
        <4>1. /\ least[order[j]] \in Nat
              /\ from <= least[order[j]] <=> s <= j
              /\ least[order[j]] < to <=> j < i
          BY <1>1
        <4>2. order[j] \in S
          OBVIOUS
        <4> HIDE DEF from, to
        <4> QED  BY <1>3, <1>4, <4>1, <4>2
      <3>2. s .. i - 1 \subseteq 1 .. N
        OBVIOUS
      <3>3. passed \subseteq S
        OBVIOUS
      <3> HIDE DEF passed
      <3> QED  BY <3>1, <3>2, <3>3 DEF Stretch
    <2>2. Cardinality(Stretch(order, s, i - 1)) = (i - 1) + 1 - s
      <3>1. i - 1 \in 0 .. N /\ s <= (i - 1) + 1
        BY <1>4
      <3> QED  BY <1>6, <3>1
    <2> HIDE DEF passed
    <2>3. Cardinality(passed) = i - s
      BY <2>1, <2>2
    <2> QED  BY <1>4, <1>7, <2>3
  <1>5. CASE i < s
    <2> DEFINE rest == Stretch(order, i, s - 1)
    <2>1. passed = S \ rest
      <3>1. ASSUME NEW j \in 1 .. N
            PROVE  order[j] \in passed <=> order[j] \notin rest
        <4>1. /\ least[order[j]] \in Nat
              /\ to <= least[order[j]] <=> i <= j
              /\ least[order[j]] < from <=> j < s
          BY <1>1
        <4>2. order[j] \in S
          OBVIOUS
        <4>3. order[j] \in passed <=> j \notin i .. s - 1
          <5> HIDE DEF from, to
          <5> QED  BY <1>3, <1>5, <4>1, <4>2
        <4>4. order[j] \in rest <=> j \in i .. s - 1
          <5>1. i .. s - 1 \subseteq 1 .. N
            OBVIOUS
          <5> QED  BY <1>2, <5>1 DEF Stretch
        <4> QED  BY <4>3, <4>4
      <3>2. passed \subseteq S
        OBVIOUS
      <3> HIDE DEF passed, rest
      <3> QED  BY <3>1, <3>2
    <2>2. Cardinality(rest) = (s - 1) + 1 - i
      <3>1. s - 1 \in 0 .. N /\ i <= (s - 1) + 1
        BY <1>5
      <3> QED  BY <1>6, <3>1
    <2>3. rest \subseteq S
      <3>1. i .. s - 1 \subseteq 1 .. N
        OBVIOUS
      <3> QED  BY <3>1 DEF Stretch
    <2> HIDE DEF passed, rest
    <2>4. S \cap rest = rest
      BY <2>3
    <2>5. Cardinality(passed) = N - Cardinality(rest)
      BY <2>1, <2>4, FS_Difference
    <2>6. Cardinality(passed) = N - (s - i)
      BY <2>2, <2>5
    <2> QED  BY <1>5, <1>7, <2>6
  <1> QED  BY <1>4, <1>5

(* A walk meets the members less than its length from the start.           *)
LEMMA WalkMeets ==
    ASSUME RingInv, NEW h, NEW i \in 1 .. Cardinality(nodes)
    PROVE  physicalRingOrder[i] \in Range(GetNodes(h, RF)) <=> Offset(h, i) < RF
  <1> DEFINE N == Cardinality(nodes)
             order == physicalRingOrder
             len == IF RF <= N THEN RF ELSE N
             walk == GetNodes(h, RF)
  <1>1. /\ N \in Nat \ {0} /\ order \in [1 .. N -> nodes]
        /\ \A j, k \in 1 .. N : j < k => minHash(order[j]) < minHash(order[k])
    BY OrderOfMembers
  <1>2. RF \in Nat \ {0}
    BY RingAssumption
  <1>3. /\ len \in 1 .. N
        /\ walk = [k \in 1 .. len |-> order[Place(h, k)]]
        /\ \A k \in 1 .. len : Place(h, k) \in 1 .. N
    BY <1>2, WalkIs
  <1>4. Start(h) \in 1 .. N
    BY StartIsPlace
  <1>5. Offset(h, i) \in 0 .. N - 1 /\ \A k \in 1 .. N : Place(h, k) = i <=> k = Offset(h, i) + 1
    <2> DEFINE s == Start(h)
               off == IF i >= s THEN i - s ELSE N - (s - i)
    <2>1. N \in Nat \ {0} /\ s \in 1 .. N /\ i \in 1 .. N
      BY <1>1, <1>4
    <2>2. off = Offset(h, i)
      BY DEF Offset
    <2>3. \A k : Place(h, k) = IF s + k - 1 <= N THEN s + k - 1 ELSE s + k - 1 - N
      BY DEF Place
    <2> HIDE DEF N, s
    <2>4. /\ off \in 0 .. N - 1
          /\ \A k \in 1 .. N :
                (IF s + k - 1 <= N THEN s + k - 1 ELSE s + k - 1 - N) = i <=> k = off + 1
      BY <2>1, OffsetOfPlace
    <2> HIDE DEF off
    <2> QED  BY <2>2, <2>3, <2>4
  <1> HIDE DEF order, walk, N
  <1>6. ASSUME NEW j \in 1 .. N, NEW k \in 1 .. N, order[j] = order[k]
        PROVE  j = k
    <2>1. minHash(order[j]) \in Nat
      BY <1>1, MinHashOf
    <2>2. ~(j < k) /\ ~(k < j)
      BY <1>1, <1>6, <2>1
    <2> QED  BY <1>1, <2>2
  <1>7. order[i] \in Range(walk) <=> \E k \in 1 .. len : Place(h, k) = i
    <2>1. Range(walk) = {order[Place(h, k)] : k \in 1 .. len}
      <3> HIDE DEF len
      <3> QED  BY <1>3 DEF Range
    <2>2. i \in 1 .. N
      BY DEF N
    <2> HIDE DEF len
    <2> QED  BY <1>3, <1>6, <2>1, <2>2
  <1>8. (\E k \in 1 .. len : Place(h, k) = i) <=> Offset(h, i) + 1 <= len
    <2>1. \A k \in 1 .. len : k \in 1 .. N
      <3> HIDE DEF len
      <3> QED  BY <1>1, <1>3
    <2>2. \A k \in 1 .. len : Place(h, k) = i <=> k = Offset(h, i) + 1
      BY <1>5, <2>1
    <2> HIDE DEF len
    <2> QED  BY <1>1, <1>3, <1>5, <2>2
  <1>9. Offset(h, i) + 1 <= len <=> Offset(h, i) < RF
    BY <1>1, <1>2, <1>5
  <1> QED  BY <1>7, <1>8, <1>9 DEF order, walk

(* And so does Placement, which knows the members only.                    *)
LEMMA PlacementMeets ==
    ASSUME RingInv, NoOrphans, NEW h, NEW i \in 1 .. Cardinality(nodes)
    PROVE  physicalRingOrder[i] \in Placement(h, nodes) <=> Offset(h, i) < RF
  <1> DEFINE N == Cardinality(nodes)
             order == physicalRingOrder
             s == Start(h)
             least == [n \in nodes |-> minHash(n)]
             primary == keys[Search(h)]
             Least(n) == Min(Token[n])
             passed(p, n) == {m \in nodes :
                 IF Least(n) >= Least(p) THEN Least(m) \in Least(p) .. Least(n) - 1
                 ELSE Least(m) \notin Least(n) .. Least(p) - 1}
             between == Between(nodes, least, order[s], order[i])
             ring    == UNION {Token[n] : n \in nodes}
             after == {t \in ring : t >= h}
             first == IF after = {} THEN Min(ring) ELSE Min(after)
             owner == CHOOSE n \in nodes : first \in Token[n]
  <1>1. /\ N \in Nat \ {0} /\ IsFiniteSet(nodes) /\ order \in [1 .. N -> nodes]
        /\ \A n \in nodes : \E j \in 1 .. N : order[j] = n
        /\ \A j, k \in 1 .. N : j < k => minHash(order[j]) < minHash(order[k])
    BY OrderOfMembers
  <1>2. primary \in nodes /\ owner = primary
    BY PrimaryIs
  <1>3. s \in 1 .. N /\ order[s] = primary
    BY <1>2, StartIsPlace
  <1>4. \A n \in nodes : least[n] = Least(n) /\ minHash(n) = Least(n)
    BY TokensOfMembers
  <1>5. least \in [nodes -> Nat]
    BY MinHashOf
  <1>6. order[i] \in nodes
    BY <1>1
  <1>7. order[i] \in Placement(h, nodes) <=> Cardinality(passed(primary, order[i])) < RF
    <2>1. Placement(h, nodes) = {n \in nodes : Cardinality(passed(owner, n)) < RF}
      BY DEF Placement
    <2> HIDE DEF passed, owner, order, primary
    <2> QED  BY <1>2, <1>6, <2>1
  <1>8. passed(primary, order[i]) = between
    <2> HIDE DEF least, Least, order, s, primary, N
    <2> QED  BY <1>2, <1>3, <1>4, <1>6 DEF Between
  <1>9. Cardinality(between) = IF i >= s THEN i - s ELSE N - (s - i)
    <2>1. \A j, k \in 1 .. N : j < k => least[order[j]] < least[order[k]]
      <3> HIDE DEF order, N
      <3> QED  BY <1>1
    <2>2. i \in 1 .. N /\ N \in Nat /\ N = Cardinality(nodes)
      BY <1>1
    <2> HIDE DEF least, order, s, N
    <2>3. Listing(nodes, N, order, least)
      BY <1>1, <1>5, <2>1, <2>2 DEF Listing
    <2> QED  BY <1>3, <2>2, <2>3, PassedSize
  <1> HIDE DEF passed, between
  <1>10. Cardinality(passed(primary, order[i])) = Offset(h, i)
    BY <1>8, <1>9 DEF Offset
  <1> QED  BY <1>7, <1>10

LEMMA PlacesFollow == RingInv => PlacementFollowsMembers
  <1> SUFFICES ASSUME RingInv, NoOrphans, NEW h \in Hash
               PROVE  Range(GetNodes(h, RF)) = Placement(h, nodes)
    BY DEF PlacementFollowsMembers
  <1> DEFINE N == Cardinality(nodes)
             order == physicalRingOrder
             walk == GetNodes(h, RF)
  <1>1. /\ N \in Nat \ {0} /\ order \in [1 .. N -> nodes]
        /\ \A n \in nodes : \E j \in 1 .. N : order[j] = n
    BY OrderOfMembers
  <1>2. Range(walk) \subseteq nodes
    <2>1. LET len == IF RF <= N THEN RF ELSE N
          IN  /\ walk = [k \in 1 .. len |-> order[Place(h, k)]]
              /\ \A k \in 1 .. len : Place(h, k) \in 1 .. N
      BY RingAssumption, WalkIs
    <2> HIDE DEF walk, order, N
    <2> QED  BY <1>1, <2>1 DEF Range
  <1>3. Placement(h, nodes) \subseteq nodes
    BY DEF Placement
  <1>4. \A i \in 1 .. N : order[i] \in Range(walk) <=> order[i] \in Placement(h, nodes)
    BY WalkMeets, PlacementMeets
  <1> HIDE DEF walk, order, N
  <1>5. ASSUME NEW n \in nodes  PROVE n \in Range(walk) <=> n \in Placement(h, nodes)
    BY <1>1, <1>4
  <1>6. Range(walk) = Placement(h, nodes)
    BY <1>2, <1>3, <1>5, Zenon
  <1> QED  BY <1>6 DEF walk

(* Two rings with the same members and no orphaned token send every key to *)
(* the same replicas, whatever order the members came in and however often *)
(* they came: the replicas are a function of the members.                  *)
THEOREM PlacementCorrect == Spec => []PlacementFollowsMembers
  BY InitRing, RingStep, PlacesFollow, PTL DEF Spec

-----------------------------------------------------------------------------
(* Moves.                                                                  *)

(* The token that a search in a set of tokens finds: the first at or after *)
(* the hash, or the first of all.  It is in any part of the set that it    *)
(* belongs to the one that a search in that part finds.                    *)
First(ring, h) ==
    LET after == {t \in ring : t >= h} IN IF after = {} THEN Min(ring) ELSE Min(after)

LEMMA FirstOfPart ==
    ASSUME NEW R \in SUBSET Nat, NEW P \in SUBSET R, P # {}, NEW h, First(R, h) \in P
    PROVE  First(P, h) = First(R, h)
  <1> DEFINE afterR == {t \in R : t >= h}
             afterP == {t \in P : t >= h}
  <1>1. ASSUME NEW A \in SUBSET Nat, NEW B \in SUBSET A, B # {}, Min(A) \in B
        PROVE  Min(B) = Min(A)
    <2>1. /\ Min(A) \in Nat /\ \A t \in A : Min(A) <= t
          /\ Min(B) \in B /\ Min(B) \in Nat /\ \A t \in B : Min(B) <= t
      BY <1>1, LeastIs
    <2> QED  BY <1>1, <2>1
  <1>2. CASE afterR = {}
    <2>1. afterP = {} /\ Min(R) \in P
      BY <1>2 DEF First
    <2> QED  BY <1>1, <1>2, <2>1 DEF First
  <1>3. CASE afterR # {}
    <2>1. Min(afterR) \in P /\ Min(afterR) \in afterR
      BY <1>3, LeastIs DEF First
    <2>2. Min(afterR) \in afterP /\ afterP \subseteq afterR
      BY <2>1
    <2>3. Min(afterP) = Min(afterR)
      BY <1>1, <2>2
    <2> QED  BY <1>3, <2>2, <2>3 DEF First
  <1> QED  BY <1>2, <1>3

(* Placement in terms of the token of the search and of whom the walk has  *)
(* passed when it meets a member.                                          *)
TokensOf(members) == UNION {Token[n] : n \in members}

OwnerIn(h, members) == CHOOSE n \in members : First(TokensOf(members), h) \in Token[n]

HasPassed(p, n, m) ==
    IF Min(Token[n]) >= Min(Token[p]) THEN Min(Token[m]) \in Min(Token[p]) .. Min(Token[n]) - 1
    ELSE Min(Token[m]) \notin Min(Token[n]) .. Min(Token[p]) - 1

PassedIn(members, p, n) == {m \in members : HasPassed(p, n, m)}

LEMMA PlacementIs ==
    ASSUME NEW h, NEW members
    PROVE  Placement(h, members) =
               {n \in members : Cardinality(PassedIn(members, OwnerIn(h, members), n)) < RF}
  BY DEF Placement, PassedIn, HasPassed, OwnerIn, TokensOf, First

(* Who is passed before a member that is passed is passed, and nobody is   *)
(* passed before himself or before the primary.                            *)
LEMMA PassedFirst ==
    ASSUME NEW p \in Node, NEW x \in Node, NEW n \in Node
    PROVE  /\ ~HasPassed(p, n, n) /\ ~HasPassed(p, p, n)
           /\ \A m \in Node : HasPassed(p, x, n) /\ HasPassed(p, n, m) => HasPassed(p, x, m)
  <1>1. \A m \in Node : Min(Token[m]) \in Nat
    <2> SUFFICES ASSUME NEW m \in Node PROVE Min(Token[m]) \in Nat
      OBVIOUS
    <2>1. Token[m] \in SUBSET Nat /\ Token[m] # {}
      BY RingAssumption
    <2> QED  BY <2>1, LeastIs
  <1> QED  BY <1>1 DEF HasPassed

(* A node that joins and gets no copy of a key moves it nowhere.           *)
LEMMA JoinMoves ==
    ASSUME NEW M \in SUBSET Node, M # {}, NEW n \in Node \ M, NEW h,
           n \notin Placement(h, M \union {n})
    PROVE  Placement(h, M \union {n}) = Placement(h, M)
  <1> DEFINE N == M \union {n}
             p == OwnerIn(h, N)
             first == First(TokensOf(N), h)
  <1>1. /\ TokensOf(M) \in SUBSET TokensOf(N) /\ TokensOf(N) \in SUBSET Nat
        /\ TokensOf(M) # {} /\ IsFiniteSet(N)
    <2>1. /\ \A m \in N : Token[m] \subseteq Nat /\ Token[m] # {}
          /\ IsFiniteSet(Node) /\ N \subseteq Node
      BY RingAssumption
    <2> QED  BY <2>1, FS_Subset DEF TokensOf
  <1>2. first \in TokensOf(N)
    <2> DEFINE after == {t \in TokensOf(N) : t >= h}
    <2>1. after \in SUBSET Nat /\ after \subseteq TokensOf(N) /\ TokensOf(N) # {}
      BY <1>1
    <2>2. first = IF after = {} THEN Min(TokensOf(N)) ELSE Min(after)
      BY DEF First
    <2> HIDE DEF first, after
    <2> QED  BY <1>1, <2>1, <2>2, LeastIs
  <1>3. p \in N /\ first \in Token[p]
    <2>1. \E m \in N : first \in Token[m]
      BY <1>2 DEF TokensOf
    <2> QED  BY <2>1 DEF OwnerIn
  <1>4. RF \in Nat \ {0}
    BY RingAssumption
  <1>5. p # n
    <2>1. PassedIn(N, p, p) = {}
      BY <1>3, PassedFirst DEF PassedIn
    <2>2. Cardinality(PassedIn(N, p, p)) < RF
      BY <1>4, <2>1, FS_EmptySet
    <2> QED  BY <1>3, <2>2, PlacementIs
  <1>6. OwnerIn(h, M) = p
    <2>1. p \in M /\ first \in TokensOf(M)
      BY <1>3, <1>5 DEF TokensOf
    <2>2. First(TokensOf(M), h) = first
      BY <1>1, <2>1, FirstOfPart
    <2>3. \A m \in M : first \in Token[m] => m = p
      <3> SUFFICES ASSUME NEW m \in M, first \in Token[m] PROVE m = p
        OBVIOUS
      <3>1. p \in Node /\ m \in Node
        BY <2>1
      <3> HIDE DEF p, first
      <3> QED  BY <1>3, <3>1, OneOwner
    <2> HIDE DEF first, p
    <2> QED  BY <1>3, <2>1, <2>2, <2>3 DEF OwnerIn
  <1> HIDE DEF p, first
  <1>7. \A x \in N : IsFiniteSet(PassedIn(N, p, x)) /\ Cardinality(PassedIn(N, p, x)) \in Nat
    <2> SUFFICES ASSUME NEW x \in N
                 PROVE  IsFiniteSet(PassedIn(N, p, x)) /\ Cardinality(PassedIn(N, p, x)) \in Nat
      OBVIOUS
    <2>1. PassedIn(N, p, x) \subseteq N
      BY DEF PassedIn
    <2> QED  BY <1>1, <2>1, FS_Subset, FS_CardinalityType
  <1>8. ASSUME NEW x \in M
        PROVE  Cardinality(PassedIn(N, p, x)) < RF <=> Cardinality(PassedIn(M, p, x)) < RF
    <2>1. /\ PassedIn(M, p, x) \subseteq PassedIn(N, p, x)
          /\ IsFiniteSet(PassedIn(M, p, x)) /\ Cardinality(PassedIn(M, p, x)) \in Nat
          /\ Cardinality(PassedIn(M, p, x)) <= Cardinality(PassedIn(N, p, x))
      <3>1. PassedIn(M, p, x) \subseteq PassedIn(N, p, x)
        BY DEF PassedIn
      <3> QED  BY <1>7, <3>1, FS_Subset, FS_CardinalityType
    <2>2. CASE ~HasPassed(p, x, n)
      BY <2>2, Zenon DEF PassedIn
    <2>3. CASE HasPassed(p, x, n)
      <3>1. PassedIn(N, p, n) \subseteq PassedIn(M, p, x)
        <4> SUFFICES ASSUME NEW m \in N, HasPassed(p, n, m) PROVE m \in M /\ HasPassed(p, x, m)
          BY DEF PassedIn
        <4>1. p \in Node /\ x \in Node /\ m \in Node
          BY <1>3
        <4> QED  BY <2>3, <4>1, PassedFirst
      <3>2. Cardinality(PassedIn(N, p, n)) <= Cardinality(PassedIn(M, p, x))
        BY <2>1, <3>1, FS_Subset
      <3>3. ~(Cardinality(PassedIn(N, p, n)) < RF)
        <4> HIDE DEF N
        <4>1. n \in N /\ n \notin Placement(h, N)
          BY DEF N
        <4> QED  BY <4>1, PlacementIs DEF p
      <3>4. Cardinality(PassedIn(N, p, n)) \in Nat /\ Cardinality(PassedIn(N, p, x)) \in Nat
        BY <1>7
      <3> QED  BY <1>4, <2>1, <3>2, <3>3, <3>4
    <2> QED  BY <2>2, <2>3
  <1>9. /\ Placement(h, N) = {x \in N : Cardinality(PassedIn(N, p, x)) < RF}
        /\ Placement(h, M) = {x \in M : Cardinality(PassedIn(M, p, x)) < RF}
    BY <1>6, PlacementIs DEF p
  <1> QED  BY <1>8, <1>9

(* A step that changes the members adds or removes one.                    *)
LEMMA OneMemberChanges ==
    ASSUME RingInv, [Next]_vars, nodes' # nodes
    PROVE  \E n \in Node : \/ n \notin nodes /\ nodes' = nodes \union {n}
                           \/ n \notin nodes' /\ nodes = nodes' \union {n}
  <1>1. PICK n \in Node : AddNode(n) \/ RemoveNode(n)
    BY DEF Next, vars
  <1>2. nodes' = nodes \union {n} \/ nodes' = nodes \ {n}
    BY <1>1 DEF AddNode, RemoveNode
  <1> QED  BY <1>2

(* Whatever came before: as long as no token has lost its owner, a member  *)
(* that joins or leaves moves the keys that it gets or had, and no other.  *)
THEOREM MovesCorrect == Spec => OnlyTheirKeysMove
  <1>1. RingInv /\ RingInv' /\ [Next]_vars =>
          [nodes' # nodes /\ NoOrphans /\ NoOrphans' => \A h \in Hash :
             LET old == Range(GetNodes(h, RF))
                 new == Range(GetNodes(h, RF)')
                 changed == (nodes \ nodes') \union (nodes' \ nodes)
             IN  new # old => changed \subseteq (old \ new) \union (new \ old)]_vars
    <2> SUFFICES ASSUME RingInv, RingInv', [Next]_vars, nodes' # nodes, NoOrphans, NoOrphans',
                        NEW h \in Hash, Range(GetNodes(h, RF)') # Range(GetNodes(h, RF))
                 PROVE  LET old == Range(GetNodes(h, RF))
                            new == Range(GetNodes(h, RF)')
                        IN  (nodes \ nodes') \union (nodes' \ nodes)
                              \subseteq (old \ new) \union (new \ old)
      OBVIOUS
    <2>1. Range(GetNodes(h, RF)) = Placement(h, nodes)
      BY PlacesFollow DEF PlacementFollowsMembers
    <2>2. Range(GetNodes(h, RF)') = Placement(h, nodes')
      <3>1. PlacementFollowsMembers'
        BY PlacesFollow, PTL
      <3> QED  BY <3>1 DEF PlacementFollowsMembers
    <2>3. Placement(h, nodes) \subseteq nodes /\ Placement(h, nodes') \subseteq nodes'
      BY DEF Placement
    <2>4. /\ nodes \in SUBSET Node /\ nodes # {}
          /\ nodes' \in SUBSET Node /\ nodes' # {}
      BY DEF RingInv, TypeOK
    <2>5. PICK n \in Node : \/ n \notin nodes /\ nodes' = nodes \union {n}
                            \/ n \notin nodes' /\ nodes = nodes' \union {n}
      BY OneMemberChanges
    <2>6. CASE n \notin nodes /\ nodes' = nodes \union {n}
      <3>1. n \in Placement(h, nodes')
        BY <2>1, <2>2, <2>4, <2>6, JoinMoves
      <3> QED  BY <2>1, <2>2, <2>3, <2>6, <3>1
    <2>7. CASE n \notin nodes' /\ nodes = nodes' \union {n}
      <3>1. n \in Placement(h, nodes)
        BY <2>1, <2>2, <2>4, <2>7, JoinMoves
      <3> QED  BY <2>1, <2>2, <2>3, <2>7, <3>1
    <2> QED  BY <2>5, <2>6, <2>7
  <1> QED  BY <1>1, InitRing, RingStep, PTL DEF Spec, OnlyTheirKeysMove

-----------------------------------------------------------------------------
(* The drawing.                                                            *)

(* The hashes of the snapshot, in order.                                   *)
Owned == {t \in Tokens : keys[t] # Nobody}

LEMMA HashesInOrder ==
    ASSUME RingInv
    PROVE  LET M == Cardinality(Owned)
           IN  /\ M \in Nat /\ sortedHashes \in [1 .. M -> Owned]
               /\ \A t \in Owned : t \in Nat /\ \E i \in 1 .. M : sortedHashes[i] = t
               /\ \A i, j \in 1 .. M : sortedHashes[i] < sortedHashes[j] <=> i < j
  <1> DEFINE M == Cardinality(Owned)
             f == [t \in Owned |-> t]
             place(x) == Cardinality({y \in Owned : AsNumber(y) <= AsNumber(x)})
             order == sortedHashes
  <1>1. IsFiniteSet(Owned) /\ Owned \subseteq Nat
    <2>1. /\ IsFiniteSet(Node) /\ \A n \in Node : IsFiniteSet(Token[n]) /\ Token[n] \subseteq Nat
      BY RingAssumption
    <2>2. IsFiniteSet({Token[n] : n \in Node})
      <3> DEFINE g == [n \in Node |-> Token[n]]
      <3>1. g \in Surjection(Node, {Token[n] : n \in Node})
        BY DEF Surjection
      <3> HIDE DEF g
      <3> QED  BY <2>1, <3>1, FS_Surjection
    <2>3. IsFiniteSet(Tokens)
      BY <2>1, <2>2, FS_UNION DEF Tokens
    <2>4. Owned \subseteq Tokens /\ Tokens \subseteq Nat
      BY <2>1 DEF Owned, Tokens
    <2> QED  BY <2>3, <2>4, FS_Subset
  <1>2. f \in [Owned -> Nat] /\ \A x, y \in Owned : f[x] = f[y] => x = y
    BY <1>1
  <1>3. ASSUME NEW x \in Owned PROVE place(x) = PlaceIn(Owned, f, x)
    <2>1. {y \in Owned : AsNumber(y) <= AsNumber(x)} = {y \in Owned : f[y] <= f[x]}
      BY DEF AsNumber
    <2> QED  BY <2>1 DEF PlaceIn
  <1>4. order = [i \in 1 .. M |-> CHOOSE x \in Owned : place(x) = i]
    BY DEF sortedHashes, Sorted, Owned
  <1> HIDE DEF place, order, f
  <1>5. ASSUME NEW i \in 1 .. M, \E x \in Owned : PlaceIn(Owned, f, x) = i
        PROVE  order[i] \in Owned /\ PlaceIn(Owned, f, order[i]) = i
    <2>1. \E x \in Owned : place(x) = i
      BY <1>3, <1>5
    <2>2. /\ (CHOOSE x \in Owned : place(x) = i) \in Owned
          /\ place(CHOOSE x \in Owned : place(x) = i) = i
      BY <2>1
    <2>3. order[i] = CHOOSE x \in Owned : place(x) = i
      BY <1>4
    <2> QED  BY <1>3, <2>2, <2>3
  <1>6. order = [i \in 1 .. M |-> order[i]]
    BY <1>4
  <1>7. ListedBy(order, Owned, f)
    BY <1>1, <1>2, <1>5, <1>6, ChosenByPlace
  <1>8. /\ \A x \in Owned : \E i \in 1 .. M : order[i] = x
        /\ \A i, j \in 1 .. M : f[order[i]] < f[order[j]] <=> i < j
    <2>1. InOrder(order, Owned, f)
      BY <1>1, <1>2, <1>7, ListingInOrder
    <2> QED  BY <2>1 DEF InOrder
  <1>9. M \in Nat /\ order \in [1 .. M -> Owned] /\ \A i \in 1 .. M : f[order[i]] = order[i]
    BY <1>1, <1>7, FS_CardinalityType DEF ListedBy, f
  <1>10. \A i, j \in 1 .. M : order[i] < order[j] <=> i < j
    BY <1>8, <1>9
  <1> QED  BY <1>1, <1>8, <1>9, <1>10 DEF order

(* A member appears first with its least token.                            *)
LEMMA FirstAppearanceIs ==
    ASSUME RingInv, NEW n \in nodes
    PROVE  /\ firstAppearance(n) \in 1 .. Cardinality(Owned)
           /\ sortedHashes[firstAppearance(n)] = minHash(n)
  <1> DEFINE M == Cardinality(Owned)
             hashes == sortedHashes
             places == {i \in 1 .. M : keys[hashes[i]] = n}
             own == {t \in Tokens : keys[t] = n}
             p == firstAppearance(n)
  <1>1. /\ M \in Nat /\ hashes \in [1 .. M -> Owned]
        /\ \A t \in Owned : t \in Nat /\ \E i \in 1 .. M : hashes[i] = t
        /\ \A i, j \in 1 .. M : hashes[i] < hashes[j] <=> i < j
    BY HashesInOrder
  <1>2. n # Nobody /\ own \subseteq Owned
    BY RingAssumption DEF RingInv, TypeOK, Owned
  <1>3. minHash(n) \in own /\ \A t \in own : minHash(n) <= t
    <2>1. own \in SUBSET Nat /\ own # {}
      BY <1>1, <1>2, MinHashOf
    <2> HIDE DEF own
    <2>2. Min(own) \in own /\ \A t \in own : Min(own) <= t
      BY <2>1, LeastIs
    <2> QED  BY <2>2 DEF minHash, own
  <1>4. p = Min(places)
    BY <1>1 DEF firstAppearance
  <1> HIDE DEF M, hashes, p
  <1>5. PICK j \in 1 .. M : hashes[j] = minHash(n)
    BY <1>1, <1>2, <1>3
  <1>6. j \in places
    BY <1>3, <1>5
  <1>7. p \in places /\ p <= j
    <2>1. places \in SUBSET Nat /\ places # {}
      BY <1>1, <1>6
    <2> HIDE DEF places
    <2> QED  BY <1>4, <1>6, <2>1, LeastIs
  <1>8. hashes[p] \in own
    BY <1>1, <1>7 DEF Owned
  <1>9. minHash(n) <= hashes[p]
    BY <1>3, <1>8
  <1>10. ~(p < j)
    <2>1. hashes[p] \in Nat /\ hashes[j] \in Nat /\ p \in 1 .. M
      BY <1>1, <1>7
    <2> QED  BY <1>1, <1>5, <1>9, <2>1
  <1>11. p = j
    BY <1>1, <1>7, <1>10
  <1> QED  BY <1>5, <1>11 DEF hashes, p, M

(* So the browser and the node sort the ring alike.                        *)
LEMMA DrawnAsRing ==
    ASSUME RingInv
    PROVE  drawnNodes = physicalRingOrder
  <1> DEFINE N == Cardinality(nodes)
             M == Cardinality(Owned)
             f == [n \in nodes |-> minHash(n)]
             byHash(x) == Cardinality({y \in nodes : minHash(y) <= minHash(x)})
             byPlace(x) == Cardinality({y \in nodes : firstAppearance(y) <= firstAppearance(x)})
             order == physicalRingOrder
             drawn == drawnNodes
  <1>1. IsFiniteSet(nodes) /\ f \in [nodes -> Nat]
        /\ (\A x, y \in nodes : f[x] = f[y] => x = y)
    <2>1. IsFiniteSet(nodes)
      BY OrderOfMembers
    <2> QED  BY <2>1, MinHashOf
  <1>2. ASSUME NEW x \in nodes
        PROVE  byHash(x) = PlaceIn(nodes, f, x) /\ byPlace(x) = PlaceIn(nodes, f, x)
    <2>1. {y \in nodes : minHash(y) <= minHash(x)} = {y \in nodes : f[y] <= f[x]}
      BY <1>2
    <2>2. ASSUME NEW y \in nodes
          PROVE  firstAppearance(y) <= firstAppearance(x) <=> f[y] <= f[x]
      <3>1. /\ firstAppearance(x) \in 1 .. M /\ sortedHashes[firstAppearance(x)] = f[x]
            /\ firstAppearance(y) \in 1 .. M /\ sortedHashes[firstAppearance(y)] = f[y]
        BY FirstAppearanceIs
      <3>2. M \in Nat /\ \A i, j \in 1 .. M : sortedHashes[i] < sortedHashes[j] <=> i < j
        BY HashesInOrder
      <3>3. f[x] \in Nat /\ f[y] \in Nat
        BY <1>1
      <3>4. f[x] < f[y] <=> firstAppearance(x) < firstAppearance(y)
        BY <3>1, <3>2
      <3> HIDE DEF M, f
      <3> QED  BY <3>1, <3>2, <3>3, <3>4
    <2>3. {y \in nodes : firstAppearance(y) <= firstAppearance(x)} = {y \in nodes : f[y] <= f[x]}
      BY <2>2
    <2> HIDE DEF f
    <2> QED  BY <2>1, <2>3 DEF PlaceIn
  <1>3. /\ order = [i \in 1 .. N |-> CHOOSE x \in nodes : byHash(x) = i]
        /\ drawn = [i \in 1 .. N |-> CHOOSE x \in nodes : byPlace(x) = i]
    BY DEF physicalRingOrder, drawnNodes, Sorted
  <1> HIDE DEF f, byHash, byPlace, order, drawn
  <1>4. \A i \in 1 .. N : (\E x \in nodes : PlaceIn(nodes, f, x) = i)
            => /\ order[i] \in nodes /\ PlaceIn(nodes, f, order[i]) = i
               /\ drawn[i] \in nodes /\ PlaceIn(nodes, f, drawn[i]) = i
    <2> SUFFICES ASSUME NEW i \in 1 .. N, \E x \in nodes : PlaceIn(nodes, f, x) = i
                 PROVE  /\ order[i] \in nodes /\ PlaceIn(nodes, f, order[i]) = i
                        /\ drawn[i] \in nodes /\ PlaceIn(nodes, f, drawn[i]) = i
      OBVIOUS
    <2>1. (\E x \in nodes : byHash(x) = i) /\ \E x \in nodes : byPlace(x) = i
      BY <1>2
    <2>2. /\ order[i] = CHOOSE x \in nodes : byHash(x) = i
          /\ drawn[i] = CHOOSE x \in nodes : byPlace(x) = i
      BY <1>3
    <2>3. order[i] \in nodes /\ byHash(order[i]) = i
      BY <2>1, <2>2
    <2>4. drawn[i] \in nodes /\ byPlace(drawn[i]) = i
      BY <2>1, <2>2
    <2> QED  BY <1>2, <2>3, <2>4
  <1>5. order = [i \in 1 .. N |-> order[i]] /\ drawn = [i \in 1 .. N |-> drawn[i]]
    BY <1>3
  <1>6. ListedBy(order, nodes, f)
    BY <1>1, <1>4, <1>5, ChosenByPlace
  <1>7. ListedBy(drawn, nodes, f)
    BY <1>1, <1>4, <1>5, ChosenByPlace
  <1>8. drawn = order
    BY <1>1, <1>6, <1>7, ListedOneWay
  <1> QED  BY <1>8 DEF drawn, order

(* Arcs end at the places of the walk.                                     *)
LEMMA ArcsOfWalk ==
    ASSUME RingInv, NEW h
    PROVE  LET N == Cardinality(nodes)
               len == IF RF <= N THEN RF ELSE N
           IN  Arcs(KeyOp(h), nodePositions) = [i \in 1 .. len |-> Place(h, i)]
  <1> DEFINE N == Cardinality(nodes)
             len == IF RF <= N THEN RF ELSE N
             order == physicalRingOrder
             walk == GetNodes(h, RF)
             positions == nodePositions
  <1>1. /\ N \in Nat \ {0} /\ order \in [1 .. N -> nodes]
        /\ \A n \in nodes : \E i \in 1 .. N : order[i] = n
        /\ \A i, j \in 1 .. N : i < j => minHash(order[i]) < minHash(order[j])
    BY OrderOfMembers
  <1>2. /\ len \in 1 .. N /\ walk = [i \in 1 .. len |-> order[Place(h, i)]]
        /\ \A i \in 1 .. len : Place(h, i) \in 1 .. N
    BY WalkIs, RingAssumption
  <1>3. positions = [n \in nodes |-> CHOOSE i \in DOMAIN order : order[i] = n]
    BY DrawnAsRing DEF nodePositions
  <1>4. Arcs(KeyOp(h), positions) =
            [i \in {j \in DOMAIN walk : walk[j] \in DOMAIN positions} |-> positions[walk[i]]]
    BY DEF Arcs, KeyOp
  <1>5. \A i \in 1 .. N : minHash(order[i]) \in Nat
    BY <1>1, MinHashOf
  <1> HIDE DEF order, walk, positions, N, len
  <1>6. ASSUME NEW i \in 1 .. N, NEW j \in 1 .. N, order[i] = order[j] PROVE i = j
    <2>1. i \in Nat /\ j \in Nat /\ minHash(order[i]) \in Nat /\ ~(minHash(order[i]) < minHash(order[j]))
          /\ ~(minHash(order[j]) < minHash(order[i]))
      <3>1. minHash(order[i]) = minHash(order[j]) /\ minHash(order[i]) \in Nat
        BY <1>5, <1>6
      <3> QED  BY <1>1, <3>1
    <2>2. ~(i < j) /\ ~(j < i)
      BY <1>1, <2>1
    <2> QED  BY <2>1, <2>2
  <1>7. ASSUME NEW i \in 1 .. len
        PROVE  walk[i] \in nodes /\ positions[walk[i]] = Place(h, i)
    <2>1. Place(h, i) \in 1 .. N /\ walk[i] = order[Place(h, i)] /\ walk[i] \in nodes
      BY <1>1, <1>2
    <2>2. positions[walk[i]] = CHOOSE j \in 1 .. N : order[j] = walk[i]
      BY <1>1, <1>3, <2>1
    <2>3. /\ (CHOOSE j \in 1 .. N : order[j] = walk[i]) \in 1 .. N
          /\ order[CHOOSE j \in 1 .. N : order[j] = walk[i]] = walk[i]
      BY <2>1
    <2> QED  BY <1>6, <2>1, <2>2, <2>3
  <1>8. {j \in DOMAIN walk : walk[j] \in DOMAIN positions} = 1 .. len
    BY <1>2, <1>3, <1>7
  <1>9. Arcs(KeyOp(h), positions) = [i \in 1 .. len |-> Place(h, i)]
    BY <1>4, <1>7, <1>8
  <1> QED  BY <1>9 DEF N, len, positions

LEMMA Neighbours == RingInv => ReplicasAreNeighbours
  <1> SUFFICES ASSUME RingInv PROVE ReplicasAreNeighbours
    OBVIOUS
  <1> DEFINE N == Cardinality(nodes)
             len == IF RF <= N THEN RF ELSE N
             positions == nodePositions
  <1>1. N \in Nat \ {0} /\ RF \in Nat \ {0}
    BY OrderOfMembers, RingAssumption
  <1>2. Min({RF, N}) = len
    <2>1. {RF, N} \in SUBSET Nat /\ {RF, N} # {}
      BY <1>1
    <2>2. Min({RF, N}) \in {RF, N} /\ \A y \in {RF, N} : Min({RF, N}) <= y
      BY <2>1, LeastIs
    <2> HIDE DEF N
    <2> QED  BY <1>1, <2>2
  <1>3. ASSUME NEW h \in Hash
        PROVE  LET arcs == Arcs(KeyOp(h), positions)
               IN  /\ DOMAIN arcs = 1 .. len
                   /\ \A i \in 1 .. len - 1 : arcs[i + 1] = (arcs[i] % N) + 1
    <2> DEFINE arcs == Arcs(KeyOp(h), positions)
    <2>1. arcs = [i \in 1 .. len |-> Place(h, i)]
      BY ArcsOfWalk
    <2>2. len \in 1 .. N /\ \A i \in 1 .. len : Place(h, i) \in 1 .. N
      BY <1>1, WalkIs
    <2>3. Start(h) \in 1 .. N
      BY StartIsPlace
    <2> HIDE DEF arcs, len, positions
    <2>4. ASSUME NEW i \in 1 .. len - 1 PROVE arcs[i + 1] = (arcs[i] % N) + 1
      <3>1. i \in 1 .. len /\ i + 1 \in 1 .. len /\ i \in Nat /\ i + 1 <= N
        <4> HIDE DEF N
        <4> QED  BY <1>1, <2>2
      <3>2. arcs[i + 1] = Place(h, i + 1) /\ arcs[i] = Place(h, i)
        BY <2>1, <3>1
      <3>3. /\ Place(h, i) = IF Start(h) + i - 1 <= N THEN Start(h) + i - 1
                             ELSE Start(h) + i - 1 - N
            /\ Place(h, i + 1) = IF Start(h) + (i + 1) - 1 <= N THEN Start(h) + (i + 1) - 1
                                 ELSE Start(h) + (i + 1) - 1 - N
        BY DEF Place
      <3>4. \A x \in 1 .. N : x % N = IF x = N THEN 0 ELSE x
        <4> HIDE DEF N
        <4> QED  BY <1>1
      <3>5. Place(h, i) \in 1 .. N
        BY <2>2, <3>1
      <3> HIDE DEF N
      <3>6. Place(h, i + 1) = IF Place(h, i) = N THEN 1 ELSE Place(h, i) + 1
        BY <1>1, <2>3, <3>1, <3>3
      <3> QED  BY <1>1, <3>2, <3>4, <3>5, <3>6
    <2> QED  BY <2>1, <2>4 DEF arcs
  <1> HIDE DEF positions, N, len
  <1> QED  BY <1>2, <1>3 DEF ReplicasAreNeighbours, positions, N

(* "A stable clockwise ordering that matches the UI visualization": for    *)
(* any nodes, tokens and replication factor, after whatever joins and      *)
(* removals.                                                               *)
THEOREM NeighboursCorrect == Spec => []ReplicasAreNeighbours
  <1>1. Init => RingInv
    BY InitRing
  <1>2. RingInv /\ [Next]_vars => RingInv'
    BY RingStep
  <1>3. RingInv => ReplicasAreNeighbours
    BY Neighbours
  <1> QED  BY <1>1, <1>2, <1>3, PTL DEF Spec

-----------------------------------------------------------------------------
(* What the Coordinator assumes of the ring (its GetNodes and              *)
(* WalkAssumption): the members are visited in an order that depends on    *)
(* their set alone, each of them once, and a lookup returns the beginning. *)
OrderOf(S) == LET Least(n) == Min(Token[n]) IN Sorted(S, Least)

WalkOf(h, S) ==
    LET order == OrderOf(S)
        size  == Cardinality(S)
        start == CHOOSE i \in 1 .. size : order[i] = OwnerIn(h, S)
    IN  [i \in 1 .. size |-> order[IF start + i - 1 <= size THEN start + i - 1
                                   ELSE start + i - 1 - size]]

LEMMA OwnerAmong ==
    ASSUME NEW S \in SUBSET Node, S # {}, NEW h
    PROVE  OwnerIn(h, S) \in S
  <1> DEFINE ring  == TokensOf(S)
             after == {t \in ring : t >= h}
  <1>1. ring \in SUBSET Nat /\ ring # {} /\ after \in SUBSET Nat /\ after \subseteq ring
    <2>1. \A n \in S : Token[n] \subseteq Nat /\ Token[n] # {}
      BY RingAssumption
    <2> QED  BY <2>1 DEF TokensOf
  <1>2. First(ring, h) \in ring
    <2>1. First(ring, h) = IF after = {} THEN Min(ring) ELSE Min(after)
      BY DEF First
    <2> HIDE DEF ring, after
    <2> QED  BY <1>1, <2>1, LeastIs
  <1>3. \E n \in S : First(ring, h) \in Token[n]
    BY <1>2 DEF TokensOf
  <1> HIDE DEF ring
  <1> QED  BY <1>3 DEF OwnerIn, ring

LEMMA OrderOfIs ==
    ASSUME NEW S \in SUBSET Node
    PROVE  LET N == Cardinality(S)
           IN  /\ N \in Nat /\ IsFiniteSet(S) /\ OrderOf(S) \in [1 .. N -> S]
               /\ \A n \in S : \E i \in 1 .. N : OrderOf(S)[i] = n
               /\ \A i, j \in 1 .. N : OrderOf(S)[i] = OrderOf(S)[j] => i = j
  <1> DEFINE N == Cardinality(S)
             f == [n \in S |-> Min(Token[n])]
             place(x) == Cardinality({y \in S : Min(Token[y]) <= Min(Token[x])})
             order == OrderOf(S)
  <1>1. IsFiniteSet(S) /\ N \in Nat
    BY RingAssumption, FS_Subset, FS_CardinalityType
  <1>2. \A n \in S : Min(Token[n]) \in Token[n] /\ Min(Token[n]) \in Nat
    <2> SUFFICES ASSUME NEW n \in S PROVE Min(Token[n]) \in Token[n] /\ Min(Token[n]) \in Nat
      OBVIOUS
    <2>1. Token[n] \in SUBSET Nat /\ Token[n] # {}
      BY RingAssumption
    <2> QED  BY <2>1, LeastIs
  <1>3. f \in [S -> Nat]
    BY <1>2
  <1>4. ASSUME NEW x \in S, NEW y \in S, f[x] = f[y] PROVE x = y
    <2>1. x \in Node /\ y \in Node /\ Min(Token[x]) \in Token[x] /\ Min(Token[x]) \in Token[y]
      BY <1>2, <1>4
    <2> QED  BY <2>1, OneOwner
  <1>5. order = [i \in 1 .. N |-> CHOOSE x \in S : place(x) = i]
    BY DEF OrderOf, Sorted
  <1>6. ASSUME NEW x \in S PROVE place(x) = PlaceIn(S, f, x)
    <2>1. {y \in S : Min(Token[y]) <= Min(Token[x])} = {y \in S : f[y] <= f[x]}
      OBVIOUS
    <2> HIDE DEF f
    <2> QED  BY <2>1 DEF PlaceIn
  <1> HIDE DEF f, place, order
  <1>7. ASSUME NEW i \in 1 .. N, \E x \in S : PlaceIn(S, f, x) = i
        PROVE  order[i] \in S /\ PlaceIn(S, f, order[i]) = i
    <2>1. \E x \in S : place(x) = i
      BY <1>6, <1>7
    <2>2. order[i] = CHOOSE x \in S : place(x) = i
      BY <1>5
    <2>3. order[i] \in S /\ place(order[i]) = i
      BY <2>1, <2>2
    <2> QED  BY <1>6, <2>3
  <1>8. order = [i \in 1 .. N |-> order[i]]
    BY <1>5
  <1>9. ListedBy(order, S, f)
    BY <1>1, <1>3, <1>4, <1>7, <1>8, ChosenByPlace
  <1>10. InOrder(order, S, f)
    BY <1>1, <1>3, <1>4, <1>9, ListingInOrder
  <1> QED  BY <1>1, <1>9, <1>10 DEF ListedBy, InOrder, order

(* The order is that of the ring while no token is orphaned.               *)
LEMMA OrderIsRings ==
    ASSUME RingInv, NoOrphans
    PROVE  physicalRingOrder = OrderOf(nodes)
  <1>1. \A n \in nodes : minHash(n) = Min(Token[n])
    BY TokensOfMembers
  <1> DEFINE N == Cardinality(nodes)
             byHash(x) == Cardinality({y \in nodes : minHash(y) <= minHash(x)})
             byToken(x) == Cardinality({y \in nodes : Min(Token[y]) <= Min(Token[x])})
  <1>2. ASSUME NEW x \in nodes PROVE byHash(x) = byToken(x)
    <2>1. {y \in nodes : minHash(y) <= minHash(x)} = {y \in nodes : Min(Token[y]) <= Min(Token[x])}
      BY <1>1
    <2> QED  BY <2>1
  <1>3. /\ physicalRingOrder = [i \in 1 .. N |-> CHOOSE x \in nodes : byHash(x) = i]
        /\ OrderOf(nodes) = [i \in 1 .. N |-> CHOOSE x \in nodes : byToken(x) = i]
    BY DEF physicalRingOrder, OrderOf, Sorted
  <1> HIDE DEF byHash, byToken, N
  <1>4. \A i : (CHOOSE x \in nodes : byHash(x) = i) = CHOOSE x \in nodes : byToken(x) = i
    BY <1>2
  <1> QED  BY <1>3, <1>4

LEMMA WalkOfIs ==
    ASSUME NEW S \in SUBSET Node, NEW h
    PROVE  /\ WalkOf(h, S) \in Seq(Node) /\ Len(WalkOf(h, S)) = Cardinality(S)
           /\ IsInjective(WalkOf(h, S)) /\ Range(WalkOf(h, S)) = S
  <1> DEFINE N == Cardinality(S)
             order == OrderOf(S)
             s == CHOOSE i \in 1 .. N : order[i] = OwnerIn(h, S)
             turn(i) == IF s + i - 1 <= N THEN s + i - 1 ELSE s + i - 1 - N
             walk == WalkOf(h, S)
  <1>1. /\ N \in Nat /\ IsFiniteSet(S) /\ order \in [1 .. N -> S]
        /\ \A n \in S : \E i \in 1 .. N : order[i] = n
        /\ \A i, j \in 1 .. N : order[i] = order[j] => i = j
    BY OrderOfIs
  <1>2. walk = [i \in 1 .. N |-> order[turn(i)]]
    BY DEF WalkOf
  <1>3. ASSUME N # 0 PROVE s \in 1 .. N
    <2>1. S # {}
      BY <1>3, FS_EmptySet
    <2>2. \E i \in 1 .. N : order[i] = OwnerIn(h, S)
      BY <1>1, <2>1, OwnerAmong
    <2> QED  BY <2>2
  <1> HIDE DEF N, order, s, walk
  <1>4. ASSUME NEW i \in 1 .. N
        PROVE  /\ turn(i) \in 1 .. N /\ order[turn(i)] \in S
               /\ \A j \in 1 .. N : turn(i) = turn(j) => i = j
               /\ \E j \in 1 .. N : turn(j) = i
    <2>1. N \in Nat \ {0} /\ s \in 1 .. N
      BY <1>1, <1>3
    <2>2. turn(i) \in 1 .. N /\ \A j \in 1 .. N : turn(i) = turn(j) => i = j
      BY <2>1
    <2>3. \E j \in 1 .. N : turn(j) = i
      <3> DEFINE j == IF i >= s THEN i - s + 1 ELSE N - (s - i) + 1
      <3>1. j \in 1 .. N /\ turn(j) = i
        BY <2>1
      <3> HIDE DEF turn, j
      <3> QED  BY <3>1
    <2> HIDE DEF turn
    <2> QED  BY <1>1, <2>2, <2>3
  <1> HIDE DEF turn
  <1>5. walk \in [1 .. N -> S] /\ walk \in [1 .. N -> Node]
    BY <1>2, <1>4
  <1>6. walk \in Seq(Node) /\ Len(walk) = N
    BY <1>1, <1>5
  <1>7. IsInjective(walk)
    <2> SUFFICES ASSUME NEW i \in 1 .. N, NEW j \in 1 .. N, walk[i] = walk[j] PROVE i = j
      BY <1>5 DEF IsInjective
    <2>1. order[turn(i)] = order[turn(j)]
      BY <1>2
    <2> QED  BY <1>1, <1>4, <2>1
  <1>8. ASSUME NEW n \in S PROVE n \in Range(walk)
    <2>1. PICK i \in 1 .. N : order[i] = n
      BY <1>1
    <2>2. PICK j \in 1 .. N : turn(j) = i
      BY <1>4
    <2>3. walk[j] = n /\ j \in DOMAIN walk
      BY <1>2, <2>1, <2>2
    <2> QED  BY <2>3 DEF Range
  <1>9. Range(walk) = S
    BY <1>5, <1>8 DEF Range
  <1> QED  BY <1>6, <1>7, <1>9 DEF N, walk

(* The walks meet the assumption, for every set of members: what the       *)
(* Coordinator takes for granted of HashRing.GetNodes can be had.          *)
THEOREM WalkAssumptionMet ==
    ASSUME NEW h
    PROVE  LET Walk == [S \in SUBSET Node |-> WalkOf(h, S)]
           IN  /\ Walk \in [SUBSET Node -> Seq(Node)]
               /\ \A S \in SUBSET Node : IsInjective(Walk[S]) /\ Range(Walk[S]) = S
  BY WalkOfIs

(* A lookup of so many nodes returns the beginning of the walk.            *)
BeginningsOfWalks ==
    NoOrphans => \A h \in Hash : \A count \in Nat \ {0} :
        LET members == WalkOf(h, nodes)
        IN  GetNodes(h, count) = IF Len(members) <= count THEN members
                                 ELSE SubSeq(members, 1, count)

LEMMA WalksBegin == RingInv => BeginningsOfWalks
  <1> SUFFICES ASSUME RingInv, NoOrphans, NEW h \in Hash, NEW count \in Nat \ {0}
               PROVE  GetNodes(h, count) = IF Len(WalkOf(h, nodes)) <= count THEN WalkOf(h, nodes)
                                           ELSE SubSeq(WalkOf(h, nodes), 1, count)
    BY DEF BeginningsOfWalks
  <1> DEFINE N == Cardinality(nodes)
             order == physicalRingOrder
             len == IF count <= N THEN count ELSE N
             walk == WalkOf(h, nodes)
             found == GetNodes(h, count)
             s == CHOOSE i \in 1 .. N : order[i] = OwnerIn(h, nodes)
  <1>1. /\ nodes \in SUBSET Node /\ N \in Nat \ {0} /\ order = OrderOf(nodes)
    BY OrderOfMembers, OrderIsRings DEF RingInv, TypeOK
  <1>2. Start(h) = s
    <2>1. OwnerIn(h, nodes) = keys[Search(h)] /\ keys[Search(h)] \in nodes
      BY PrimaryIs DEF OwnerIn, TokensOf, First
    <2>2. Start(h) \in 1 .. N /\ order[Start(h)] = OwnerIn(h, nodes)
      BY <2>1, StartIsPlace
    <2>3. \A i, j \in 1 .. N : order[i] = order[j] => i = j
      BY <1>1, OrderOfIs
    <2>4. s \in 1 .. N /\ order[s] = OwnerIn(h, nodes)
      BY <2>2
    <2> HIDE DEF s, order, N
    <2> QED  BY <2>2, <2>3, <2>4
  <1>3. walk = [i \in 1 .. N |-> order[Place(h, i)]]
    BY <1>1, <1>2 DEF WalkOf, Place
  <1>4. len \in 1 .. N /\ found = [i \in 1 .. len |-> order[Place(h, i)]]
    BY WalkIs
  <1>5. walk \in Seq(Node) /\ Len(walk) = N
    BY <1>1, WalkOfIs
  <1> HIDE DEF walk, found, order, N, s
  <1>6. CASE N <= count
    <2>1. len = N
      BY <1>1, <1>6
    <2> QED  BY <1>3, <1>4, <1>5, <1>6, <2>1 DEF walk, found
  <1>7. CASE ~(N <= count)
    <2>1. len = count
      BY <1>1, <1>7
    <2>2. SubSeq(walk, 1, count) = [i \in 1 .. count |-> walk[i]]
      BY <1>1, <1>5, <1>7
    <2>3. \A i \in 1 .. count : walk[i] = order[Place(h, i)]
      BY <1>1, <1>3, <1>7
    <2>4. found = SubSeq(walk, 1, count)
      BY <1>4, <2>1, <2>2, <2>3
    <2> QED  BY <1>5, <1>7, <2>4 DEF walk, found
  <1> QED  BY <1>1, <1>6, <1>7

(* And they are the ring's own: whatever the order of joins and leaves, a  *)
(* lookup depends on the members alone and returns the beginning of their  *)
(* walk, as the Coordinator's GetNodes does, while no token is orphaned.   *)
THEOREM BeginningsCorrect == Spec => []BeginningsOfWalks
  BY InitRing, RingStep, WalksBegin, PTL DEF Spec
=============================================================================
