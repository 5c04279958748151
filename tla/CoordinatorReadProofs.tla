----------------------- MODULE CoordinatorReadProofs ------------------------
(***************************************************************************)
(* Proofs about what reads return and what clocks count, for any number of *)
(* nodes and requests, any replication factor, any faults.                 *)
(***************************************************************************)
EXTENDS CoordinatorProofs, WellFoundedInduction

(* Induction over numbers, by the least counterexample.                    *)
LEMMA LeastNumber ==
    ASSUME NEW T \in SUBSET Nat, T # {}
    PROVE  \E x \in T : \A y \in T : x <= y
  <1> DEFINE R == {ss \in Nat \X Nat : ss[1] < ss[2]}
  <1>1. IsWellFoundedOn(R, Nat)
    BY NatLessThanWellFounded DEF OpToRel
  <1>2. PICK x \in T : \A y \in T : ~(<<y, x>> \in R)
    BY <1>1, WFMin
  <1>3. \A y \in T : ~(y < x)
    <2> SUFFICES ASSUME NEW y \in T, y < x PROVE FALSE
      OBVIOUS
    <2>1. <<y, x>> \in Nat \X Nat /\ <<y, x>>[1] = y /\ <<y, x>>[2] = x
      OBVIOUS
    <2>2. <<y, x>> \in R
      BY <2>1
    <2> QED  BY <2>2, <1>2
  <1>4. x \in Nat /\ \A y \in T : y \in Nat
    OBVIOUS
  <1> HIDE DEF R
  <1> QED  BY <1>3, <1>4

-----------------------------------------------------------------------------
(* The pass over the answers of a read.                                    *)

(* "Older" is a strict order.                                              *)
LEMMA OlderIsOrder ==
    ASSUME NEW a, NEW b, NEW c,
           IsClock(a, Node), IsClock(b, Node), IsClock(c, Node)
    PROVE  /\ Compare(a, a) # -1
           /\ Compare(a, b) = -1 /\ Compare(b, c) = -1 => Compare(a, c) = -1
           /\ Compare(a, b) < 0 <=> Compare(a, b) = -1
  <1>1. Compare(a, a) # -1
    BY CompareDecidesOrder
  <1>2. ASSUME Compare(a, b) = -1, Compare(b, c) = -1  PROVE Compare(a, c) = -1
    <2>1. Leq(a, b) /\ Leq(b, c) /\ ~Leq(c, b)
      BY <1>2, CompareDecidesOrder
    <2>2. Leq(a, c)
      BY <2>1, LeqTransitive
    <2>3. ~Leq(c, a)
      BY <2>1, LeqTransitive
    <2> QED  BY <2>2, <2>3, CompareDecidesOrder
  <1>3. Compare(a, b) \in {1, -1, 0, 2}
    BY CompareDecidesOrder
  <1>4. Compare(a, b) < 0 <=> Compare(a, b) = -1
    BY <1>3
  <1> QED  BY <1>1, <1>2, <1>4

(* After each answer, the pass holds one that is older than none so far,   *)
(* although some of them may be concurrent.                                *)
LEMMA PassMaximal ==
    ASSUME NEW k \in Nat, k > 0, NEW versions, Len(versions) = k,
           \A i \in 1 .. k : IsClock(versions[i].clock, Node),
           NEW best \in Pass(versions)
    PROVE  /\ best[k] \in 1 .. k
           /\ \A j \in 1 .. k : Compare(versions[best[k]].clock, versions[j].clock) # -1
  <1> DEFINE Older(i, j) == Compare(versions[i].clock, versions[j].clock) = -1
             Wrong == {i \in 1 .. k : \E j \in 1 .. i : Older(best[i], j)}
  <1>1. /\ best \in [1 .. k -> 1 .. k]
        /\ best[1] = 1
        /\ \A i \in 2 .. k :
              best[i] = IF Compare(versions[best[i - 1]].clock, versions[i].clock) < 0
                        THEN i ELSE best[i - 1]
    BY DEF Pass
  <1>2. \A i, j, m \in 1 .. k :
          /\ ~Older(i, i)
          /\ Older(i, j) /\ Older(j, m) => Older(i, m)
          /\ Compare(versions[i].clock, versions[j].clock) < 0 <=> Older(i, j)
    BY OlderIsOrder
  <1>3. /\ best[1] = 1
        /\ \A i \in 2 .. k : /\ best[i - 1] \in 1 .. k
                             /\ best[i] = IF Older(best[i - 1], i) THEN i ELSE best[i - 1]
    BY <1>1, <1>2
  <1> HIDE DEF Older
  <1>4. Wrong = {}
    <2> SUFFICES ASSUME Wrong # {} PROVE FALSE
      OBVIOUS
    <2>a. Wrong \in SUBSET Nat
      OBVIOUS
    <2>1. PICK i \in Wrong : \A y \in Wrong : i <= y
      <3> HIDE DEF Wrong
      <3> QED  BY <2>a, LeastNumber
    <2>2. i \in 1 .. k
      OBVIOUS
    <2>3. PICK j \in 1 .. i : Older(best[i], j)
      OBVIOUS
    <2>4. CASE i = 1
      BY <1>2, <1>3, <2>2, <2>3, <2>4
    <2>5. CASE i # 1
      <3>1. i \in 2 .. k /\ i - 1 \in 1 .. k /\ i - 1 \notin Wrong
        BY <2>1, <2>2, <2>5
      <3>2. \A m \in 1 .. i - 1 : ~Older(best[i - 1], m)
        BY <3>1
      <3>3. j \in 1 .. k /\ (j # i => j \in 1 .. i - 1) /\ best[i - 1] \in 1 .. k
        BY <1>3, <2>2, <2>3, <3>1
      <3> HIDE DEF Wrong
      <3>4. CASE Older(best[i - 1], i)
        <4>1. best[i] = i
          BY <1>3, <3>1, <3>4
        <4> QED  BY <1>2, <2>2, <2>3, <3>2, <3>3, <3>4, <4>1
      <3>5. CASE ~Older(best[i - 1], i)
        <4>1. best[i] = best[i - 1]
          BY <1>3, <3>1, <3>5
        <4> QED  BY <2>3, <3>2, <3>3, <3>5, <4>1
      <3> QED  BY <3>4, <3>5
    <2> QED  BY <2>4, <2>5
  <1>5. k \notin Wrong /\ k \in 1 .. k
    BY <1>4
  <1> QED  BY <1>1, <1>5 DEF Older

(* An arrival order names every replica that found the key.                *)
LEMMA ArrivalIsComplete ==
    ASSUME NEW found, IsFiniteSet(found), NEW arrival \in SetToSeqs(found)
    PROVE  /\ DOMAIN arrival = 1 .. Cardinality(found)
           /\ \A i \in DOMAIN arrival : arrival[i] \in found
           /\ \A n \in found : \E i \in DOMAIN arrival : arrival[i] = n
  <1> DEFINE k == Cardinality(found)
  <1>1. k \in Nat
    BY FS_CardinalityType
  <1>2. arrival \in [1 .. k -> found] /\ \A i, j \in 1 .. k : arrival[i] = arrival[j] => i = j
    BY <1>1 DEF SetToSeqs, IsInjective
  <1> HIDE DEF k
  <1>3. arrival \in Injection(1 .. k, found)
    BY <1>2 DEF Injection, IsInjective
  <1>4. Cardinality(1 .. k) = k
    BY <1>1, FS_Interval
  <1>5. arrival \in Surjection(1 .. k, found)
    <2>1. Cardinality(1 .. k) = Cardinality(found) <=> arrival \in Surjection(1 .. k, found)
      BY <1>3, FS_Injection
    <2> QED  BY <1>4, <2>1 DEF k
  <1> QED  BY <1>2, <1>5 DEF Surjection, k

-----------------------------------------------------------------------------
(* What a read returns.                                                    *)

(* A read that is over stays as it is.                                     *)
LEMMA BestKeeps ==
    ASSUME BestIsMaximal,
           \A r \in Request :
              phase'[r] = "ok" /\ job'[r].kind = "read" =>
                /\ phase[r] = "ok" /\ job[r].kind = "read"
                /\ got'[r] = got[r] /\ result'[r] = result[r]
    PROVE  BestIsMaximal'
  BY DEF BestIsMaximal

LEMMA BestInit == Init => BestIsMaximal
  BY DEF Init, BestIsMaximal

LEMMA BestStep == TypeInv /\ BestIsMaximal /\ [Next]_vars => BestIsMaximal'
  <1> SUFFICES ASSUME TypeInv, BestIsMaximal, [Next]_vars  PROVE BestIsMaximal'
    OBVIOUS
  <1> USE DEF TypeInv, TypeOK
  <1>1. ASSUME NEW r \in Request, NEW c \in Entry, NEW mode \in Modes,
               WriteStart(r, c, mode) \/ DeleteStart(r, c, mode) \/ ReadStart(r, c, mode)
        PROVE  BestIsMaximal'
    <2>1. /\ UNCHANGED <<got, result>>
          /\ phase'[r] \in {"clock", "waiting"}
          /\ \A s \in Request \ {r} : job'[s] = job[s] /\ phase'[s] = phase[s]
      BY <1>1 DEF WriteStart, DeleteStart, ReadStart, Start, JobsOK
    <2> QED  BY <2>1, BestKeeps
  <1>2. ASSUME NEW r \in Request, WriteClock(r)  PROVE BestIsMaximal'
    <2>1. UNCHANGED <<got, result, job>> /\ phase' = [phase EXCEPT ![r] = "waiting"]
      BY <1>2 DEF WriteClock
    <2> QED  BY <2>1, BestKeeps DEF JobsOK
  <1>3. ASSUME NEW r \in Request, MutationFinish(r)  PROVE BestIsMaximal'
    <2>1. /\ UNCHANGED <<got, result, job>> /\ job[r].kind # "read"
          /\ \A s \in Request \ {r} : phase'[s] = phase[s]
      BY <1>3 DEF MutationFinish, JobsOK
    <2> QED  BY <2>1, BestKeeps
  <1>4. ASSUME NEW r \in Request, LocalReadFails(r) \/ \E n \in Node : ReadReplica(r, n)
        PROVE  BestIsMaximal'
    <2>1. /\ UNCHANGED <<phase, job, result>> /\ phase[r] = "waiting"
          /\ \A s \in Request \ {r} : got'[s] = got[s]
      BY <1>4 DEF LocalReadFails, ReadReplica, Answer, AnswersOK
    <2> QED  BY <2>1, BestKeeps
  <1>5. ASSUME NEW r \in Request, ReadFinish(r)  PROVE BestIsMaximal'
    <2> DEFINE found == {n \in DOMAIN got[r] : got[r][n] # NoVersion}
    <2>1. /\ phase[r] = "waiting" /\ UNCHANGED <<job, got>>
          /\ \A s \in Request \ {r} : phase'[s] = phase[s] /\ result'[s] = result[s]
      BY <1>5 DEF ReadFinish, JobsOK, AnswersOK
    <2>2. CASE phase'[r] = "failed"
      BY <2>1, <2>2, BestKeeps
    <2>3. CASE phase'[r] # "failed" /\ found = {}
      BY <2>1, <2>3 DEF BestIsMaximal
    <2>4. CASE phase'[r] # "failed" /\ found # {}
      <3>1. PICK arrival \in SetToSeqs(found) :
              LET versions == [i \in DOMAIN arrival |-> got[r][arrival[i]]]
              IN  \E best \in Pass(versions) :
                    LET b == best[Len(versions)]
                    IN  result' = [result EXCEPT ![r] = versions[b]]
        BY <1>5, <2>4 DEF ReadFinish, JobsOK
      <3> DEFINE versions == [i \in DOMAIN arrival |-> got[r][arrival[i]]]
                 k == Cardinality(found)
      <3>2. PICK best \in Pass(versions) : result' = [result EXCEPT ![r] = versions[best[Len(versions)]]]
        BY <3>1
      <3>3. IsFiniteSet(found) /\ k \in Nat /\ k > 0
        <4>1. IsFiniteSet(found)
          BY <2>1, AnswersFitReplicas
        <4> QED  BY <2>4, <4>1, FS_CardinalityType, FS_EmptySet
      <3>4. /\ DOMAIN arrival = 1 .. k
            /\ \A n \in found : \E i \in 1 .. k : arrival[i] = n
            /\ \A i \in 1 .. k : arrival[i] \in found
        <4> HIDE DEF found
        <4> QED  BY <3>3, ArrivalIsComplete
      <3> HIDE DEF k
      <3>5. Len(versions) = k /\ \A i \in 1 .. k : versions[i] = got[r][arrival[i]]
        BY <3>3, <3>4
      <3>6. \A i \in 1 .. k : versions[i] # NoVersion /\ IsClock(versions[i].clock, Node)
        BY <3>4, <3>5, StoredClock DEF AnswersOK
      <3> HIDE DEF versions
      <3>7. /\ best[k] \in 1 .. k
            /\ \A j \in 1 .. k : Compare(versions[best[k]].clock, versions[j].clock) # -1
        BY <3>3, <3>5, <3>6, PassMaximal
      <3>8. result'[r] = versions[best[k]]
        BY <3>2, <3>5 DEF AnswersOK
      <3>9. ASSUME NEW n \in found
            PROVE  result'[r] # NoVersion /\ Compare(result'[r].clock, got[r][n].clock) # -1
        <4>1. PICK i \in 1 .. k : arrival[i] = n
          BY <3>4
        <4> QED  BY <3>5, <3>6, <3>7, <3>8, <4>1
      <3> QED  BY <2>1, <3>9 DEF BestIsMaximal
    <2> QED  BY <2>2, <2>3, <2>4
  <1>6. ASSUME NEW call \in calls,
               SetCheck(call) \/ WalAppend(call) \/ DbPut(call) \/ CallFails(call)
        PROVE  BestIsMaximal'
    BY <1>6, BestKeeps DEF SetCheck, WalAppend, DbPut, CallFails
  <1>7. ASSUME NEW n \in Node, AntiEntropy(n) \/ \E m \in Node : RingChange(n, m)
        PROVE  BestIsMaximal'
    BY <1>7, BestKeeps DEF AntiEntropy, RingChange
  <1>8. ASSUME NEW n \in Node, Crash(n)  PROVE BestIsMaximal'
    <2>1. /\ UNCHANGED <<got, result, job>>
          /\ \A r \in Request : phase'[r] = "ok" => phase[r] = "ok"
      BY <1>8 DEF Crash
    <2> QED  BY <2>1, BestKeeps
  <1>9. CASE UNCHANGED vars
    BY <1>9, BestKeeps DEF vars
  <1> QED
    BY <1>1, <1>2, <1>3, <1>4, <1>5, <1>6, <1>7, <1>8, <1>9
    DEF Next, RequestStart, RequestStep, ReplicaStep, ClusterStep

(* Whatever the answers of a read, in whatever order they come, and        *)
(* although clocks are only partly ordered: none is newer than what the    *)
(* read returns, and it returns a version when one of them found one.      *)
THEOREM BestCorrect == Spec => []BestIsMaximal
  <1>1. TypeInv /\ BestIsMaximal /\ [Next]_vars => BestIsMaximal'
    BY BestStep
  <1> QED  BY <1>1, BestInit, TypeInvariant, PTL DEF Spec

-----------------------------------------------------------------------------
(* What clocks count.                                                      *)
DrawnBy(n) == {r \in Drawn : job[r].coord = n}

CountInv ==
    /\ IsFiniteSet(Drawn)
    /\ \A r \in Drawn, n \in Node : At(clock[r], n) <= Cardinality(DrawnBy(n))

(* Only WriteClock draws, and only requests that have not drawn change     *)
(* what they are.                                                          *)
LEMMA CountKeeps ==
    ASSUME CountInv, UNCHANGED clock, \A r \in Drawn : job'[r] = job[r]
    PROVE  CountInv'
  <1>1. Drawn' = Drawn
    BY DEF Drawn
  <1>2. \A n : DrawnBy(n)' = DrawnBy(n)
    BY <1>1 DEF DrawnBy
  <1> QED  BY <1>1, <1>2 DEF CountInv

LEMMA CountInit == Init => CountInv
  <1> SUFFICES ASSUME Init PROVE CountInv
    OBVIOUS
  <1>1. Drawn = {}
    BY DEF Init, Drawn
  <1> QED  BY <1>1, FS_EmptySet DEF CountInv

LEMMA CountStep == TypeInv /\ VersionIntegrity /\ CountInv /\ [Next]_vars => CountInv'
  <1> SUFFICES ASSUME TypeInv, VersionIntegrity, CountInv, [Next]_vars  PROVE CountInv'
    OBVIOUS
  <1>1. ASSUME NEW r \in Request, NEW c \in Entry, NEW mode \in Modes,
               WriteStart(r, c, mode) \/ DeleteStart(r, c, mode) \/ ReadStart(r, c, mode)
        PROVE  CountInv'
    <2>1. /\ UNCHANGED clock /\ phase[r] = "free"
          /\ \A s \in Request \ {r} : job'[s] = job[s]
      BY <1>1 DEF WriteStart, DeleteStart, ReadStart, Start, TypeInv, TypeOK, JobsOK
    <2>2. r \notin Drawn
      BY <2>1 DEF Drawn, TypeInv, WellFormed
    <2> QED  BY <2>1, <2>2, CountKeeps DEF Drawn
  <1>2. ASSUME NEW r \in Request, WriteClock(r)  PROVE CountInv'
    <2> DEFINE coord == job[r].coord
    <2>1. /\ phase[r] = "clock" /\ clock[r] = EmptyClock /\ UNCHANGED job
          /\ coord \in Node /\ job[r].nodes[1] \in Node
      BY <1>2 DEF WriteClock, TypeInv, TypeOK, WellFormed, JobsOK, Job
    <2>2. PICK seen \in ClockSeen(r) : clock' = [clock EXCEPT ![r] = NextClock(r, seen)]
      BY <1>2 DEF WriteClock
    <2>3. IsClock(seen, Node)
      BY <2>1, ClockSeenType
    <2>4. \A n \in Node : Cardinality(DrawnBy(n)) \in Nat /\ IsFiniteSet(DrawnBy(n))
      <3>1. \A n \in Node : DrawnBy(n) \in SUBSET Drawn
        BY DEF DrawnBy
      <3> QED  BY <3>1, FS_Subset, FS_CardinalityType DEF CountInv
    <2>5. \A n \in Node : At(seen, n) <= Cardinality(DrawnBy(n))
      <3>1. CASE seen = EmptyClock
        BY <2>4, <3>1 DEF At, EmptyClock
      <3>2. CASE seen # EmptyClock
        <4>1. store[job[r].nodes[1]] # NoVersion /\ seen = store[job[r].nodes[1]].clock
          BY <3>2 DEF ClockSeen
        <4>2. store[job[r].nodes[1]].by \in Drawn /\ seen = clock[store[job[r].nodes[1]].by]
          BY <2>1, <4>1 DEF VersionIntegrity, Copies
        <4> QED  BY <4>2 DEF CountInv
      <3> QED  BY <3>1, <3>2
    <2>6. \A n \in Node : At(NextClock(r, seen), n) = At(seen, n) + (IF n = coord THEN 1 ELSE 0)
      BY <2>3, AtType DEF NextClock, Increment, At
    <2>7. NextClock(r, seen) # EmptyClock
      <3>1. coord \in DOMAIN NextClock(r, seen)
        BY DEF NextClock, Increment
      <3> QED  BY <3>1 DEF EmptyClock
    <2>8. /\ clock'[r] = NextClock(r, seen)
          /\ \A s \in Request \ {r} : clock'[s] = clock[s]
          /\ Drawn' = Drawn \union {r} /\ r \notin Drawn
      BY <2>1, <2>2, <2>7 DEF Drawn, TypeInv, TypeOK, AnswersOK
    <2>9. \A n : DrawnBy(n)' = IF n = coord THEN DrawnBy(n) \union {r} ELSE DrawnBy(n)
      BY <2>1, <2>8 DEF DrawnBy
    <2>10. \A n \in Node :
             Cardinality(DrawnBy(n)') = Cardinality(DrawnBy(n)) + (IF n = coord THEN 1 ELSE 0)
      <3>1. \A n \in Node : r \notin DrawnBy(n)
        BY <2>8 DEF DrawnBy
      <3>2. \A n \in Node : Cardinality(DrawnBy(n) \union {r}) = Cardinality(DrawnBy(n)) + 1
        BY <2>4, <3>1, FS_AddElement
      <3> QED  BY <2>4, <2>9, <3>2
    <2>11. ASSUME NEW s \in Drawn', NEW n \in Node
           PROVE  At(clock'[s], n) <= Cardinality(DrawnBy(n)')
      <3>1. CASE s = r
        <4>1. At(seen, n) \in Nat
          BY <2>3, AtType
        <4> QED  BY <2>4, <2>5, <2>6, <2>8, <2>10, <3>1, <4>1
      <3>2. CASE s # r
        <4>1. s \in Drawn /\ clock'[s] = clock[s] /\ IsClock(clock[s], Node)
          BY <2>8, <3>2 DEF Drawn, TypeInv, TypeOK, AnswersOK
        <4>2. At(clock[s], n) \in Nat /\ At(clock[s], n) <= Cardinality(DrawnBy(n))
          BY <4>1, AtType DEF CountInv
        <4> QED  BY <2>4, <2>10, <4>1, <4>2
      <3> QED  BY <3>1, <3>2
    <2>12. IsFiniteSet(Drawn')
      BY <2>8, FS_AddElement DEF CountInv
    <2> QED  BY <2>11, <2>12 DEF CountInv
  <1>3. ASSUME UNCHANGED <<clock, job>>  PROVE CountInv'
    BY <1>3, CountKeeps
  <1>4. ASSUME NEW r \in Request,
               \/ MutationFinish(r) \/ ReadFinish(r)
               \/ LocalReadFails(r) \/ \E n \in Node : ReadReplica(r, n)
        PROVE  CountInv'
    BY <1>3, <1>4 DEF MutationFinish, ReadFinish, LocalReadFails, ReadReplica, Answer
  <1>5. ASSUME NEW call \in calls,
               SetCheck(call) \/ WalAppend(call) \/ DbPut(call) \/ CallFails(call)
        PROVE  CountInv'
    BY <1>3, <1>5 DEF SetCheck, WalAppend, DbPut, CallFails
  <1>6. ASSUME NEW n \in Node, AntiEntropy(n) \/ Crash(n) \/ \E m \in Node : RingChange(n, m)
        PROVE  CountInv'
    BY <1>3, <1>6 DEF AntiEntropy, RingChange, Crash
  <1>7. CASE UNCHANGED vars
    BY <1>3, <1>7 DEF vars
  <1> QED
    BY <1>1, <1>2, <1>4, <1>5, <1>6, <1>7
    DEF Next, RequestStart, RequestStep, ReplicaStep, ClusterStep

(* However many coordinators, concurrent writes, repairs and crashes: no   *)
(* copy of a version counts more writes of a node than that node started.  *)
THEOREM ClocksCorrect == Spec => []ClocksCountWrites
  <1>1. TypeInv /\ VersionIntegrity /\ CountInv /\ [Next]_vars => CountInv'
    BY CountStep
  <1>2. VersionIntegrity /\ CountInv => ClocksCountWrites
    BY DEF VersionIntegrity, CountInv, ClocksCountWrites, DrawnBy
  <1> QED  BY <1>1, <1>2, CountInit, TypeInvariant, IntegrityCorrect, PTL DEF Spec

-----------------------------------------------------------------------------
(* An acknowledged key is found.                                           *)
NoDeletes == \A d \in Request : job[d].kind # "delete"

OkWrite(w) == phase[w] = "ok" /\ job[w].kind = "write"

(* Where the key is once a call has come some way, and that it stays.      *)
CallsKeep ==
    \A call \in calls :
        /\ call.ver # NoVersion
        /\ call.stage = "logged" => wal[call.to] # NoVersion
        /\ call.stage \in {"applied", "skipped"} => store[call.to] # NoVersion

LogKeeps == \A n \in Node : store[n] # NoVersion => wal[n] # NoVersion

AckedKeep == \A w \in Request : OkWrite(w) => \A n \in acked[w] : store[n] # NoVersion

(* What a read is told by a replica that acknowledged an earlier write,    *)
(* unless that is its own engine, failing.                                 *)
AnswersKeep ==
    \A q \in Request : phase[q] # "free" =>
        \A w \in job[q].after :
            OkWrite(w) =>
                \A n \in acked[w] \intersect DOMAIN got[q] :
                    got[q][n] # NoVersion \/ (q \in unread /\ n = job[q].coord)

Kept == CallsKeep /\ LogKeeps /\ AckedKeep /\ AnswersKeep

(* What holds of requests, deletes or not.                                 *)
RequestsKeep ==
    \A q \in Request :
        /\ phase[q] = "free" => job[q] = NoJob
        /\ phase[q] # "free" => job[q].after \subseteq Finished
        /\ phase[q] = "ok" /\ job[q].kind = "read" => acked[q] = DOMAIN got[q]

KeptInv == RequestsKeep /\ (NoDeletes => Kept)

LEMMA KeptInit == Init => KeptInv
  BY DEF Init, KeptInv, RequestsKeep, Kept, CallsKeep, LogKeeps, AckedKeep, AnswersKeep, OkWrite

(* A request that starts.                                                  *)
LEMMA StartKeeps ==
    ASSUME TypeInv, RequestsKeep, NEW r \in Request, NEW c \in Entry, NEW mode \in Modes,
           NEW kind \in {"read", "write", "delete"}, NEW next \in {"clock", "waiting"},
           Start(r, c, kind, mode, next), UNCHANGED <<store, wal, got, acked, unread>>
    PROVE  /\ RequestsKeep'
           /\ NoDeletes' => NoDeletes /\ kind # "delete"
           /\ AckedKeep => AckedKeep'
           /\ AnswersKeep => AnswersKeep'
  <1>1. /\ phase[r] = "free" /\ DOMAIN got[r] = {} /\ job[r] = NoJob
        /\ phase'[r] \in {"clock", "waiting"}
        /\ job'[r].kind = kind /\ job'[r].after = Finished
        /\ \A s \in Request \ {r} : phase'[s] = phase[s] /\ job'[s] = job[s]
    BY DEF Start, TypeInv, TypeOK, WellFormed, JobsOK, RequestsKeep
  <1>2. Finished' = Finished /\ r \notin Finished
    BY <1>1 DEF Finished
  <1>3. RequestsKeep'
    BY <1>1, <1>2 DEF RequestsKeep
  <1>4. NoDeletes' => NoDeletes /\ kind # "delete"
    BY <1>1 DEF NoDeletes, NoJob
  <1>5. \A w \in Request : OkWrite(w)' <=> OkWrite(w)
    BY <1>1 DEF OkWrite
  <1>6. AckedKeep => AckedKeep'
    BY <1>5 DEF AckedKeep
  <1>7. ASSUME AnswersKeep  PROVE AnswersKeep'
    <2> SUFFICES ASSUME NEW q \in Request, phase'[q] # "free", NEW w \in job'[q].after,
                        OkWrite(w)', NEW n \in acked'[w] \intersect DOMAIN got'[q],
                        ~(q \in unread' /\ n = job'[q].coord)
                 PROVE  got'[q][n] # NoVersion
      BY DEF AnswersKeep
    <2>1. q # r
      BY <1>1
    <2>2. w \in Request
      BY <1>1, <1>2, <2>1 DEF RequestsKeep, Finished
    <2> QED  BY <1>1, <1>5, <1>7, <2>1, <2>2 DEF AnswersKeep
  <1> QED  BY <1>3, <1>4, <1>6, <1>7

(* A step that leaves requests and answers alone, and takes no key away.   *)
LEMMA RequestsStay ==
    ASSUME RequestsKeep, UNCHANGED <<phase, job, got, acked, unread>>
    PROVE  RequestsKeep' /\ (NoDeletes' <=> NoDeletes) /\ (AnswersKeep => AnswersKeep')
  BY DEF RequestsKeep, Finished, NoDeletes, AnswersKeep, OkWrite

LEMMA StoresKeep ==
    ASSUME TypeInv, Kept, UNCHANGED <<phase, job, got, acked>>,
           \A n \in Node : /\ store[n] # NoVersion => store'[n] # NoVersion
                           /\ wal[n] # NoVersion => wal'[n] # NoVersion
                           /\ store'[n] # NoVersion => wal'[n] # NoVersion,
           \A call \in calls' :
              \/ call \in calls
              \/ /\ call.ver # NoVersion
                 /\ call.stage = "logged" => wal'[call.to] # NoVersion
                 /\ call.stage \in {"applied", "skipped"} => store'[call.to] # NoVersion
    PROVE  CallsKeep' /\ LogKeeps' /\ AckedKeep'
  <1>1. CallsKeep'
    <2>1. \A call \in calls : call.to \in Node
      BY DEF TypeInv, TypeOK, CallsOK, IsCall
    <2> QED  BY <2>1 DEF Kept, CallsKeep
  <1>2. LogKeeps'
    BY DEF LogKeeps
  <1>3. AckedKeep'
    <2>1. \A w \in Request : acked[w] \subseteq Node
      BY DEF TypeInv, TypeOK, AnswersOK
    <2> QED  BY <2>1 DEF Kept, AckedKeep, OkWrite
  <1> QED  BY <1>1, <1>2, <1>3

(* The same for all of the invariant.                                      *)
LEMMA AllStay ==
    ASSUME TypeInv, KeptInv, UNCHANGED <<phase, job, got, acked, unread>>,
           Kept => CallsKeep' /\ LogKeeps' /\ AckedKeep'
    PROVE  KeptInv'
  BY RequestsStay DEF KeptInv, Kept

LEMMA KeptStep == TypeInv /\ KeptInv /\ [Next]_vars => KeptInv'
  <1> SUFFICES ASSUME TypeInv, KeptInv, [Next]_vars  PROVE KeptInv'
    OBVIOUS
  <1>a. RequestsKeep /\ (NoDeletes => Kept)
    BY DEF KeptInv
  <1>1. ASSUME NEW r \in Request, NEW c \in Entry, NEW mode \in Modes,
               WriteStart(r, c, mode) \/ ReadStart(r, c, mode)
        PROVE  KeptInv'
    <2>1. UNCHANGED <<store, wal, got, acked, calls, unread>>
      BY <1>1 DEF WriteStart, ReadStart
    <2>2. /\ RequestsKeep' /\ (NoDeletes' => NoDeletes)
          /\ AckedKeep => AckedKeep'
          /\ AnswersKeep => AnswersKeep'
      <3>1. CASE WriteStart(r, c, mode)
        BY <1>a, <2>1, <3>1, StartKeeps DEF WriteStart
      <3>2. CASE ReadStart(r, c, mode)
        BY <1>a, <2>1, <3>2, StartKeeps DEF ReadStart
      <3> QED  BY <1>1, <3>1, <3>2
    <2>3. CallsKeep /\ LogKeeps => CallsKeep' /\ LogKeeps'
      BY <2>1 DEF CallsKeep, LogKeeps
    <2> QED  BY <1>a, <2>2, <2>3 DEF KeptInv, Kept
  <1>2. ASSUME NEW r \in Request, NEW c \in Entry, NEW mode \in Modes, DeleteStart(r, c, mode)
        PROVE  KeptInv'
    <2>1. RequestsKeep' /\ ~NoDeletes'
      BY <1>2, <1>a, StartKeeps DEF DeleteStart
    <2> QED  BY <2>1 DEF KeptInv
  <1>3. ASSUME NEW r \in Request, WriteClock(r)  PROVE KeptInv'
    <2>1. /\ phase[r] = "clock" /\ phase'[r] = "waiting"
          /\ \A s \in Request \ {r} : phase'[s] = phase[s]
          /\ UNCHANGED <<job, got, acked, store, wal, unread>>
      BY <1>3 DEF WriteClock, TypeInv, TypeOK, JobsOK
    <2>2. Finished' = Finished /\ \A w \in Request : OkWrite(w)' <=> OkWrite(w)
      BY <2>1 DEF Finished, OkWrite
    <2>3. RequestsKeep' /\ (NoDeletes' <=> NoDeletes)
      BY <1>a, <2>1, <2>2 DEF RequestsKeep, NoDeletes
    <2>4. \A call \in calls' : call \in calls \/ (call.ver # NoVersion /\ call.stage = "sent")
      <3>1. PICK seen \in ClockSeen(r) :
              calls' = calls \union
                 FanOut(r, job[r].nodes, [by |-> r, clock |-> NextClock(r, seen)])
        BY <1>3 DEF WriteClock
      <3>2. job[r].coord \in Node
        BY <2>1 DEF TypeInv, TypeOK, JobsOK, Job
      <3>3. IsClock(NextClock(r, seen), Node)
        BY <2>1, <3>2, ClockSeenType, IncrementType DEF NextClock
      <3>4. [by |-> r, clock |-> NextClock(r, seen)] # NoVersion
        BY <3>3, VersionType
      <3> QED  BY <3>1, <3>4 DEF FanOut
    <2>5. ASSUME Kept  PROVE Kept'
      <3>1. CallsKeep' /\ LogKeeps'
        BY <2>1, <2>4, <2>5 DEF Kept, CallsKeep, LogKeeps
      <3>2. AckedKeep'
        BY <2>1, <2>2, <2>5 DEF Kept, AckedKeep
      <3>3. AnswersKeep'
        <4> SUFFICES ASSUME NEW q \in Request, phase'[q] # "free", NEW w \in job'[q].after,
                            OkWrite(w)', NEW n \in acked'[w] \intersect DOMAIN got'[q],
                            ~(q \in unread' /\ n = job'[q].coord)
                     PROVE  got'[q][n] # NoVersion
          BY DEF AnswersKeep
        <4>1. phase[q] # "free" /\ w \in job[q].after
          BY <2>1
        <4>2. w \in Request
          BY <1>a, <4>1 DEF RequestsKeep, Finished
        <4> QED  BY <2>1, <2>2, <2>5, <4>1, <4>2 DEF Kept, AnswersKeep
      <3> QED  BY <3>1, <3>2, <3>3 DEF Kept
    <2> QED  BY <1>a, <2>3, <2>5 DEF KeptInv
  <1>4. ASSUME NEW r \in Request, MutationFinish(r)  PROVE KeptInv'
    <2>1. /\ phase[r] = "waiting" /\ phase'[r] \in {"ok", "failed"}
          /\ \A s \in Request \ {r} : phase'[s] = phase[s] /\ acked'[s] = acked[s]
          /\ UNCHANGED <<job, got, store, wal, unread>> /\ calls' \subseteq calls
          /\ job[r].kind # "read"
      BY <1>4 DEF MutationFinish, TypeInv, TypeOK, JobsOK, AnswersOK
    <2>2. Finished' = Finished \union {r} /\ r \notin Finished
      BY <2>1 DEF Finished
    <2>3. RequestsKeep' /\ (NoDeletes' <=> NoDeletes)
      BY <1>a, <2>1, <2>2 DEF RequestsKeep, NoDeletes
    <2>4. \A w \in Request \ {r} : OkWrite(w)' <=> OkWrite(w)
      BY <2>1 DEF OkWrite
    <2>5. acked'[r] \subseteq {call.to : call \in Succeeded(r)}
      BY <1>4 DEF MutationFinish, TypeInv, TypeOK, AnswersOK
    <2>6. ASSUME Kept  PROVE Kept'
      <3>1. CallsKeep' /\ LogKeeps'
        BY <2>1, <2>6 DEF Kept, CallsKeep, LogKeeps
      <3>2. \A n \in acked'[r] : store[n] # NoVersion
        BY <2>5, <2>6 DEF Kept, CallsKeep, Succeeded, CallsOf
      <3>3. AckedKeep'
        BY <2>1, <2>4, <2>6, <3>2 DEF Kept, AckedKeep
      <3>4. AnswersKeep'
        <4> SUFFICES ASSUME NEW q \in Request, phase'[q] # "free", NEW w \in job'[q].after,
                            OkWrite(w)', NEW n \in acked'[w] \intersect DOMAIN got'[q],
                            ~(q \in unread' /\ n = job'[q].coord)
                     PROVE  got'[q][n] # NoVersion
          BY DEF AnswersKeep
        <4>1. phase[q] # "free" /\ w \in job[q].after
          BY <2>1
        <4>2. w \in Request /\ w # r
          BY <1>a, <2>2, <4>1 DEF RequestsKeep, Finished
        <4> QED  BY <2>1, <2>4, <2>6, <4>1, <4>2 DEF Kept, AnswersKeep
      <3> QED  BY <3>1, <3>3, <3>4 DEF Kept
    <2> QED  BY <1>a, <2>3, <2>6 DEF KeptInv
  <1>5. ASSUME NEW r \in Request, NEW n, NEW v, Answer(r, n, v), unread \subseteq unread',
               v = store[n] \/ (r \in unread' /\ n = job[r].coord)
        PROVE  KeptInv'
    <2>1. /\ phase[r] = "waiting" /\ UNCHANGED <<phase, job, acked, store, wal, calls>>
          /\ \A s \in Request \ {r} : got'[s] = got[s]
          /\ DOMAIN got'[r] = DOMAIN got[r] \union {n}
          /\ \A m \in DOMAIN got'[r] : got'[r][m] = IF m = n THEN v ELSE got[r][m]
      BY <1>5 DEF Answer, TypeInv, TypeOK, AnswersOK
    <2>2. RequestsKeep' /\ (NoDeletes' <=> NoDeletes)
      BY <1>a, <2>1 DEF RequestsKeep, NoDeletes, Finished
    <2>3. \A w \in Request : OkWrite(w)' <=> OkWrite(w)
      BY <2>1 DEF OkWrite
    <2>4. ASSUME Kept  PROVE Kept'
      <3>1. CallsKeep' /\ LogKeeps' /\ AckedKeep'
        BY <2>1, <2>3, <2>4 DEF Kept, CallsKeep, LogKeeps, AckedKeep
      <3>2. AnswersKeep'
        <4> SUFFICES ASSUME NEW q \in Request, phase'[q] # "free", NEW w \in job'[q].after,
                            OkWrite(w)', NEW m \in acked'[w] \intersect DOMAIN got'[q],
                            ~(q \in unread' /\ m = job'[q].coord)
                     PROVE  got'[q][m] # NoVersion
          BY DEF AnswersKeep
        <4>1. phase[q] # "free" /\ w \in job[q].after /\ m \in acked[w]
          BY <2>1
        <4>2. w \in Request /\ OkWrite(w)
          BY <1>a, <2>3, <4>1 DEF RequestsKeep, Finished
        <4>3. CASE m \in DOMAIN got[q] /\ got'[q][m] = got[q][m]
          BY <1>5, <2>1, <2>4, <4>1, <4>2, <4>3 DEF Kept, AnswersKeep
        <4>4. CASE got'[q][m] = store[m]
          BY <2>4, <4>1, <4>2, <4>4 DEF Kept, AckedKeep
        <4> QED  BY <1>5, <2>1, <4>3, <4>4
      <3> QED  BY <3>1, <3>2 DEF Kept
    <2> QED  BY <1>a, <2>2, <2>4 DEF KeptInv
  <1>6. ASSUME NEW r \in Request, ReadFinish(r)  PROVE KeptInv'
    <2> DEFINE found == {n \in DOMAIN got[r] : got[r][n] # NoVersion}
    <2>1. /\ phase[r] = "waiting" /\ phase'[r] \in {"ok", "failed"} /\ job[r].kind = "read"
          /\ acked'[r] = DOMAIN got[r]
          /\ \A s \in Request \ {r} : phase'[s] = phase[s] /\ acked'[s] = acked[s]
          /\ UNCHANGED <<job, got, store, wal, unread>>
      BY <1>6 DEF ReadFinish, TypeInv, TypeOK, JobsOK, AnswersOK
    <2>2. Finished' = Finished \union {r} /\ r \notin Finished
      BY <2>1 DEF Finished
    <2>3. RequestsKeep' /\ (NoDeletes' <=> NoDeletes)
      BY <1>a, <2>1, <2>2 DEF RequestsKeep, NoDeletes
    <2>4. \A w \in Request : (OkWrite(w)' <=> OkWrite(w)) /\ (OkWrite(w) => w # r)
      BY <2>1 DEF OkWrite
    <2>5. \A call \in calls' : call \in calls \/ (call.ver # NoVersion /\ call.stage = "sent")
      <3>1. CASE UNCHANGED calls
        BY <3>1
      <3>2. CASE ~UNCHANGED calls
        <4>1. found # {}
          BY <1>6, <3>2 DEF ReadFinish
        <4>2. PICK arrival \in SetToSeqs(found) :
                LET versions == [i \in DOMAIN arrival |-> got[r][arrival[i]]]
                IN  \E best \in Pass(versions) :
                      LET b == best[Len(versions)]
                      IN  calls' = calls \union Repairs(r, versions, b)
          BY <1>6, <3>2 DEF ReadFinish
        <4> DEFINE versions == [i \in DOMAIN arrival |-> got[r][arrival[i]]]
        <4>3. PICK best \in Pass(versions) :
                calls' = calls \union Repairs(r, versions, best[Len(versions)])
          BY <4>2
        <4> DEFINE b == best[Len(versions)]
        <4>4. /\ b \in DOMAIN arrival
              /\ \A i \in DOMAIN arrival : versions[i] # NoVersion
              /\ \A call \in Repairs(r, versions, b) :
                    call.ver = versions[b] /\ call.stage = "sent"
          BY <2>1, <4>1, ReadFinishType
        <4> HIDE DEF versions, b
        <4> QED  BY <4>3, <4>4 DEF b
      <3> QED  BY <3>1, <3>2
    <2>6. ASSUME Kept  PROVE Kept'
      <3>1. CallsKeep' /\ LogKeeps'
        BY <2>1, <2>5, <2>6 DEF Kept, CallsKeep, LogKeeps
      <3>2. AckedKeep'
        BY <2>1, <2>4, <2>6 DEF Kept, AckedKeep
      <3>3. AnswersKeep'
        <4> SUFFICES ASSUME NEW q \in Request, phase'[q] # "free", NEW w \in job'[q].after,
                            OkWrite(w)', NEW n \in acked'[w] \intersect DOMAIN got'[q],
                            ~(q \in unread' /\ n = job'[q].coord)
                     PROVE  got'[q][n] # NoVersion
          BY DEF AnswersKeep
        <4>1. phase[q] # "free" /\ w \in job[q].after
          BY <2>1
        <4>2. w \in Request /\ w # r
          BY <1>a, <2>2, <4>1 DEF RequestsKeep, Finished
        <4> QED  BY <2>1, <2>4, <2>6, <4>1, <4>2 DEF Kept, AnswersKeep
      <3> QED  BY <3>1, <3>2, <3>3 DEF Kept
    <2> QED  BY <1>a, <2>3, <2>6 DEF KeptInv
  <1>7. ASSUME NEW call \in calls, SetCheck(call)  PROVE KeptInv'
    <2>1. /\ UNCHANGED <<phase, job, got, acked, store, wal, unread>>
          /\ IsStored(call.ver) /\ IsStored(store[call.to]) /\ call.ver # NoVersion
      BY <1>7 DEF SetCheck, TypeInv, TypeOK, CallsOK, IsCall, ReplicasOK
    <2>2. IsStored(Absorb(call.ver, store[call.to])) /\ Absorb(call.ver, store[call.to]) # NoVersion
      BY <2>1, AbsorbType
    <2>3. \A d \in calls' :
             \/ d \in calls
             \/ /\ d.ver # NoVersion /\ d.to = call.to
                /\ \/ d.stage = "checked"
                   \/ d.stage = "skipped" /\ store[call.to] # NoVersion
      <3>1. CASE /\ store[call.to] # NoVersion /\ calls' = Advance(call, call.ver, "skipped")
        BY <2>1, <3>1, AdvanceType DEF TypeInv, TypeOK
      <3>2. CASE calls' = Advance(call, Absorb(call.ver, store[call.to]), "checked")
        BY <2>2, <3>2, AdvanceType DEF TypeInv, TypeOK
      <3>3. CASE calls' = Advance(call, call.ver, "checked")
        BY <2>1, <3>3, AdvanceType DEF TypeInv, TypeOK
      <3> QED  BY <1>7, <3>1, <3>2, <3>3 DEF SetCheck
    <2>4. Kept => CallsKeep' /\ LogKeeps' /\ AckedKeep'
      <3>1. ASSUME Kept  PROVE \A n \in Node : store[n] # NoVersion => wal[n] # NoVersion
        BY <3>1 DEF Kept, LogKeeps
      <3> QED  BY <2>1, <2>3, <3>1, StoresKeep
    <2> QED  BY <2>1, <2>4, AllStay
  <1>8. ASSUME NEW call \in calls, WalAppend(call)  PROVE KeptInv'
    <2>1. /\ UNCHANGED <<phase, job, got, acked, store, unread>>
          /\ IsStored(call.ver) /\ call.to \in Node
          /\ wal' = [wal EXCEPT ![call.to] = call.ver] /\ DOMAIN wal = Node
          /\ calls' = Advance(call, call.ver, "logged")
      BY <1>8 DEF WalAppend, TypeInv, TypeOK, CallsOK, IsCall, ReplicasOK
    <2>2. \A d \in calls' :
             d \in calls \/ (d.ver = call.ver /\ d.to = call.to /\ d.stage = "logged")
      BY <2>1, AdvanceType DEF TypeInv, TypeOK
    <2>3. ASSUME Kept  PROVE CallsKeep' /\ LogKeeps' /\ AckedKeep'
      <3>1. call.ver # NoVersion /\ \A n \in Node : store[n] # NoVersion => wal[n] # NoVersion
        BY <2>3 DEF Kept, CallsKeep, LogKeeps
      <3>2. wal'[call.to] = call.ver /\ \A n \in Node \ {call.to} : wal'[n] = wal[n]
        BY <2>1
      <3>3. \A n \in Node : /\ store[n] # NoVersion => store'[n] # NoVersion
                            /\ wal[n] # NoVersion => wal'[n] # NoVersion
                            /\ store'[n] # NoVersion => wal'[n] # NoVersion
        BY <2>1, <3>1, <3>2
      <3> QED  BY <2>1, <2>2, <2>3, <3>1, <3>2, <3>3, StoresKeep
    <2> QED  BY <2>1, <2>3, AllStay
  <1>9. ASSUME NEW call \in calls, DbPut(call)  PROVE KeptInv'
    <2>1. /\ UNCHANGED <<phase, job, got, acked, wal, unread>>
          /\ IsStored(call.ver) /\ call.to \in Node /\ call.stage = "logged"
          /\ store' = [store EXCEPT ![call.to] = call.ver] /\ DOMAIN store = Node
          /\ calls' = Advance(call, call.ver, "applied")
      BY <1>9 DEF DbPut, TypeInv, TypeOK, CallsOK, IsCall, ReplicasOK
    <2>2. \A d \in calls' :
             d \in calls \/ (d.ver = call.ver /\ d.to = call.to /\ d.stage = "applied")
      BY <2>1, AdvanceType DEF TypeInv, TypeOK
    <2>3. ASSUME Kept  PROVE CallsKeep' /\ LogKeeps' /\ AckedKeep'
      <3>1. /\ call.ver # NoVersion /\ wal[call.to] # NoVersion
            /\ \A n \in Node : store[n] # NoVersion => wal[n] # NoVersion
        BY <2>1, <2>3 DEF Kept, CallsKeep, LogKeeps
      <3>2. store'[call.to] = call.ver /\ \A n \in Node \ {call.to} : store'[n] = store[n]
        BY <2>1
      <3>3. \A n \in Node : /\ store[n] # NoVersion => store'[n] # NoVersion
                            /\ wal[n] # NoVersion => wal'[n] # NoVersion
                            /\ store'[n] # NoVersion => wal'[n] # NoVersion
        BY <2>1, <3>1, <3>2
      <3> QED  BY <2>1, <2>2, <2>3, <3>1, <3>2, <3>3, StoresKeep
    <2> QED  BY <2>1, <2>3, AllStay
  <1>10. ASSUME UNCHANGED <<store, wal, phase, job, got, acked, unread>>,
                \A d \in calls' : d \in calls \/ (d.ver # NoVersion /\ d.stage = "sent")
         PROVE  KeptInv'
    <2>1. Kept => CallsKeep' /\ LogKeeps' /\ AckedKeep'
      BY <1>10 DEF Kept, CallsKeep, LogKeeps, AckedKeep, OkWrite
    <2> QED  BY <1>10, <2>1, AllStay
  <1>11. ASSUME NEW call \in calls, CallFails(call)  PROVE KeptInv'
    BY <1>10, <1>11 DEF CallFails
  <1>12. ASSUME NEW n \in Node, AntiEntropy(n) \/ \E m \in Node : RingChange(n, m)
         PROVE  KeptInv'
    BY <1>10, <1>12 DEF AntiEntropy, RingChange
  <1>13. ASSUME NEW n \in Node, Crash(n)  PROVE KeptInv'
    <2>1. /\ UNCHANGED <<job, got, acked, wal, unread>> /\ calls' \subseteq calls
          /\ store' = [store EXCEPT ![n] = wal[n]] /\ DOMAIN store = Node
          /\ \A r \in Request : \/ phase'[r] = phase[r]
                                \/ phase[r] \in {"clock", "waiting"} /\ phase'[r] = "failed"
      BY <1>13 DEF Crash, TypeInv, TypeOK, ReplicasOK
    <2>2. Finished \subseteq Finished' /\ \A w \in Request : OkWrite(w)' <=> OkWrite(w)
      BY <2>1 DEF Finished, OkWrite
    <2>3. RequestsKeep' /\ (NoDeletes' <=> NoDeletes)
      BY <1>a, <2>1, <2>2 DEF RequestsKeep, NoDeletes
    <2>4. ASSUME Kept  PROVE Kept'
      <3>1. store'[n] = wal[n] /\ \A m \in Node \ {n} : store'[m] = store[m]
        BY <2>1
      <3>2. LogKeeps' /\ \A m \in Node : store[m] # NoVersion => store'[m] # NoVersion
        BY <2>1, <2>4, <3>1 DEF Kept, LogKeeps
      <3>3. CallsKeep'
        <4>1. \A call \in calls : call.to \in Node
          BY DEF TypeInv, TypeOK, CallsOK, IsCall
        <4> QED  BY <2>1, <2>4, <3>2, <4>1 DEF Kept, CallsKeep
      <3>4. AckedKeep'
        <4>1. \A w \in Request : acked[w] \subseteq Node
          BY DEF TypeInv, TypeOK, AnswersOK
        <4> QED  BY <2>1, <2>2, <2>4, <3>2, <4>1 DEF Kept, AckedKeep
      <3>5. AnswersKeep'
        <4> SUFFICES ASSUME NEW q \in Request, phase'[q] # "free", NEW w \in job'[q].after,
                            OkWrite(w)', NEW m \in acked'[w] \intersect DOMAIN got'[q],
                            ~(q \in unread' /\ m = job'[q].coord)
                     PROVE  got'[q][m] # NoVersion
          BY DEF AnswersKeep
        <4>1. phase[q] # "free" /\ w \in job[q].after
          BY <2>1
        <4>2. w \in Request
          BY <1>a, <4>1 DEF RequestsKeep, Finished
        <4> QED  BY <2>1, <2>2, <2>4, <4>1, <4>2 DEF Kept, AnswersKeep
      <3> QED  BY <3>2, <3>3, <3>4, <3>5 DEF Kept
    <2> QED  BY <1>a, <2>3, <2>4 DEF KeptInv
  <1>14. CASE UNCHANGED vars
    BY <1>10, <1>14 DEF vars
  <1>15. ASSUME NEW r \in Request, LocalReadFails(r) \/ \E n \in Node : ReadReplica(r, n)
         PROVE  KeptInv'
    <2>1. CASE LocalReadFails(r)
      BY <1>5, <2>1 DEF LocalReadFails
    <2>2. CASE \E n \in Node : ReadReplica(r, n)
      BY <1>5, <2>2 DEF ReadReplica
    <2> QED  BY <1>15, <2>1, <2>2
  <1> QED
    BY <1>1, <1>2, <1>3, <1>4, <1>6, <1>7, <1>8, <1>9, <1>11, <1>12, <1>13, <1>14, <1>15
    DEF Next, RequestStart, RequestStep, ReplicaStep, ClusterStep

(* Where a read and an earlier write overlap, the read was told of a       *)
(* version, and so returns one.                                            *)
LEMMA KeptIsFound ==
    QuorumOverlap /\ BestIsMaximal /\ KeptInv => AckedKeyFound
  <1> SUFFICES ASSUME QuorumOverlap, BestIsMaximal, KeptInv, NoDeletes,
                      NEW w \in Request, NEW q \in Request,
                      Succeeds(w), job[w].kind = "write",
                      Succeeds(q), job[q].kind = "read",
                      w \in job[q].after, Replicas(w) = Replicas(q),
                      q \in unread => acked[w] \intersect acked[q] # {job[q].coord}
               PROVE  result[q] # NoVersion
    BY DEF AckedKeyFound, NoDeletes
  <1>1. acked[w] \intersect acked[q] # {}
    BY DEF QuorumOverlap
  <1>2. PICK n \in acked[w] \intersect acked[q] : q \in unread => n # job[q].coord
    BY <1>1
  <1>3. acked[q] = DOMAIN got[q]
    BY DEF KeptInv, RequestsKeep, Succeeds
  <1>4. got[q][n] # NoVersion
    BY <1>2, <1>3 DEF KeptInv, Kept, AnswersKeep, OkWrite, Succeeds
  <1> QED  BY <1>2, <1>3, <1>4 DEF BestIsMaximal, Succeeds

(* As long as nobody deletes the key: whatever calls are lost or late,     *)
(* whichever processes crash, whatever the rings do, and whichever engines *)
(* cannot read what they store, a quorum read finds a key that the same    *)
(* replicas acknowledged before it started; except where the only replica  *)
(* that counted for both is the read's coordinator and its engine failed.  *)
THEOREM AckedKeyCorrect == Spec => []AckedKeyFound
  <1>1. TypeInv /\ KeptInv /\ [Next]_vars => KeptInv'
    BY KeptStep
  <1> QED
    BY <1>1, KeptInit, KeptIsFound, TypeInvariant, QuorumOverlapCorrect, BestCorrect, PTL DEF Spec
=============================================================================
