------------------------- MODULE CoordinatorProofs --------------------------
(***************************************************************************)
(* Proofs about module Coordinator, for any number of nodes and requests,  *)
(* any replication factor, any faults.                                     *)
(***************************************************************************)
EXTENDS Coordinator, VClockTheorems, FiniteSetTheorems

(* What a started request knows of its replicas, and what it has been told *)
(* by whom: the shape that the types of the other variables rest on.       *)
WellFormed ==
    \A r \in Request :
      /\ phase[r] = "free" => DOMAIN got[r] = {}
      /\ phase[r] # "free" =>
           IsInjective(job[r].nodes) /\ DOMAIN got[r] \subseteq Replicas(r)
      /\ phase[r] \in {"free", "clock"} => clock[r] = EmptyClock

TypeInv == TypeOK /\ WellFormed

-----------------------------------------------------------------------------
(* Lemmas on the operators.                                                *)

(* The replicas of a request are distinct nodes, as many as GetNodes lists.*)
LEMMA GetNodesType ==
    ASSUME NEW c \in Node, NEW count \in Nat, view \in [Node -> SUBSET Node]
    PROVE  GetNodes(c, count) \in Seq(Node) /\ IsInjective(GetNodes(c, count))
  <1> DEFINE members == Walk[view[c]]
  <1>1. members \in Seq(Node) /\ IsInjective(members)
    BY WalkAssumption
  <1>2. CASE Len(members) <= count
    BY <1>1, <1>2 DEF GetNodes
  <1>3. CASE ~(Len(members) <= count)
    <2>1. GetNodes(c, count) = SubSeq(members, 1, count)
      BY <1>3 DEF GetNodes
    <2>2. /\ SubSeq(members, 1, count) \in Seq(Node)
          /\ DOMAIN SubSeq(members, 1, count) = 1 .. count
          /\ \A i \in 1 .. count : SubSeq(members, 1, count)[i] = members[i]
      BY <1>1, <1>3
    <2>3. 1 .. count \subseteq DOMAIN members
      BY <1>1, <1>3
    <2> QED  BY <1>1, <2>1, <2>2, <2>3 DEF IsInjective
  <1> QED  BY <1>2, <1>3

(* Distinct elements: a sequence has as many as its length.                *)
LEMMA InjectiveSeqCardinality ==
    ASSUME NEW s \in Seq(Node), IsInjective(s)
    PROVE  /\ Range(s) \subseteq Node
           /\ IsFiniteSet(Range(s))
           /\ Cardinality(Range(s)) = Len(s)
  <1>1. Range(s) \subseteq Node
    BY DEF Range
  <1>2. s \in Bijection(1 .. Len(s), Range(s))
    BY DEF Range, IsInjective, Bijection, Injection, Surjection
  <1>3. ExistsBijection(1 .. Len(s), Range(s))
    BY <1>2 DEF ExistsBijection
  <1>4. IsFiniteSet(1 .. Len(s)) /\ Cardinality(1 .. Len(s)) = Len(s)
    <2>1. Len(s) \in Nat
      OBVIOUS
    <2> HIDE <1>2
    <2> QED  BY <2>1, FS_Interval
  <1> QED  BY <1>1, <1>3, <1>4, FS_Bijection

(* The answers a read was given, and so the repairs it sends, are no more  *)
(* than its replicas: nodes[i] in the repair loop is within bounds.        *)
LEMMA AnswersFitReplicas ==
    ASSUME NEW r \in Request, TypeInv, phase[r] # "free",
           NEW S \in SUBSET DOMAIN got[r]
    PROVE  /\ IsFiniteSet(S)
           /\ Cardinality(S) \in 0 .. Len(job[r].nodes)
  <1>1. job[r].nodes \in Seq(Node) /\ IsInjective(job[r].nodes)
    BY DEF TypeInv, TypeOK, JobsOK, Job, WellFormed
  <1>2. S \in SUBSET Replicas(r)
    BY DEF TypeInv, WellFormed
  <1>3. /\ IsFiniteSet(Replicas(r))
        /\ Cardinality(Replicas(r)) = Len(job[r].nodes)
    BY <1>1, InjectiveSeqCardinality DEF Replicas
  <1> QED  BY <1>2, <1>3, FS_Subset, FS_CardinalityType

(* A stored version is a record with a request and a clock.                *)
LEMMA VersionType ==
    ASSUME NEW r \in Request, NEW vc, IsClock(vc, Node)
    PROVE  /\ IsStored([by |-> r, clock |-> vc])
           /\ [by |-> r, clock |-> vc] # NoVersion
  <1>1. [by |-> r, clock |-> vc] \in Version
    BY ClockIsMember DEF Version
  <1> QED  BY <1>1, VersionAssumption DEF IsStored

LEMMA StoredClock ==
    ASSUME NEW v, IsStored(v), v # NoVersion
    PROVE  /\ v.by \in Request /\ IsClock(v.clock, Node)
           /\ v = [by |-> v.by, clock |-> v.clock]
  BY DEF IsStored

(* The clock a write can see at its first replica is a clock.              *)
LEMMA ClockSeenType ==
    ASSUME NEW r \in Request, TypeInv, phase[r] # "free", NEW seen \in ClockSeen(r)
    PROVE  IsClock(seen, Node)
  <1>1. job[r].nodes[1] \in Node
    BY DEF TypeInv, TypeOK, JobsOK, Job
  <1> QED  BY <1>1, EmptyClockType
           DEF ClockSeen, TypeInv, TypeOK, ReplicasOK, IsStored

(* A merge yields a version again.                                         *)
LEMMA AbsorbType ==
    ASSUME NEW v, NEW held, IsStored(v), v # NoVersion, IsStored(held)
    PROVE  IsStored(Absorb(v, held)) /\ Absorb(v, held) # NoVersion
  <1>1. CASE held = NoVersion
    BY <1>1 DEF Absorb
  <1>2. CASE held # NoVersion
    <2>1. IsClock(Merge(v.clock, held.clock), Node)
      BY <1>2, StoredClock, MergeIsLub
    <2>2. Absorb(v, held) = [by |-> v.by, clock |-> Merge(v.clock, held.clock)]
      BY <1>2, StoredClock DEF Absorb
    <2> QED  BY <2>1, <2>2, StoredClock, VersionType
  <1> QED  BY <1>1, <1>2

LEMMA CallType ==
    ASSUME NEW f \in Request \union {NoRequest}, NEW n \in Node, NEW v, IsStored(v)
    PROVE  IsCall([from |-> f, to |-> n, ver |-> v, stage |-> "sent"])
  BY DEF IsCall

(* Advancing a call keeps the others, and keeps its ends.                  *)
LEMMA AdvanceType ==
    ASSUME NEW call \in calls, CallsOK, NEW v, IsStored(v),
           NEW stage \in {"checked", "logged", "applied", "skipped"}
    PROVE  \A c \in Advance(call, v, stage) :
             \/ c \in calls
             \/ /\ IsCall(c) /\ c.from = call.from /\ c.to = call.to
                /\ c.ver = v /\ c.stage = stage
  BY DEF Advance, IsCall, CallsOK

-----------------------------------------------------------------------------
(* Types.                                                                  *)

(* A request that starts has distinct replicas and no answers yet.         *)
LEMMA StartTypes ==
    ASSUME TypeInv, NEW r \in Request, NEW c \in Entry, NEW mode \in Modes,
           NEW kind \in {"read", "write", "delete"},
           NEW next \in {"clock", "waiting"},
           Start(r, c, kind, mode, next), UNCHANGED <<got, clock>>
    PROVE  JobsOK' /\ WellFormed'
  <1> DEFINE nodes == GetNodes(c, RF)
             new == [kind |-> kind, mode |-> mode, coord |-> c,
                     nodes |-> nodes, after |-> Finished]
  <1>1. nodes \in Seq(Node) /\ IsInjective(nodes) /\ nodes # <<>>
    BY RFAssumption, RequestAssumption, GetNodesType
       DEF TypeInv, TypeOK, RingsOK, Start
  <1>2. new \in Job
    BY <1>1, RequestAssumption DEF Job, Finished
  <1>3. job' = [job EXCEPT ![r] = new] /\ phase' = [phase EXCEPT ![r] = next]
        /\ phase[r] = "free"
    BY DEF Start
  <1> HIDE DEF nodes
  <1>4. new.nodes = nodes
    OBVIOUS
  <1> HIDE DEF new
  <1>5. JobsOK'
    BY <1>2, <1>3 DEF TypeInv, TypeOK, JobsOK
  <1>6. WellFormed'
    BY <1>1, <1>3, <1>4 DEF TypeInv, TypeOK, JobsOK, WellFormed, Replicas
  <1> QED  BY <1>5, <1>6

(* The calls of a fan-out are well-formed.                                 *)
LEMMA FanOutType ==
    ASSUME NEW r \in Request, NEW nodes \in Seq(Node), NEW v, IsStored(v)
    PROVE  \A call \in FanOut(r, nodes, v) : IsCall(call)
  BY CallType DEF FanOut, Range

(* TypeInv holds initially.                                                *)
LEMMA TypeInit == Init => TypeInv
  <1> SUFFICES ASSUME Init PROVE TypeInv
    OBVIOUS
  <1>1. ReplicasOK /\ RingsOK /\ CallsOK /\ JobsOK /\ WellFormed
    BY DEF Init, ReplicasOK, RingsOK, CallsOK, JobsOK, WellFormed, IsStored, NoAnswers
  <1>2. AnswersOK
    BY EmptyClockType DEF Init, AnswersOK, NoAnswers, IsStored
  <1> QED  BY <1>1, <1>2 DEF TypeInv, TypeOK

(* The version at the best index is one of the answers, and the repairs    *)
(* are well-formed calls to replicas of the read.                          *)
LEMMA ReadFinishType ==
    ASSUME TypeInv, NEW r \in Request, phase[r] = "waiting",
           NEW arrival \in SetToSeqs({n \in DOMAIN got[r] : got[r][n] # NoVersion}),
           {n \in DOMAIN got[r] : got[r][n] # NoVersion} # {},
           NEW versions, versions = [i \in DOMAIN arrival |-> got[r][arrival[i]]],
           NEW best \in Pass(versions),
           NEW b, b = best[Len(versions)]
    PROVE  /\ b \in DOMAIN arrival
           /\ \A i \in DOMAIN arrival : arrival[i] \in DOMAIN got[r] /\ versions[i] # NoVersion
           /\ IsStored(versions[b])
           /\ \A call \in Repairs(r, versions, b) :
                IsCall(call) /\ call.from = r /\ call.to \in Replicas(r)
                /\ call.ver = versions[b] /\ call.stage = "sent"
  <1> DEFINE found == {n \in DOMAIN got[r] : got[r][n] # NoVersion}
             k == Cardinality(found)
  <1>1. IsFiniteSet(found) /\ k \in 0 .. Len(job[r].nodes)
    BY AnswersFitReplicas
  <1>2. k # 0
    BY <1>1, FS_EmptySet
  <1>3. arrival \in [1 .. k -> found]
    BY DEF SetToSeqs
  <1>4. job[r].nodes \in Seq(Node)
    BY DEF TypeInv, TypeOK, JobsOK, Job
  <1>5. k \in Nat /\ k > 0 /\ k <= Len(job[r].nodes)
    BY <1>1, <1>2, <1>4
  <1> HIDE DEF k
  <1>6. DOMAIN versions = 1 .. k /\ Len(versions) = k
    BY <1>3, <1>5
  <1>7. b \in 1 .. k
    BY <1>5, <1>6 DEF Pass
  <1>8. \A i \in 1 .. k : arrival[i] \in DOMAIN got[r] /\ versions[i] # NoVersion
    BY <1>3
  <1>9. IsStored(versions[b])
    BY <1>3, <1>7 DEF TypeInv, TypeOK, AnswersOK
  <1>10. ASSUME NEW call \in Repairs(r, versions, b)
         PROVE  /\ IsCall(call) /\ call.from = r /\ call.to \in Replicas(r)
                /\ call.ver = versions[b] /\ call.stage = "sent"
    <2>1. PICK i \in 1 .. k :
            call = [from |-> r, to |-> job[r].nodes[i], ver |-> versions[b], stage |-> "sent"]
      BY <1>6 DEF Repairs
    <2>2. job[r].nodes[i] \in Node /\ job[r].nodes[i] \in Replicas(r)
      BY <1>4, <1>5 DEF Replicas, Range
    <2> QED  BY <2>1, <2>2, <1>9, CallType
  <1> QED  BY <1>3, <1>7, <1>8, <1>9, <1>10

(* Every step preserves TypeInv.                                           *)
LEMMA TypeStep == TypeInv /\ [Next]_vars => TypeInv'
  <1> SUFFICES ASSUME TypeInv, [Next]_vars  PROVE TypeInv'
    OBVIOUS
  <1> USE DEF TypeInv, TypeOK
  <1>1. ASSUME NEW r \in Request, NEW c \in Entry, NEW mode \in Modes, WriteStart(r, c, mode)
        PROVE  TypeInv'
    <2>1. JobsOK' /\ WellFormed'
      BY <1>1, StartTypes DEF WriteStart
    <2> QED  BY <1>1, <2>1 DEF WriteStart, ReplicasOK, RingsOK, CallsOK, AnswersOK
  <1>2. ASSUME NEW r \in Request, NEW c \in Entry, NEW mode \in Modes, DeleteStart(r, c, mode)
        PROVE  TypeInv'
    <2>1. JobsOK' /\ WellFormed'
      BY <1>2, StartTypes DEF DeleteStart
    <2>2. GetNodes(c, RF) \in Seq(Node)
      BY RFAssumption, RequestAssumption, GetNodesType DEF RingsOK
    <2>3. CallsOK'
      BY <1>2, <2>2, FanOutType DEF DeleteStart, CallsOK, IsStored
    <2> QED  BY <1>2, <2>1, <2>3 DEF DeleteStart, ReplicasOK, RingsOK, AnswersOK
  <1>3. ASSUME NEW r \in Request, NEW c \in Entry, NEW mode \in Modes, ReadStart(r, c, mode)
        PROVE  TypeInv'
    <2>1. JobsOK' /\ WellFormed'
      BY <1>3, StartTypes DEF ReadStart
    <2> QED  BY <1>3, <2>1 DEF ReadStart, ReplicasOK, RingsOK, CallsOK, AnswersOK
  <1>4. ASSUME NEW r \in Request, WriteClock(r)  PROVE TypeInv'
    <2>1. phase[r] = "clock" /\ job[r] \in Job
      BY <1>4 DEF WriteClock, JobsOK
    <2>2. PICK seen \in ClockSeen(r) :
            /\ clock' = [clock EXCEPT ![r] = NextClock(r, seen)]
            /\ calls' = calls \union
                 FanOut(r, job[r].nodes, [by |-> r, clock |-> NextClock(r, seen)])
      BY <1>4 DEF WriteClock
    <2>3. IsClock(NextClock(r, seen), Node)
      BY <2>1, ClockSeenType, IncrementType DEF NextClock, Job
    <2>4. CallsOK'
      BY <2>1, <2>2, <2>3, VersionType, FanOutType DEF CallsOK, Job
    <2>5. AnswersOK'
      BY <1>4, <2>2, <2>3 DEF WriteClock, AnswersOK
    <2>6. JobsOK' /\ WellFormed'
      BY <1>4, <2>1, <2>2 DEF WriteClock, JobsOK, AnswersOK, WellFormed, Replicas
    <2> QED  BY <1>4, <2>4, <2>5, <2>6 DEF WriteClock, ReplicasOK, RingsOK
  <1>5. ASSUME NEW r \in Request, MutationFinish(r)  PROVE TypeInv'
    <2>1. PICK counted \in SUBSET {call.to : call \in Succeeded(r)} :
            acked' = [acked EXCEPT ![r] = counted]
      BY <1>5 DEF MutationFinish
    <2>2. counted \subseteq Node
      BY DEF Succeeded, CallsOf, CallsOK, IsCall
    <2>3. AnswersOK'
      BY <1>5, <2>1, <2>2 DEF MutationFinish, AnswersOK
    <2>4. JobsOK' /\ WellFormed'
      BY <1>5 DEF MutationFinish, JobsOK, WellFormed, Replicas
    <2> QED  BY <1>5, <2>3, <2>4 DEF MutationFinish, CallsOK, ReplicasOK, RingsOK
  <1>6. ASSUME NEW r \in Request, NEW n \in Node, ReadReplica(r, n)  PROVE TypeInv'
    <2>1. AnswersOK'
      BY <1>6 DEF ReadReplica, Answer, AnswersOK, ReplicasOK
    <2>2. WellFormed'
      BY <1>6 DEF ReadReplica, Answer, WellFormed, Replicas, AnswersOK
    <2> QED  BY <1>6, <2>1, <2>2 DEF ReadReplica, Answer, ReplicasOK, RingsOK, CallsOK, JobsOK
  <1>7. ASSUME NEW r \in Request, ReadFinish(r)  PROVE TypeInv'
    <2> DEFINE found == {n \in DOMAIN got[r] : got[r][n] # NoVersion}
    <2>1. phase[r] = "waiting" /\ acked' = [acked EXCEPT ![r] = DOMAIN got[r]]
          /\ UNCHANGED <<store, wal, view, job, clock, got, unread>>
      BY <1>7 DEF ReadFinish
    <2>2. JobsOK' /\ WellFormed'
      BY <1>7, <2>1 DEF ReadFinish, JobsOK, WellFormed, Replicas
    <2>3. CASE UNCHANGED <<calls, result>>
      BY <2>1, <2>2, <2>3 DEF ReplicasOK, RingsOK, CallsOK, AnswersOK
    <2>4. CASE ~UNCHANGED <<calls, result>>
      <3>1. found # {}
        BY <1>7, <2>4 DEF ReadFinish
      <3>2. PICK arrival \in SetToSeqs(found) :
              LET versions == [i \in DOMAIN arrival |-> got[r][arrival[i]]]
              IN  \E best \in Pass(versions) :
                    LET b == best[Len(versions)]
                    IN  /\ result' = [result EXCEPT ![r] = versions[b]]
                        /\ calls' = calls \union Repairs(r, versions, b)
        BY <1>7, <2>4 DEF ReadFinish
      <3> DEFINE versions == [i \in DOMAIN arrival |-> got[r][arrival[i]]]
      <3>3. PICK best \in Pass(versions) :
              /\ result' = [result EXCEPT ![r] = versions[best[Len(versions)]]]
              /\ calls' = calls \union Repairs(r, versions, best[Len(versions)])
        BY <3>2
      <3> DEFINE b == best[Len(versions)]
      <3>4. IsStored(versions[b]) /\ \A call \in Repairs(r, versions, b) : IsCall(call)
        BY <2>1, <3>1, ReadFinishType
      <3> HIDE DEF versions, b
      <3>5. AnswersOK' /\ CallsOK'
        BY <2>1, <3>3, <3>4 DEF versions, b, AnswersOK, CallsOK
      <3> QED  BY <2>1, <2>2, <3>5 DEF ReplicasOK, RingsOK
    <2> QED  BY <2>3, <2>4
  <1>8. ASSUME NEW call \in calls, SetCheck(call)  PROVE TypeInv'
    <2>1. IsCall(call) /\ IsStored(store[call.to])
      BY DEF CallsOK, IsCall, ReplicasOK
    <2>2. IsStored(call.ver) /\ IsStored(Absorb(call.ver, store[call.to]))
      BY <1>8, <2>1, AbsorbType DEF IsCall, SetCheck
    <2>3. CallsOK'
      BY <1>8, <2>2, AdvanceType DEF SetCheck, CallsOK
    <2> QED  BY <1>8, <2>3 DEF SetCheck, ReplicasOK, RingsOK, JobsOK, AnswersOK, WellFormed, Replicas
  <1>9. ASSUME NEW call \in calls, WalAppend(call)  PROVE TypeInv'
    <2>1. IsStored(call.ver) /\ call.to \in Node
      BY DEF CallsOK, IsCall
    <2>2. CallsOK'
      BY <1>9, <2>1, AdvanceType DEF WalAppend, CallsOK
    <2>3. ReplicasOK'
      BY <1>9, <2>1 DEF WalAppend, ReplicasOK
    <2> QED  BY <1>9, <2>2, <2>3 DEF WalAppend, RingsOK, JobsOK, AnswersOK, WellFormed, Replicas
  <1>10. ASSUME NEW call \in calls, DbPut(call)  PROVE TypeInv'
    <2>1. IsStored(call.ver) /\ call.to \in Node
      BY DEF CallsOK, IsCall
    <2>2. CallsOK'
      BY <1>10, <2>1, AdvanceType DEF DbPut, CallsOK
    <2>3. ReplicasOK'
      BY <1>10, <2>1 DEF DbPut, ReplicasOK
    <2> QED  BY <1>10, <2>2, <2>3 DEF DbPut, RingsOK, JobsOK, AnswersOK, WellFormed, Replicas
  <1>11. ASSUME NEW call \in calls, CallFails(call)  PROVE TypeInv'
    BY <1>11 DEF CallFails, CallsOK, ReplicasOK, RingsOK, JobsOK, AnswersOK, WellFormed, Replicas
  <1>12. ASSUME NEW n \in Node, AntiEntropy(n)  PROVE TypeInv'
    <2>1. GetNodes(n, 3) \in Seq(Node)
      BY GetNodesType DEF RingsOK
    <2>2. \A m \in Range(GetNodes(n, 3)) : m \in Node
      BY <2>1 DEF Range
    <2>3. CallsOK'
      BY <1>12, <2>2, CallType DEF AntiEntropy, CallsOK, ReplicasOK
    <2> QED  BY <1>12, <2>3 DEF AntiEntropy, ReplicasOK, RingsOK, JobsOK, AnswersOK, WellFormed, Replicas
  <1>13. ASSUME NEW n \in Node, NEW m \in Node, RingChange(n, m)  PROVE TypeInv'
    BY <1>13 DEF RingChange, CallsOK, ReplicasOK, RingsOK, JobsOK, AnswersOK, WellFormed, Replicas
  <1>14. ASSUME NEW n \in Node, Crash(n)  PROVE TypeInv'
    <2>1. ReplicasOK' /\ RingsOK' /\ CallsOK' /\ AnswersOK'
      BY <1>14 DEF Crash, ReplicasOK, RingsOK, CallsOK, AnswersOK
    <2>2. JobsOK' /\ WellFormed'
      BY <1>14 DEF Crash, JobsOK, WellFormed, Replicas
    <2> QED  BY <2>1, <2>2
  <1>15. ASSUME NEW r \in Request, LocalReadFails(r)  PROVE TypeInv'
    <2>1. job[r].coord \in Node
      BY <1>15, RequestAssumption DEF LocalReadFails
    <2>2. AnswersOK'
      BY <1>15, <2>1 DEF LocalReadFails, Answer, AnswersOK, IsStored
    <2>3. WellFormed'
      BY <1>15 DEF LocalReadFails, Answer, WellFormed, Replicas, AnswersOK
    <2> QED
      BY <1>15, <2>2, <2>3 DEF LocalReadFails, Answer, ReplicasOK, RingsOK, CallsOK, JobsOK
  <1>16. CASE UNCHANGED vars
    BY <1>16 DEF vars, CallsOK, ReplicasOK, RingsOK, JobsOK, AnswersOK, WellFormed, Replicas
  <1> QED
    BY <1>1, <1>2, <1>3, <1>4, <1>5, <1>6, <1>7, <1>8, <1>9, <1>10, <1>11, <1>12,
       <1>13, <1>14, <1>15, <1>16
    DEF Next, RequestStart, RequestStep, ReplicaStep, ClusterStep

(* TypeInv is an invariant.                                                *)
LEMMA TypeInvariant == Spec => []TypeInv
  BY TypeInit, TypeStep, PTL DEF Spec

(* Every reachable state is well-typed, every node keeps itself in its     *)
(* ring, and the repair loop of a read indexes its replicas within bounds. *)
THEOREM TypeCorrect == Spec => []TypeOK
  <1>1. TypeInv => TypeOK
    BY DEF TypeInv
  <1> QED  BY <1>1, TypeInvariant, PTL

-----------------------------------------------------------------------------
(* Versions keep their clocks.                                             *)

(* What VersionIntegrity says of one copy.                                 *)
Genuine(v) == v = NoVersion \/ (v.by \in Drawn /\ v.clock = clock[v.by])

LEMMA IntegrityParts ==
    VersionIntegrity <=>
      /\ \A n \in Node : Genuine(store[n]) /\ Genuine(wal[n])
      /\ \A call \in calls : Genuine(call.ver)
      /\ \A r \in Request : Genuine(result[r])
      /\ \A r \in Request : \A n \in DOMAIN got[r] : Genuine(got[r][n])
  BY DEF VersionIntegrity, Copies, Genuine

(* A version that passes the check of SetVersioned keeps its clock.        *)
LEMMA AbsorbKeeps ==
    ASSUME NEW v, NEW held, IsStored(v), v # NoVersion, IsStored(held),
           ~(held # NoVersion /\ Compare(held.clock, v.clock) > 0)
    PROVE  Absorb(v, held) = v
  <1>1. CASE held = NoVersion
    BY <1>1 DEF Absorb
  <1>2. CASE held # NoVersion
    <2>1. IsClock(v.clock, Node) /\ IsClock(held.clock, Node)
          /\ v = [by |-> v.by, clock |-> v.clock]
      BY <1>2, StoredClock
    <2>2. Leq(held.clock, v.clock)
      BY <1>2, <2>1, NotAboveIsLeq
    <2>3. Merge(v.clock, held.clock) = v.clock
      BY <2>1, <2>2, MergeNoOp
    <2> QED  BY <1>2, <2>1, <2>3 DEF Absorb
  <1> QED  BY <1>1, <1>2

(* Steps that draw no clock only move copies around.                       *)
LEMMA IntegrityMoves ==
    ASSUME UNCHANGED clock, VersionIntegrity,
           \A n \in Node : Genuine(store'[n]) /\ Genuine(wal'[n]),
           \A call \in calls' : Genuine(call.ver),
           \A r \in Request : Genuine(result'[r]),
           \A r \in Request : \A n \in DOMAIN got'[r] : Genuine(got'[r][n])
    PROVE  VersionIntegrity'
  BY DEF VersionIntegrity, Copies, Genuine, Drawn

LEMMA IntegrityInit == Init => VersionIntegrity
  BY DEF Init, VersionIntegrity, Copies, NoAnswers

LEMMA IntegrityStep == TypeInv /\ VersionIntegrity /\ [Next]_vars => VersionIntegrity'
  <1> SUFFICES ASSUME TypeInv, VersionIntegrity, [Next]_vars  PROVE VersionIntegrity'
    OBVIOUS
  <1> USE DEF TypeInv, TypeOK
  <1>a. /\ \A n \in Node : Genuine(store[n]) /\ Genuine(wal[n])
        /\ \A call \in calls : Genuine(call.ver)
        /\ \A r \in Request : Genuine(result[r])
        /\ \A r \in Request : \A n \in DOMAIN got[r] : Genuine(got[r][n])
    BY IntegrityParts
  <1>1. ASSUME NEW r \in Request, NEW c \in Entry, NEW mode \in Modes,
               WriteStart(r, c, mode) \/ ReadStart(r, c, mode)
        PROVE  VersionIntegrity'
    BY <1>1, <1>a, IntegrityMoves DEF WriteStart, ReadStart
  <1>2. ASSUME NEW r \in Request, NEW c \in Entry, NEW mode \in Modes, DeleteStart(r, c, mode)
        PROVE  VersionIntegrity'
    <2>1. \A call \in calls' : Genuine(call.ver)
      BY <1>2, <1>a DEF DeleteStart, FanOut, Genuine
    <2> QED  BY <1>2, <1>a, <2>1, IntegrityMoves DEF DeleteStart
  <1>3. ASSUME NEW r \in Request, WriteClock(r)  PROVE VersionIntegrity'
    <2>1. /\ phase[r] = "clock" /\ clock[r] = EmptyClock
          /\ UNCHANGED <<store, wal, got, result>>
      BY <1>3 DEF WriteClock, WellFormed
    <2>2. PICK seen \in ClockSeen(r) :
            /\ clock' = [clock EXCEPT ![r] = NextClock(r, seen)]
            /\ calls' = calls \union
                 FanOut(r, job[r].nodes, [by |-> r, clock |-> NextClock(r, seen)])
      BY <1>3 DEF WriteClock
    <2>3. job[r].coord \in DOMAIN NextClock(r, seen)
      BY DEF NextClock, Increment
    <2>4. NextClock(r, seen) # EmptyClock
      BY <2>3 DEF EmptyClock
    <2>5. Drawn' = Drawn \union {r} /\ clock'[r] = NextClock(r, seen) /\ r \notin Drawn
      BY <2>1, <2>2, <2>4 DEF Drawn, AnswersOK
    <2>6. ASSUME NEW v, Genuine(v)  PROVE v = NoVersion \/ (v.by \in Drawn' /\ v.clock = clock'[v.by])
      BY <2>2, <2>5, <2>6 DEF Genuine, Drawn, AnswersOK
    <2>7. ASSUME NEW call \in calls'
          PROVE  call.ver = NoVersion \/ (call.ver.by \in Drawn' /\ call.ver.clock = clock'[call.ver.by])
      BY <1>a, <2>2, <2>5, <2>6 DEF FanOut
    <2>8. \A v \in Copies' : v = NoVersion \/ (v.by \in Drawn' /\ v.clock = clock'[v.by])
      BY <1>a, <2>1, <2>6, <2>7 DEF Copies
    <2> QED  BY <2>8 DEF VersionIntegrity
  <1>4. ASSUME NEW r \in Request, MutationFinish(r)  PROVE VersionIntegrity'
    BY <1>4, <1>a, IntegrityMoves DEF MutationFinish
  <1>5. ASSUME NEW r \in Request, NEW n, NEW v, Answer(r, n, v), Genuine(v)
        PROVE  VersionIntegrity'
    <2>1. \A s \in Request : \A m \in DOMAIN got'[s] : Genuine(got'[s][m])
      BY <1>5, <1>a DEF Answer, AnswersOK
    <2> QED  BY <1>5, <1>a, <2>1, IntegrityMoves DEF Answer
  <1>6. ASSUME NEW r \in Request, ReadFinish(r)  PROVE VersionIntegrity'
    <2> DEFINE found == {n \in DOMAIN got[r] : got[r][n] # NoVersion}
    <2>1. phase[r] = "waiting" /\ UNCHANGED <<store, wal, clock, got>>
      BY <1>6 DEF ReadFinish
    <2>2. CASE UNCHANGED <<calls, result>>
      BY <1>a, <2>1, <2>2, IntegrityMoves
    <2>3. CASE ~UNCHANGED <<calls, result>>
      <3>1. found # {}
        BY <1>6, <2>3 DEF ReadFinish
      <3>2. PICK arrival \in SetToSeqs(found) :
              LET versions == [i \in DOMAIN arrival |-> got[r][arrival[i]]]
              IN  \E best \in Pass(versions) :
                    LET b == best[Len(versions)]
                    IN  /\ result' = [result EXCEPT ![r] = versions[b]]
                        /\ calls' = calls \union Repairs(r, versions, b)
        BY <1>6, <2>3 DEF ReadFinish
      <3> DEFINE versions == [i \in DOMAIN arrival |-> got[r][arrival[i]]]
      <3>3. PICK best \in Pass(versions) :
              /\ result' = [result EXCEPT ![r] = versions[best[Len(versions)]]]
              /\ calls' = calls \union Repairs(r, versions, best[Len(versions)])
        BY <3>2
      <3> DEFINE b == best[Len(versions)]
      <3>4. /\ b \in DOMAIN arrival
            /\ \A i \in DOMAIN arrival : arrival[i] \in DOMAIN got[r]
            /\ \A call \in Repairs(r, versions, b) : call.ver = versions[b]
        BY <2>1, <3>1, ReadFinishType
      <3>5. Genuine(versions[b])
        BY <1>a, <3>4
      <3> HIDE DEF versions, b
      <3>6. \A call \in calls' : Genuine(call.ver)
        BY <1>a, <3>3, <3>4, <3>5 DEF versions, b
      <3>7. \A q \in Request : Genuine(result'[q])
        BY <1>a, <3>3, <3>5 DEF b, AnswersOK
      <3> QED  BY <1>a, <2>1, <3>6, <3>7, IntegrityMoves
    <2> QED  BY <2>2, <2>3
  <1>7. ASSUME NEW call \in calls, SetCheck(call)  PROVE VersionIntegrity'
    <2>1. /\ IsStored(call.ver) /\ IsStored(store[call.to]) /\ call.ver # NoVersion
          /\ UNCHANGED <<store, wal, clock, got, result>>
      BY <1>7 DEF SetCheck, CallsOK, IsCall, ReplicasOK
    <2>2. calls' = Advance(call, call.ver, "skipped") \/ calls' = Advance(call, call.ver, "checked")
      BY <1>7, <2>1, AbsorbKeeps DEF SetCheck
    <2>3. \A c \in calls' : Genuine(c.ver)
      BY <1>a, <2>1, <2>2, AdvanceType
    <2> QED  BY <1>a, <2>1, <2>3, IntegrityMoves
  <1>8. ASSUME NEW call \in calls, WalAppend(call) \/ DbPut(call)  PROVE VersionIntegrity'
    <2>1. IsStored(call.ver) /\ call.to \in Node
      BY DEF CallsOK, IsCall
    <2>2. \A c \in calls' : Genuine(c.ver)
      BY <1>8, <1>a, <2>1, AdvanceType DEF WalAppend, DbPut
    <2>3. \A n \in Node : Genuine(store'[n]) /\ Genuine(wal'[n])
      BY <1>8, <1>a, <2>1 DEF WalAppend, DbPut, ReplicasOK
    <2> QED  BY <1>8, <1>a, <2>2, <2>3, IntegrityMoves DEF WalAppend, DbPut
  <1>9. ASSUME NEW call \in calls, CallFails(call)  PROVE VersionIntegrity'
    BY <1>9, <1>a, IntegrityMoves DEF CallFails
  <1>10. ASSUME NEW n \in Node, AntiEntropy(n)  PROVE VersionIntegrity'
    <2>1. \A c \in calls' : Genuine(c.ver)
      BY <1>10, <1>a DEF AntiEntropy
    <2> QED  BY <1>10, <1>a, <2>1, IntegrityMoves DEF AntiEntropy
  <1>11. ASSUME NEW n \in Node, NEW m \in Node, RingChange(n, m)  PROVE VersionIntegrity'
    BY <1>11, <1>a, IntegrityMoves DEF RingChange
  <1>12. ASSUME NEW n \in Node, Crash(n)  PROVE VersionIntegrity'
    <2>1. \A m \in Node : Genuine(store'[m]) /\ Genuine(wal'[m])
      BY <1>12, <1>a DEF Crash, ReplicasOK
    <2> QED  BY <1>12, <1>a, <2>1, IntegrityMoves DEF Crash
  <1>13. ASSUME NEW r \in Request, LocalReadFails(r) \/ \E n \in Node : ReadReplica(r, n)
         PROVE  VersionIntegrity'
    <2>1. CASE LocalReadFails(r)
      BY <1>5, <2>1 DEF LocalReadFails, Genuine
    <2>2. CASE \E n \in Node : ReadReplica(r, n)
      BY <1>5, <1>a, <2>2 DEF ReadReplica
    <2> QED  BY <1>13, <2>1, <2>2
  <1>14. CASE UNCHANGED vars
    BY <1>14, <1>a, IntegrityMoves DEF vars
  <1> QED
    BY <1>1, <1>2, <1>3, <1>4, <1>6, <1>7, <1>8, <1>9, <1>10, <1>11, <1>12, <1>13, <1>14
    DEF Next, RequestStart, RequestStep, ReplicaStep, ClusterStep

(* No merge, repair, anti-entropy round, crash or race ever changes the    *)
(* clock a write gave its version, and nothing is read or stored that no   *)
(* write wrote.                                                            *)
THEOREM IntegrityCorrect == Spec => []VersionIntegrity
  <1>1. TypeInv /\ VersionIntegrity /\ [Next]_vars => VersionIntegrity'
    BY IntegrityStep
  <1> QED  BY <1>1, IntegrityInit, TypeInvariant, PTL DEF Spec

-----------------------------------------------------------------------------
(* Quorums.                                                                *)

(* Calls go to the replicas of the request that sent them, so what a       *)
(* successful request counted is a quorum of them.                         *)
CallsToReplicas ==
    \A call \in calls :
      call.from # NoRequest => phase[call.from] # "free" /\ call.to \in Replicas(call.from)

CountedQuorum ==
    \A r \in Request :
      Succeeds(r) => acked[r] \subseteq Replicas(r) /\ Cardinality(acked[r]) >= Needed(r)

QuorumInv == CallsToReplicas /\ CountedQuorum

(* Both parts survive a step that leaves the requests alone and sends no   *)
(* call but anti-entropy's and successors of old ones.                     *)
LEMMA QuorumStutter ==
    ASSUME TypeInv, QuorumInv, UNCHANGED <<phase, job, acked>>,
           \A c \in calls' : \/ c.from = NoRequest
                            \/ \E d \in calls : c.from = d.from /\ c.to = d.to
    PROVE  QuorumInv'
  BY DEF QuorumInv, CallsToReplicas, CountedQuorum, Succeeds, Needed, Replicas

(* Both parts survive the start of a request, which sends to its replicas. *)
LEMMA QuorumStart ==
    ASSUME TypeInv, QuorumInv, NEW r \in Request, phase[r] = "free", UNCHANGED acked,
           phase' \in {[phase EXCEPT ![r] = "clock"], [phase EXCEPT ![r] = "waiting"]},
           \A s \in Request \ {r} : job'[s] = job[s],
           \A call \in calls' : call \in calls \/ (call.from = r /\ call.to \in Replicas(r)')
    PROVE  QuorumInv'
  <1>1. /\ \A s \in Request \ {r} : phase'[s] = phase[s]
        /\ phase'[r] \in {"clock", "waiting"}
    BY DEF TypeInv, TypeOK, JobsOK
  <1>2. CallsToReplicas'
    BY <1>1 DEF QuorumInv, CallsToReplicas, Replicas, TypeInv, TypeOK, JobsOK, CallsOK, IsCall
  <1>3. CountedQuorum'
    BY <1>1 DEF QuorumInv, CountedQuorum, Succeeds, Needed, Replicas, TypeInv, TypeOK, JobsOK
  <1> QED  BY <1>2, <1>3 DEF QuorumInv

LEMMA QuorumInit == Init => QuorumInv
  BY DEF Init, QuorumInv, CallsToReplicas, CountedQuorum, Succeeds

LEMMA QuorumStep == TypeInv /\ QuorumInv /\ [Next]_vars => QuorumInv'
  <1> SUFFICES ASSUME TypeInv, QuorumInv, [Next]_vars  PROVE QuorumInv'
    OBVIOUS
  <1>1. ASSUME NEW r \in Request, NEW c \in Entry, NEW mode \in Modes,
               WriteStart(r, c, mode) \/ DeleteStart(r, c, mode) \/ ReadStart(r, c, mode)
        PROVE  QuorumInv'
    <2>1. /\ phase[r] = "free" /\ UNCHANGED acked
          /\ phase' \in {[phase EXCEPT ![r] = "clock"], [phase EXCEPT ![r] = "waiting"]}
      BY <1>1 DEF WriteStart, DeleteStart, ReadStart, Start
    <2>2. /\ \A s \in Request \ {r} : job'[s] = job[s]
          /\ job'[r].nodes = GetNodes(c, RF)
      BY <1>1 DEF WriteStart, DeleteStart, ReadStart, Start, TypeInv, TypeOK, JobsOK
    <2>3. \A call \in calls' : call \in calls \/ (call.from = r /\ call.to \in Replicas(r)')
      BY <1>1, <2>2 DEF WriteStart, DeleteStart, ReadStart, FanOut, Replicas
    <2> QED  BY <2>1, <2>2, <2>3, QuorumStart
  <1> USE DEF TypeInv, TypeOK
  <1>2. ASSUME NEW r \in Request, WriteClock(r)  PROVE QuorumInv'
    <2>1. /\ phase[r] = "clock" /\ phase' = [phase EXCEPT ![r] = "waiting"]
          /\ UNCHANGED <<job, acked>>
      BY <1>2 DEF WriteClock
    <2>2. \A call \in calls' : call \in calls \/ (call.from = r /\ call.to \in Replicas(r))
      BY <1>2 DEF WriteClock, FanOut, Replicas
    <2>3. CallsToReplicas'
      BY <2>1, <2>2 DEF QuorumInv, CallsToReplicas, Replicas, JobsOK, CallsOK, IsCall
    <2>4. CountedQuorum'
      BY <2>1 DEF QuorumInv, CountedQuorum, Succeeds, Needed, Replicas, JobsOK
    <2> QED  BY <2>3, <2>4 DEF QuorumInv
  <1>3. ASSUME NEW r \in Request, MutationFinish(r)  PROVE QuorumInv'
    <2>1. phase[r] = "waiting" /\ UNCHANGED job /\ calls' \subseteq calls
      BY <1>3 DEF MutationFinish
    <2>2. PICK counted \in SUBSET {call.to : call \in Succeeded(r)} :
            /\ acked' = [acked EXCEPT ![r] = counted]
            /\ phase' = [phase EXCEPT ![r] =
                 IF Cardinality(counted) < Needed(r) /\ job[r].mode # "async"
                 THEN "failed" ELSE "ok"]
      BY <1>3 DEF MutationFinish
    <2>3. counted \subseteq Replicas(r)
      BY RequestAssumption DEF Succeeded, CallsOf, QuorumInv, CallsToReplicas
    <2>4. CallsToReplicas'
      BY <2>1, <2>2 DEF QuorumInv, CallsToReplicas, Replicas, JobsOK, CallsOK, IsCall
    <2>5. Succeeds(r)' => Cardinality(acked'[r]) >= Needed(r)'
      <3>1. IsFiniteSet(Replicas(r)) /\ Needed(r) \in Int
        <4>1. job[r].nodes \in Seq(Node) /\ IsInjective(job[r].nodes)
          BY <2>1 DEF JobsOK, WellFormed, Job
        <4>2. Len(job[r].nodes) \in Nat
          BY <4>1
        <4> QED  BY <4>1, <4>2, InjectiveSeqCardinality DEF Replicas, Needed, quorumSize
      <3>2. Cardinality(counted) \in Nat
        BY <2>3, <3>1, FS_Subset, FS_CardinalityType
      <3> QED  BY <2>1, <2>2, <3>1, <3>2 DEF Succeeds, Needed, JobsOK, AnswersOK
    <2>6. CountedQuorum'
      BY <2>1, <2>2, <2>3, <2>5 DEF QuorumInv, CountedQuorum, Succeeds, Needed, Replicas, JobsOK, AnswersOK
    <2> QED  BY <2>4, <2>6 DEF QuorumInv
  <1>4. ASSUME NEW r \in Request, LocalReadFails(r) \/ \E n \in Node : ReadReplica(r, n)
        PROVE  QuorumInv'
    BY <1>4, QuorumStutter DEF LocalReadFails, ReadReplica, Answer
  <1>5. ASSUME NEW r \in Request, ReadFinish(r)  PROVE QuorumInv'
    <2> DEFINE found == {n \in DOMAIN got[r] : got[r][n] # NoVersion}
    <2>1. /\ phase[r] = "waiting" /\ UNCHANGED job
          /\ acked' = [acked EXCEPT ![r] = DOMAIN got[r]]
          /\ phase' = [phase EXCEPT ![r] =
               IF Cardinality(DOMAIN got[r]) < Needed(r) THEN "failed" ELSE "ok"]
      BY <1>5 DEF ReadFinish
    <2>2. \A call \in calls' : call \in calls \/ (call.from = r /\ call.to \in Replicas(r))
      <3>1. CASE UNCHANGED <<calls, result>>
        BY <3>1
      <3>2. CASE ~UNCHANGED <<calls, result>>
        <4>1. found # {}
          BY <1>5, <3>2 DEF ReadFinish
        <4>2. PICK arrival \in SetToSeqs(found) :
                LET versions == [i \in DOMAIN arrival |-> got[r][arrival[i]]]
                IN  \E best \in Pass(versions) :
                      LET b == best[Len(versions)]
                      IN  calls' = calls \union Repairs(r, versions, b)
          BY <1>5, <3>2 DEF ReadFinish
        <4> DEFINE versions == [i \in DOMAIN arrival |-> got[r][arrival[i]]]
        <4>3. PICK best \in Pass(versions) :
                calls' = calls \union Repairs(r, versions, best[Len(versions)])
          BY <4>2
        <4> DEFINE b == best[Len(versions)]
        <4>4. \A call \in Repairs(r, versions, b) : call.from = r /\ call.to \in Replicas(r)
          BY <2>1, <4>1, ReadFinishType
        <4> QED  BY <4>3, <4>4
      <3> QED  BY <3>1, <3>2
    <2>3. CallsToReplicas'
      BY <2>1, <2>2 DEF QuorumInv, CallsToReplicas, Replicas, JobsOK, CallsOK, IsCall
    <2>4. DOMAIN got[r] \subseteq Replicas(r) /\ Cardinality(DOMAIN got[r]) \in Nat
      BY <2>1, AnswersFitReplicas DEF WellFormed
    <2>5. Needed(r) \in Int
      BY <2>1 DEF Needed, quorumSize, JobsOK, Job
    <2>6. CountedQuorum'
      BY <2>1, <2>4, <2>5 DEF QuorumInv, CountedQuorum, Succeeds, Needed, Replicas, JobsOK, AnswersOK
    <2> QED  BY <2>3, <2>6 DEF QuorumInv
  <1>6. ASSUME NEW call \in calls, SetCheck(call)  PROVE QuorumInv'
    BY <1>6, QuorumStutter DEF SetCheck, Advance
  <1>7. ASSUME NEW call \in calls, WalAppend(call) \/ DbPut(call) \/ CallFails(call)
        PROVE  QuorumInv'
    BY <1>7, QuorumStutter DEF WalAppend, DbPut, CallFails, Advance
  <1>8. ASSUME NEW n \in Node, AntiEntropy(n)  PROVE QuorumInv'
    BY <1>8, QuorumStutter DEF AntiEntropy
  <1>9. ASSUME NEW n \in Node, NEW m \in Node, RingChange(n, m)  PROVE QuorumInv'
    BY <1>9, QuorumStutter DEF RingChange
  <1>10. ASSUME NEW n \in Node, Crash(n)  PROVE QuorumInv'
    <2>1. /\ UNCHANGED <<job, acked>> /\ calls' \subseteq calls
          /\ \A r \in Request : phase'[r] = phase[r] \/ (phase[r] # "free" /\ phase'[r] = "failed")
      BY <1>10 DEF Crash
    <2>2. CallsToReplicas'
      BY <2>1 DEF QuorumInv, CallsToReplicas, Replicas, CallsOK, IsCall
    <2>3. CountedQuorum'
      BY <2>1 DEF QuorumInv, CountedQuorum, Succeeds, Needed, Replicas
    <2> QED  BY <2>2, <2>3 DEF QuorumInv
  <1>11. CASE UNCHANGED vars
    BY <1>11, QuorumStutter DEF vars
  <1> QED
    BY <1>1, <1>2, <1>3, <1>4, <1>5, <1>6, <1>7, <1>8, <1>9, <1>10, <1>11
    DEF Next, RequestStart, RequestStep, ReplicaStep, ClusterStep

(* Two quorums over one set of replicas share one of them.                 *)
LEMMA QuorumsMeet ==
    TypeInv /\ QuorumInv => QuorumOverlap
  <1> SUFFICES ASSUME TypeInv, QuorumInv, NEW r \in Request, NEW s \in Request,
                      Succeeds(r), Succeeds(s), Replicas(r) = Replicas(s)
               PROVE  acked[r] \intersect acked[s] # {}
    BY DEF QuorumOverlap
  <1> DEFINE N == Cardinality(Replicas(r))
  <1>1. /\ job[r].nodes \in Seq(Node) /\ IsInjective(job[r].nodes)
        /\ job[s].nodes \in Seq(Node) /\ IsInjective(job[s].nodes)
    BY DEF TypeInv, TypeOK, JobsOK, WellFormed, Job, Succeeds
  <1>2. /\ IsFiniteSet(Replicas(r)) /\ N \in Nat
        /\ Len(job[r].nodes) = N /\ Len(job[s].nodes) = N
    BY <1>1, InjectiveSeqCardinality, FS_CardinalityType DEF Replicas
  <1>3. /\ acked[r] \subseteq Replicas(r) /\ Cardinality(acked[r]) >= Needed(r)
        /\ acked[s] \subseteq Replicas(r) /\ Cardinality(acked[s]) >= Needed(s)
    BY DEF QuorumInv, CountedQuorum
  <1>4. Cardinality(acked[r]) \in Nat /\ Cardinality(acked[s]) \in Nat
    BY <1>2, <1>3, FS_Subset, FS_CardinalityType
  <1>5. N > 0
    BY <1>1, <1>2 DEF TypeInv, TypeOK, JobsOK, Job, Succeeds
  <1>6. Needed(r) = (N \div 2) + 1 \/ Needed(r) = N
    BY <1>2 DEF Needed, quorumSize, Succeeds
  <1>7. Needed(s) = Needed(r)
    BY <1>2 DEF Needed, Succeeds
  <1> HIDE DEF N
  <1>8. (N \div 2) + 1 \in Nat /\ 2 * ((N \div 2) + 1) > N
    BY <1>2
  <1>9. Cardinality(acked[r]) + Cardinality(acked[s]) > N
    BY <1>2, <1>3, <1>4, <1>5, <1>6, <1>7, <1>8
  <1> QED  BY <1>2, <1>3, <1>9, FS_MajoritiesIntersect DEF N

(* Whatever the number of replicas: a successful quorum read and a         *)
(* successful quorum write over the same replicas share one (W + R > N).   *)
THEOREM QuorumOverlapCorrect == Spec => []QuorumOverlap
  <1>1. TypeInv /\ QuorumInv /\ [Next]_vars => QuorumInv'
    BY QuorumStep
  <1> QED  BY <1>1, QuorumInit, QuorumsMeet, TypeInvariant, PTL DEF Spec
=============================================================================
