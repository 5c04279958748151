---------------------------- MODULE EngineProofs -----------------------------
(***************************************************************************)
(* Proofs about module Engine, for any calls, clocks and restarts.         *)
(***************************************************************************)
EXTENDS Engine, WellFoundedInduction, TLAPS

(* The replay never passes the durable part of the log, and a process that *)
(* is not up has nothing else in its log.                                  *)
ReplayInv ==
    /\ pos <= durable + 1
    /\ mode = "closing" => restarts < MaxRestarts
    /\ mode \in {"down", "replaying", "broken"} => durable = Len(log)

(* WriteAhead, already for the calls that are only logged.                 *)
LoggedInv ==
    /\ \A o \in Op : stage[o] \in {"logged", "done"} => o \in Records
    /\ kv # None => kv \in Records

EngineInv == TypeOK /\ DeadlineOfValue /\ ReplayInv /\ LoggedInv

-----------------------------------------------------------------------------
(* The names are distinct.                                                 *)
LEMMA Names ==
    /\ None \notin Op /\ Torn \notin Op /\ Torn # None
    /\ Put \subseteq Op /\ Timed \subseteq Put
  BY EngineAssumption

LEMMA InitEngine == Init => EngineInv
  <1> SUFFICES ASSUME Init PROVE EngineInv
    OBVIOUS
  <1>1. log = <<>> /\ Len(log) = 0
    BY DEF Init
  <1>2. TypeOK
    BY <1>1, Names, EngineAssumption DEF Init, TypeOK, Modes
  <1>3. DeadlineOfValue
    BY Names DEF Init, DeadlineOfValue
  <1>4. ReplayInv /\ LoggedInv
    BY <1>1, Names DEF Init, ReplayInv, LoggedInv
  <1> QED  BY <1>2, <1>3, <1>4 DEF EngineInv

(* A step that leaves the log's file alone and makes no call logged.       *)
LEMMA LoggedSame ==
    ASSUME LoggedInv, UNCHANGED <<log, durable>>, kv' = kv \/ kv' = None,
           \A o \in Op : stage'[o] \in {"logged", "done"} => stage[o] \in {"logged", "done"}
    PROVE  LoggedInv'
  BY DEF LoggedInv, Records

-----------------------------------------------------------------------------
LEMMA CallKeeps ==
    ASSUME EngineInv, NEW o \in Op,
           \/ Check(o) \/ GetFails(o) \/ AppendFails(o)
           \/ DbUpdate(o) \/ DbFails(o) \/ TimeOver(o)
    PROVE  EngineInv'
  <1> USE Names DEF EngineInv, store
  <1>1. CASE Check(o) \/ GetFails(o)
    <2>1. Starts(o) /\ stage[o] = "new"
      BY <1>1 DEF Check, GetFails, Starts
    <2>2. \E s \in {"dropped", "checked"} : stage' = [stage EXCEPT ![o] = s]
      BY <1>1 DEF Check, GetFails, Reach
    <2>3. before' \in [Op -> SUBSET Op] /\ unread' \subseteq Put
      BY <1>1, <2>1 DEF Check, GetFails, Starts, TypeOK
    <2>4. TypeOK'
      BY <2>1, <2>2, <2>3 DEF Starts, TypeOK
    <2>5. LoggedInv'
      BY <2>1, <2>2, LoggedSame DEF Starts, TypeOK
    <2> QED  BY <2>1, <2>4, <2>5 DEF Starts, DeadlineOfValue, ReplayInv
  <1>2. CASE AppendFails(o)
    <2>1. stage' = [stage EXCEPT ![o] = "failed"]
      BY <1>2 DEF AppendFails, Reach
    <2>2. TypeOK'
      BY <1>2, <2>1 DEF AppendFails, Unlocked, TypeOK
    <2>3. LoggedInv'
      BY <1>2, <2>1, LoggedSame DEF AppendFails, TypeOK
    <2> QED  BY <1>2, <2>2, <2>3 DEF AppendFails, DeadlineOfValue, ReplayInv
  <1>3. CASE DbUpdate(o)
    <2>1. stage' = [stage EXCEPT ![o] = "done"]
      BY <1>3 DEF DbUpdate, Reach
    <2>2. TypeOK'
      BY <1>3, <2>1 DEF DbUpdate, Store, TypeOK
    <2>3. LoggedInv'
      BY <1>3, <2>1 DEF DbUpdate, Store, LoggedInv, Records, TypeOK
    <2>4. DeadlineOfValue'
      BY <1>3 DEF DbUpdate, Store, DeadlineOfValue
    <2> QED  BY <1>3, <2>2, <2>3, <2>4 DEF DbUpdate, ReplayInv
  <1>4. CASE DbFails(o)
    <2>1. stage' = [stage EXCEPT ![o] = "failed"]
      BY <1>4 DEF DbFails, Reach
    <2>2. TypeOK'
      BY <1>4, <2>1 DEF DbFails, TypeOK
    <2>3. LoggedInv'
      BY <1>4, <2>1, LoggedSame DEF DbFails, TypeOK
    <2> QED  BY <1>4, <2>2, <2>3 DEF DbFails, DeadlineOfValue, ReplayInv
  <1>5. CASE TimeOver(o)
    <2>1. TypeOK'
      BY <1>5 DEF TimeOver, TypeOK
    <2>2. LoggedInv'
      BY <1>5, LoggedSame DEF TimeOver
    <2> QED  BY <1>5, <2>1, <2>2 DEF TimeOver, DeadlineOfValue, ReplayInv
  <1> QED  BY <1>1, <1>2, <1>3, <1>4, <1>5

(* The append of one call, step by step.                                   *)
LEMMA AppendKeeps ==
    ASSUME EngineInv, NEW o \in Op, WritePrefix(o) \/ WriteData(o) \/ Sync(o)
    PROVE  EngineInv'
  <1> USE Names DEF EngineInv, store
  <1>0. Len(log) \in Nat /\ durable \in Nat /\ durable <= Len(log)
    BY DEF TypeOK
  <1>1. CASE WritePrefix(o)
    <2>1. stage' = [stage EXCEPT ![o] = "prefix"] /\ mode = "up"
      BY <1>1 DEF WritePrefix, Reach
    <2>2. /\ log' = Append(log, Torn) /\ log' \in Seq(Op \union {Torn})
          /\ Len(log') = Len(log) + 1 /\ Last(log') = Torn
          /\ \A i \in 1 .. durable : log'[i] = log[i]
      BY <1>0, <1>1 DEF WritePrefix, TypeOK, Last
    <2>3. TypeOK'
      BY <1>0, <1>1, <2>1, <2>2 DEF WritePrefix, TypeOK
    <2>4. Records' = Records
      BY <1>1, <2>2 DEF WritePrefix, Records
    <2>5. LoggedInv'
      BY <1>1, <2>1, <2>4 DEF WritePrefix, LoggedInv, TypeOK
    <2> QED  BY <1>1, <2>1, <2>3, <2>5 DEF WritePrefix, DeadlineOfValue, ReplayInv
  <1>2. CASE WriteData(o)
    <2>1. stage' = [stage EXCEPT ![o] = "data"] /\ mode = "up" /\ writer = o
      BY <1>2 DEF WriteData, Reach, TypeOK
    <2>2. durable < Len(log)
      BY <2>1 DEF TypeOK
    <2>3. /\ log' \in Seq(Op \union {Torn})
          /\ Len(log') = Len(log) /\ Last(log') = o
          /\ \A i \in 1 .. durable : log'[i] = log[i]
      BY <1>0, <1>2, <2>2 DEF WriteData, TypeOK, Last
    <2>4. TypeOK'
      BY <1>0, <1>2, <2>1, <2>2, <2>3 DEF WriteData, TypeOK
    <2>5. Records' = Records
      BY <1>2, <2>3 DEF WriteData, Records
    <2>6. LoggedInv'
      BY <1>2, <2>1, <2>5 DEF WriteData, LoggedInv, TypeOK
    <2> QED  BY <1>2, <2>1, <2>4, <2>6 DEF WriteData, DeadlineOfValue, ReplayInv
  <1>3. CASE Sync(o)
    <2>1. /\ stage' = [stage EXCEPT ![o] = "logged"] /\ mode = "up" /\ writer = o
          /\ durable' = Len(log) /\ stage[o] = "data"
      BY <1>3 DEF Sync, Synced, Reach, TypeOK
    <2>2. Len(log) > 0 /\ log[Len(log)] = o
      BY <1>0, <2>1 DEF TypeOK, Last
    <2>3. TypeOK'
      BY <1>0, <1>3, <2>1 DEF Sync, TypeOK
    <2>4. Records \subseteq Records' /\ o \in Records'
      BY <1>0, <1>3, <2>1, <2>2 DEF Sync, Records
    <2>5. LoggedInv'
      BY <1>3, <2>1, <2>4 DEF Sync, LoggedInv, TypeOK
    <2> QED  BY <1>0, <1>3, <2>1, <2>3, <2>5 DEF Sync, DeadlineOfValue, ReplayInv, TypeOK
  <1> QED  BY <1>1, <1>2, <1>3

-----------------------------------------------------------------------------
(* The process stops with a log that kept its durable part.                *)
LEMMA StopKeeps ==
    ASSUME EngineInv, Stopped, restarts < MaxRestarts,
           log' \in Seq(Op \union {Torn}), Len(log') >= durable,
           \A i \in 1 .. durable : log'[i] = log[i]
    PROVE  EngineInv'
  <1> USE Names DEF EngineInv, store
  <1>0. Len(log') \in Nat /\ durable \in Nat /\ durable' = Len(log')
    BY DEF Stopped, TypeOK
  <1>1. /\ stage' \in [Op -> {"new", "done", "dropped", "failed"}]
        /\ \A o \in Op : stage'[o] = "done" => stage[o] = "done"
    BY DEF Stopped, TypeOK
  <1>2. TypeOK'
    BY <1>0, <1>1, EngineAssumption DEF Stopped, TypeOK, Modes, ReplayInv
  <1>3. Records \subseteq Records'
    BY <1>0 DEF Records
  <1>4. LoggedInv'
    BY <1>1, <1>3 DEF Stopped, LoggedInv
  <1>5. ReplayInv'
    BY <1>0 DEF Stopped, ReplayInv, TypeOK
  <1> QED  BY <1>2, <1>4, <1>5 DEF Stopped, DeadlineOfValue

LEMMA ProcessKeeps ==
    ASSUME EngineInv, ProcessStep
    PROVE  EngineInv'
  <1> USE Names DEF EngineInv, store
  <1>0. /\ log \in Seq(Op \union {Torn}) /\ Len(log) \in Nat
        /\ durable \in 0 .. Len(log) /\ restarts \in 0 .. MaxRestarts /\ MaxRestarts \in Nat
    BY EngineAssumption DEF TypeOK
  <1>1. CASE Sweep
    <2>1. TypeOK' /\ LoggedInv'
      BY <1>1, LoggedSame DEF Sweep, TypeOK
    <2> QED  BY <1>1, <2>1 DEF Sweep, DeadlineOfValue, ReplayInv
  <1>2. CASE CloseLog
    <2>1. TypeOK' /\ LoggedInv'
      BY <1>2, LoggedSame DEF CloseLog, TypeOK, Modes
    <2> QED  BY <1>2, <2>1 DEF CloseLog, DeadlineOfValue, ReplayInv
  <1>3. CASE CloseDb
    <2>1. Stopped /\ log' = log /\ restarts < MaxRestarts
      BY <1>3 DEF CloseDb, ReplayInv
    <2>2. log' \in Seq(Op \union {Torn}) /\ Len(log') >= durable
      BY <1>0, <2>1
    <2> HIDE DEF EngineInv
    <2> QED  BY <2>1, <2>2, StopKeeps
  <1>4. CASE Crash
    <2>1. PICK kept \in durable .. Len(log) :
            \/ log' = SubSeq(log, 1, kept)
            \/ kept < Len(log) /\ log' = Append(SubSeq(log, 1, kept), Torn)
      BY <1>4 DEF Crash
    <2> DEFINE short == SubSeq(log, 1, kept)
    <2>2. /\ short \in Seq(Op \union {Torn}) /\ Len(short) = kept /\ kept \in Nat
          /\ \A i \in 1 .. kept : short[i] = log[i]
      BY <1>0, <2>1
    <2>3. /\ Append(short, Torn) \in Seq(Op \union {Torn})
          /\ Len(Append(short, Torn)) = kept + 1
          /\ \A i \in 1 .. kept : Append(short, Torn)[i] = log[i]
      BY <2>2
    <2>4. \A i \in 1 .. durable : i \in 1 .. kept
      BY <1>0, <2>1
    <2>5. log' = short \/ log' = Append(short, Torn)
      BY <2>1
    <2> HIDE DEF short
    <2>6. log' \in Seq(Op \union {Torn}) /\ Len(log') >= durable
      BY <1>0, <2>1, <2>2, <2>3, <2>5
    <2>7. \A i \in 1 .. durable : log'[i] = log[i]
      BY <2>2, <2>3, <2>4, <2>5
    <2>8. Stopped /\ restarts < MaxRestarts
      BY <1>4 DEF Crash, ReplayInv
    <2> HIDE DEF EngineInv
    <2> QED  BY <2>6, <2>7, <2>8, StopKeeps
  <1>5. CASE DbDeleted
    <2>1. TypeOK' /\ LoggedInv'
      BY <1>5, LoggedSame DEF DbDeleted, TypeOK
    <2> QED  BY <1>5, <2>1 DEF DbDeleted, DeadlineOfValue, ReplayInv
  <1>6. CASE Open
    <2>1. TypeOK' /\ LoggedInv'
      BY <1>0, <1>6, LoggedSame DEF Open, TypeOK, Modes
    <2> QED  BY <1>0, <1>6, <2>1 DEF Open, DeadlineOfValue, ReplayInv
  <1>7. CASE Replay
    <2> DEFINE e == log[pos]
    <2>1. e \in Op /\ pos \in 1 .. Len(log) /\ durable = Len(log) /\ mode = "replaying"
      BY <1>7 DEF Replay, TypeOK, ReplayInv
    <2>2. /\ kv' = (IF e \in Put THEN e ELSE None)
          /\ ttl' = (IF e \in Timed THEN e ELSE None)
          /\ pos' = pos + 1
          /\ UNCHANGED <<mode, log, durable, writer, stage, over, restarts, before, unread>>
      BY <1>7 DEF Replay, Recover, Store
    <2>3. e \in Records
      BY <2>1 DEF Records
    <2> HIDE DEF e
    <2>4. TypeOK'
      BY <2>1, <2>2 DEF TypeOK
    <2>5. LoggedInv'
      BY <2>2, <2>3 DEF LoggedInv, Records
    <2>6. DeadlineOfValue'
      BY <2>2 DEF DeadlineOfValue
    <2>7. ReplayInv'
      BY <1>0, <2>1, <2>2 DEF ReplayInv
    <2> QED  BY <2>4, <2>5, <2>6, <2>7
  <1>8. CASE ReplayFails \/ ReplayEnds
    <2>1. TypeOK' /\ LoggedInv'
      BY <1>8, LoggedSame DEF ReplayFails, ReplayEnds, TypeOK, Modes
    <2> QED  BY <1>8, <2>1 DEF ReplayFails, ReplayEnds, DeadlineOfValue, ReplayInv
  <1> QED
    BY <1>1, <1>2, <1>3, <1>4, <1>5, <1>6, <1>7, <1>8 DEF ProcessStep

LEMMA EngineStep == EngineInv /\ [Next]_vars => EngineInv'
  <1> SUFFICES ASSUME EngineInv, [Next]_vars PROVE EngineInv'
    OBVIOUS
  <1>1. CASE CallStep
    BY <1>1, CallKeeps, AppendKeeps DEF CallStep
  <1>2. CASE ProcessStep
    BY <1>2, ProcessKeeps
  <1>3. CASE UNCHANGED vars
    BY <1>3 DEF vars, store, EngineInv, TypeOK, DeadlineOfValue, ReplayInv, LoggedInv, Records
  <1> QED  BY <1>1, <1>2, <1>3 DEF Next

-----------------------------------------------------------------------------
(* Types, the mutex of the log included: it is released on every path, and *)
(* whoever holds it is writing the last record of the file.                *)
THEOREM EngineTypes == Spec => []TypeOK
  <1>1. EngineInv => TypeOK
    BY DEF EngineInv
  <1> QED  BY <1>1, InitEngine, EngineStep, PTL DEF Spec

(* No value is hidden or swept on the deadline of another one, whatever    *)
(* calls overlap and whatever is replayed over the database.               *)
THEOREM DeadlineCorrect == Spec => []DeadlineOfValue
  <1>1. EngineInv => DeadlineOfValue
    BY DEF EngineInv
  <1> QED  BY <1>1, InitEngine, EngineStep, PTL DEF Spec

(* What was acknowledged, and what a reader can have seen, no crash takes  *)
(* out of the log.                                                         *)
THEOREM WriteAheadCorrect == Spec => []WriteAhead
  <1>1. EngineInv => WriteAhead
    BY DEF EngineInv, LoggedInv, WriteAhead
  <1> QED  BY <1>1, InitEngine, EngineStep, PTL DEF Spec

-----------------------------------------------------------------------------
(* The order of the log.  Whose records it holds, those that are not       *)
(* durable yet; a call that was done when another began has its record     *)
(* before the other's.                                                     *)
Written == {"data", "logged", "done", "failed"}

RecordsOfCalls ==
    \A i \in 1 .. Len(log) : log[i] # Torn =>
        /\ stage[log[i]] \in Written
        /\ i > durable => stage[log[i]] \in {"data", "failed"}

BeforeIsDone == \A o \in Op : \A p \in before[o] : stage[p] = "done"

RecordsInOrder ==
    \A i, j \in 1 .. Len(log) :
        log[i] # Torn /\ log[j] # Torn /\ log[i] \in before[log[j]] => i < j

(* What the replay has stored so far.                                      *)
Replayed ==
    mode = "replaying" /\ pos > 1 =>
        /\ log[pos - 1] # Torn
        /\ kv = IF log[pos - 1] \in Put THEN log[pos - 1] ELSE None

StoredIsCurrent ==
    mode \in {"up", "closing"} => \A o \in Op : stage[o] = "done" => kv \notin before[o]

OrderInv == RecordsOfCalls /\ BeforeIsDone /\ RecordsInOrder /\ Replayed /\ StoredIsCurrent

LEMMA InitOrder == Init => OrderInv
  <1> SUFFICES ASSUME Init PROVE OrderInv
    OBVIOUS
  <1>1. Len(log) = 0
    BY DEF Init
  <1> QED  BY <1>1 DEF Init, OrderInv, RecordsOfCalls, BeforeIsDone, RecordsInOrder, Replayed, StoredIsCurrent

(* The types that the steps below need.                                    *)
LEMMA LogTypes ==
    ASSUME EngineInv
    PROVE  /\ Len(log) \in Nat /\ durable \in Nat /\ durable <= Len(log) /\ pos \in Nat
           /\ log \in Seq(Op \union {Torn})
           /\ \A i \in 1 .. Len(log) : log[i] # Torn => log[i] \in Op
           /\ DOMAIN stage = Op /\ DOMAIN before = Op
           /\ \A o \in Op : before[o] \subseteq Op
  BY DEF EngineInv, TypeOK

(* Calls that only move on.                                                *)
LEMMA LogOrderSame ==
    ASSUME EngineInv, OrderInv, UNCHANGED <<log, durable, before>>,
           \A o \in Op : /\ stage[o] \in Written => stage'[o] \in Written
                         /\ stage[o] \in {"data", "failed"} => stage'[o] \in {"data", "failed"}
                         /\ stage[o] = "done" => stage'[o] = "done"
    PROVE  RecordsOfCalls' /\ BeforeIsDone' /\ RecordsInOrder'
  <1>1. RecordsOfCalls'
    BY LogTypes DEF OrderInv, RecordsOfCalls
  <1>2. BeforeIsDone'
    BY LogTypes DEF OrderInv, BeforeIsDone
  <1>3. RecordsInOrder'
    BY DEF OrderInv, RecordsInOrder
  <1> QED  BY <1>1, <1>2, <1>3

(* Who is not done was not done when another call began.                   *)
LEMMA NotDoneIsNotBefore ==
    ASSUME EngineInv, BeforeIsDone, NEW x \in Op, stage[x] # "done"
    PROVE  \A y \in Op : x \notin before[y]
  BY DEF BeforeIsDone

(* A call's steps that leave the log's file alone.                         *)
LEMMA CallOrder ==
    ASSUME EngineInv, OrderInv, NEW o \in Op,
           \/ Check(o) \/ GetFails(o) \/ AppendFails(o)
           \/ DbUpdate(o) \/ DbFails(o) \/ TimeOver(o)
    PROVE  OrderInv'
  <1>0. /\ DOMAIN stage = Op /\ DOMAIN before = Op
        /\ \A i \in 1 .. Len(log) : log[i] # Torn => log[i] \in Op
        /\ \A x \in Op : stage[x] # "done" => \A y \in Op : x \notin before[y]
        /\ \A y \in Op : before[y] \subseteq Op
    BY LogTypes, NotDoneIsNotBefore DEF OrderInv
  <1>1. CASE Check(o) \/ GetFails(o)
    <2>1. /\ stage[o] = "new" /\ stage'[o] \in {"dropped", "checked"}
          /\ \A x \in Op \ {o} : stage'[x] = stage[x]
          /\ before'[o] = {p \in Op : stage[p] = "done"}
          /\ \A x \in Op \ {o} : before'[x] = before[x]
          /\ UNCHANGED <<mode, kv, log, durable, pos>>
      BY <1>0, <1>1 DEF Check, GetFails, Starts, Reach, store
    <2>2. \A i \in 1 .. Len(log) : log[i] # Torn => log[i] \in Op \ {o}
      BY <1>0, <2>1 DEF OrderInv, RecordsOfCalls, Written
    <2>3. RecordsOfCalls'
      BY <2>1, <2>2 DEF OrderInv, RecordsOfCalls
    <2>4. BeforeIsDone'
      BY <1>0, <2>1 DEF OrderInv, BeforeIsDone
    <2>5. RecordsInOrder'
      BY <2>1, <2>2 DEF OrderInv, RecordsInOrder
    <2>6. Replayed' /\ StoredIsCurrent'
      BY <2>1 DEF OrderInv, Replayed, StoredIsCurrent
    <2> QED  BY <2>3, <2>4, <2>5, <2>6 DEF OrderInv
  <1>2. CASE AppendFails(o) \/ DbFails(o)
    <2>1. /\ stage[o] \in {"checked", "prefix", "data", "logged"} /\ stage'[o] = "failed"
          /\ \A x \in Op \ {o} : stage'[x] = stage[x]
          /\ UNCHANGED <<mode, kv, log, durable, before, pos>>
      BY <1>0, <1>2 DEF AppendFails, DbFails, Reach, store
    <2>2. RecordsOfCalls' /\ BeforeIsDone' /\ RecordsInOrder'
      BY <2>1, LogOrderSame DEF Written
    <2>3. Replayed' /\ StoredIsCurrent'
      BY <2>1 DEF OrderInv, Replayed, StoredIsCurrent
    <2> QED  BY <2>2, <2>3 DEF OrderInv
  <1>3. CASE DbUpdate(o)
    <2>1. /\ stage[o] = "logged" /\ stage'[o] = "done"
          /\ \A x \in Op \ {o} : stage'[x] = stage[x]
          /\ kv' = (IF o \in Put THEN o ELSE None)
          /\ UNCHANGED <<mode, log, durable, before, pos>> /\ mode \in {"up", "closing"}
      BY <1>0, <1>3 DEF DbUpdate, Store, Reach
    <2>2. RecordsOfCalls' /\ BeforeIsDone' /\ RecordsInOrder'
      BY <2>1, LogOrderSame DEF Written
    <2>3. Replayed'
      BY <2>1 DEF Replayed
    <2>4. \A y \in Op : kv' \notin before[y]
      BY <1>0, <2>1, Names
    <2>5. StoredIsCurrent'
      BY <2>1, <2>4 DEF StoredIsCurrent
    <2> QED  BY <2>2, <2>3, <2>5 DEF OrderInv
  <1>4. CASE TimeOver(o)
    <2>1. UNCHANGED <<mode, kv, log, durable, before, pos, stage>>
      BY <1>4 DEF TimeOver, store
    <2>2. RecordsOfCalls' /\ BeforeIsDone' /\ RecordsInOrder'
      BY <2>1, LogOrderSame
    <2>3. Replayed' /\ StoredIsCurrent'
      BY <2>1 DEF OrderInv, Replayed, StoredIsCurrent
    <2> QED  BY <2>2, <2>3 DEF OrderInv
  <1> QED  BY <1>1, <1>2, <1>3, <1>4

(* The append of one call.                                                 *)
LEMMA AppendOrder ==
    ASSUME EngineInv, OrderInv, NEW o \in Op, WritePrefix(o) \/ WriteData(o) \/ Sync(o)
    PROVE  OrderInv'
  <1>0. /\ Len(log) \in Nat /\ durable \in Nat /\ durable <= Len(log)
        /\ log \in Seq(Op \union {Torn})
        /\ DOMAIN stage = Op /\ DOMAIN before = Op
        /\ \A i \in 1 .. Len(log) : log[i] # Torn => log[i] \in Op
        /\ \A x \in Op : stage[x] # "done" => \A y \in Op : x \notin before[y]
        /\ \A y \in Op : before[y] \subseteq Op
    BY LogTypes, NotDoneIsNotBefore DEF OrderInv
  <1>1. CASE WritePrefix(o)
    <2>1. /\ stage[o] = "checked" /\ stage'[o] = "prefix" /\ mode = "up"
          /\ \A x \in Op \ {o} : stage'[x] = stage[x]
          /\ UNCHANGED <<mode, kv, durable, before, pos>>
      BY <1>0, <1>1 DEF WritePrefix, Reach, store
    <2>2. /\ Len(log') = Len(log) + 1
          /\ \A i \in 1 .. Len(log) : log'[i] = log[i]
          /\ log'[Len(log) + 1] = Torn
      BY <1>0, <1>1 DEF WritePrefix
    <2>3. \A i \in 1 .. Len(log') : log'[i] # Torn => i \in 1 .. Len(log) /\ log'[i] = log[i]
      BY <1>0, <2>2
    <2>4. RecordsOfCalls'
      BY <1>0, <2>1, <2>3 DEF OrderInv, RecordsOfCalls, Written
    <2>5. BeforeIsDone'
      BY <1>0, <2>1 DEF OrderInv, BeforeIsDone
    <2>6. RecordsInOrder'
      BY <2>1, <2>3 DEF OrderInv, RecordsInOrder
    <2>7. Replayed' /\ StoredIsCurrent'
      BY <2>1 DEF OrderInv, Replayed, StoredIsCurrent
    <2> QED  BY <2>4, <2>5, <2>6, <2>7 DEF OrderInv
  <1>2. CASE WriteData(o)
    <2>1. /\ stage[o] = "prefix" /\ stage'[o] = "data" /\ mode = "up"
          /\ \A x \in Op \ {o} : stage'[x] = stage[x]
          /\ UNCHANGED <<mode, kv, durable, before, pos>>
      BY <1>0, <1>2 DEF WriteData, Reach, store
    <2>2. writer = o /\ durable < Len(log)
      BY <2>1 DEF EngineInv, TypeOK
    <2>3. /\ Len(log') = Len(log) /\ Len(log) > 0
          /\ \A i \in 1 .. Len(log) : log'[i] = IF i = Len(log) THEN o ELSE log[i]
      BY <1>0, <1>2, <2>2 DEF WriteData
    <2>4. o # Torn /\ \A i \in 1 .. Len(log) : log[i] # Torn => log[i] \in Op \ {o}
      BY <1>0, <2>1, Names DEF OrderInv, RecordsOfCalls, Written
    <2>5. RecordsOfCalls'
      BY <1>0, <2>1, <2>3, <2>4 DEF OrderInv, RecordsOfCalls, Written
    <2>6. BeforeIsDone'
      BY <1>0, <2>1 DEF OrderInv, BeforeIsDone
    <2>7. RecordsInOrder'
      <3> SUFFICES ASSUME NEW i \in 1 .. Len(log), NEW j \in 1 .. Len(log),
                          log'[i] # Torn, log'[j] # Torn, log'[i] \in before[log'[j]]
                   PROVE  i < j
        BY <2>1, <2>3 DEF RecordsInOrder
      <3>1. log'[j] \in Op
        BY <1>0, <2>3
      <3>2. log'[i] # o
        BY <1>0, <2>1, <3>1
      <3>3. i # Len(log)
        BY <2>3, <3>2
      <3>4. log'[i] = log[i]
        BY <2>3, <3>3
      <3>5. CASE j = Len(log)
        BY <1>0, <3>3, <3>5
      <3>6. CASE j # Len(log)
        <4>1. log'[j] = log[j]
          BY <2>3, <3>6
        <4> QED  BY <3>4, <4>1 DEF OrderInv, RecordsInOrder
      <3> QED  BY <3>5, <3>6
    <2>8. Replayed' /\ StoredIsCurrent'
      BY <2>1 DEF OrderInv, Replayed, StoredIsCurrent
    <2> QED  BY <2>5, <2>6, <2>7, <2>8 DEF OrderInv
  <1>3. CASE Sync(o)
    <2>1. /\ stage[o] = "data" /\ stage'[o] = "logged" /\ mode = "up"
          /\ \A x \in Op \ {o} : stage'[x] = stage[x]
          /\ durable' = Len(log)
          /\ UNCHANGED <<mode, kv, log, before, pos>>
      BY <1>0, <1>3 DEF Sync, Synced, Reach, store
    <2>2. RecordsOfCalls'
      BY <1>0, <2>1 DEF OrderInv, RecordsOfCalls, Written
    <2>3. BeforeIsDone' /\ RecordsInOrder'
      BY <1>0, <2>1 DEF OrderInv, BeforeIsDone, RecordsInOrder
    <2>4. Replayed' /\ StoredIsCurrent'
      BY <2>1 DEF OrderInv, Replayed, StoredIsCurrent
    <2> QED  BY <2>2, <2>3, <2>4 DEF OrderInv
  <1> QED  BY <1>1, <1>2, <1>3

(* The process stops with a part of its log, and perhaps a torn record.    *)
LEMMA StopOrder ==
    ASSUME EngineInv, OrderInv, Stopped, Len(log') \in Nat,
           \A i \in 1 .. Len(log') : log'[i] # Torn => i \in 1 .. Len(log) /\ log'[i] = log[i]
    PROVE  OrderInv'
  <1>0. /\ Len(log) \in Nat /\ durable \in Nat
        /\ DOMAIN stage = Op /\ DOMAIN before = Op
        /\ \A i \in 1 .. Len(log) : log[i] # Torn => log[i] \in Op
        /\ \A y \in Op : before[y] \subseteq Op
    BY LogTypes
  <1>1. /\ mode' = "down" /\ durable' = Len(log') /\ before' = before
        /\ \A x \in Op : /\ stage[x] \in Written => stage'[x] \in Written
                         /\ stage[x] = "done" => stage'[x] = "done"
    BY DEF Stopped, Written
  <1>2. RecordsOfCalls'
    BY <1>0, <1>1 DEF OrderInv, RecordsOfCalls
  <1>3. BeforeIsDone'
    BY <1>0, <1>1 DEF OrderInv, BeforeIsDone
  <1>4. RecordsInOrder'
    BY <1>1 DEF OrderInv, RecordsInOrder
  <1>5. Replayed' /\ StoredIsCurrent'
    BY <1>1 DEF Replayed, StoredIsCurrent
  <1> QED  BY <1>2, <1>3, <1>4, <1>5 DEF OrderInv

(* What a crash leaves of the log.                                         *)
LEMMA CrashedLog ==
    ASSUME EngineInv, Crash
    PROVE  \E kept \in durable .. Len(log) :
              /\ Len(log') \in Nat /\ kept <= Len(log') /\ Len(log') <= kept + 1
              /\ \A i \in 1 .. kept : log'[i] = log[i]
              /\ Len(log') = kept + 1 => log'[kept + 1] = Torn
  <1>0. /\ log \in Seq(Op \union {Torn}) /\ Len(log) \in Nat
        /\ durable \in Nat /\ durable <= Len(log)
    BY LogTypes
  <1>1. PICK kept \in durable .. Len(log) :
          \/ log' = SubSeq(log, 1, kept)
          \/ kept < Len(log) /\ log' = Append(SubSeq(log, 1, kept), Torn)
    BY DEF Crash
  <1> DEFINE short == SubSeq(log, 1, kept)
  <1>2. /\ short \in Seq(Op \union {Torn}) /\ Len(short) = kept /\ kept \in Nat
        /\ \A i \in 1 .. kept : short[i] = log[i]
    BY <1>0, <1>1
  <1>3. /\ Len(Append(short, Torn)) = kept + 1
        /\ \A i \in 1 .. kept : Append(short, Torn)[i] = log[i]
        /\ Append(short, Torn)[kept + 1] = Torn
    BY <1>2
  <1>4. log' = short \/ log' = Append(short, Torn)
    BY <1>1
  <1> HIDE DEF short
  <1> QED  BY <1>2, <1>3, <1>4

LEMMA ProcessOrder ==
    ASSUME EngineInv, OrderInv, ProcessStep
    PROVE  OrderInv'
  <1>0. /\ Len(log) \in Nat /\ durable \in Nat /\ durable <= Len(log) /\ pos \in Nat
        /\ log \in Seq(Op \union {Torn})
        /\ \A i \in 1 .. Len(log) : log[i] # Torn => log[i] \in Op
        /\ \A y \in Op : before[y] \subseteq Op
    BY LogTypes
  <1>1. ASSUME UNCHANGED <<log, durable, before, stage>>, Replayed', StoredIsCurrent'
        PROVE  OrderInv'
    BY <1>1, LogOrderSame DEF OrderInv
  <1>2. CASE Sweep
    <2>1. StoredIsCurrent'
      BY <1>0, <1>2, Names DEF Sweep, StoredIsCurrent
    <2>2. Replayed'
      BY <1>2 DEF Sweep, Replayed
    <2> QED  BY <1>1, <1>2, <2>1, <2>2 DEF Sweep
  <1>3. CASE CloseLog
    BY <1>1, <1>3 DEF CloseLog, store, OrderInv, Replayed, StoredIsCurrent
  <1>4. CASE CloseDb
    BY <1>0, <1>4, StopOrder DEF CloseDb
  <1>5. CASE Crash
    <2>1. PICK kept \in durable .. Len(log) :
              /\ Len(log') \in Nat /\ kept <= Len(log') /\ Len(log') <= kept + 1
              /\ \A i \in 1 .. kept : log'[i] = log[i]
              /\ Len(log') = kept + 1 => log'[kept + 1] = Torn
      BY <1>5, CrashedLog
    <2>2. ASSUME NEW i \in 1 .. Len(log'), log'[i] # Torn
          PROVE  i \in 1 .. Len(log) /\ log'[i] = log[i]
      <3>1. i \in 1 .. kept
        BY <1>0, <2>1, <2>2
      <3> QED  BY <1>0, <2>1, <3>1
    <2> QED  BY <1>5, <2>1, <2>2, StopOrder DEF Crash
  <1>6. CASE DbDeleted
    BY <1>1, <1>6 DEF DbDeleted, Replayed, StoredIsCurrent
  <1>7. CASE Open
    BY <1>1, <1>7 DEF Open, Replayed, StoredIsCurrent
  <1>8. CASE Replay
    <2>1. /\ mode = "replaying" /\ mode' = mode /\ pos' = pos + 1 /\ log[pos] # Torn
          /\ kv' = (IF log[pos] \in Put THEN log[pos] ELSE None)
          /\ UNCHANGED <<log, durable, before, stage>>
      BY <1>8 DEF Replay, Recover, Store
    <2>2. Replayed' /\ StoredIsCurrent'
      BY <1>0, <2>1 DEF Replayed, StoredIsCurrent
    <2> QED  BY <1>1, <2>1, <2>2
  <1>9. CASE ReplayFails
    BY <1>1, <1>9 DEF ReplayFails, Replayed, StoredIsCurrent
  <1>10. CASE ReplayEnds
    <2>1. /\ mode = "replaying" /\ mode' = "up" /\ pos > Len(log)
          /\ UNCHANGED <<kv, log, durable, before, stage>>
      BY <1>10 DEF ReplayEnds, store
    <2>2. durable = Len(log) /\ pos = Len(log) + 1
      BY <1>0, <2>1 DEF EngineInv, ReplayInv
    <2>3. ASSUME NEW o \in Op, stage[o] = "done", kv \in before[o]  PROVE FALSE
      <3>1. kv # None /\ o \in Records
        BY <1>0, <2>3, Names DEF EngineInv, LoggedInv
      <3>2. PICK j \in 1 .. Len(log) : log[j] = o
        BY <2>2, <3>1 DEF Records
      <3>3. pos > 1 /\ kv = log[Len(log)] /\ kv # Torn
        BY <1>0, <2>1, <2>2, <3>1, <3>2 DEF OrderInv, Replayed
      <3>4. Len(log) < j
        BY <1>0, <2>3, <3>2, <3>3, Names DEF OrderInv, RecordsInOrder
      <3> QED  BY <1>0, <3>2, <3>4
    <2>4. StoredIsCurrent' /\ Replayed'
      BY <2>1, <2>3 DEF StoredIsCurrent, Replayed
    <2> QED  BY <1>1, <2>1, <2>4
  <1> QED
    BY <1>2, <1>3, <1>4, <1>5, <1>6, <1>7, <1>8, <1>9, <1>10 DEF ProcessStep

LEMMA OrderStep == EngineInv /\ OrderInv /\ [Next]_vars => OrderInv'
  <1> SUFFICES ASSUME EngineInv, OrderInv, [Next]_vars PROVE OrderInv'
    OBVIOUS
  <1>1. CASE CallStep
    BY <1>1, CallOrder, AppendOrder DEF CallStep
  <1>2. CASE ProcessStep
    BY <1>2, ProcessOrder
  <1>3. CASE UNCHANGED vars
    <2>1. UNCHANGED <<mode, kv, log, durable, before, stage, pos>>
      BY <1>3 DEF vars, store
    <2> QED  BY <2>1, LogOrderSame DEF OrderInv, Replayed, StoredIsCurrent
  <1> QED  BY <1>1, <1>2, <1>3 DEF Next

(* A value that was written before another call began is not seen once     *)
(* that call was acknowledged: not when calls overtake each other between  *)
(* log and database, and not when a crash replays the log, in its own      *)
(* order, over the database.                                               *)
THEOREM RealTimeCorrect == Spec => []RealTimeOrder
  <1>1. EngineInv /\ OrderInv => RealTimeOrder
    <2>1. EngineInv => \A o \in Op : None \notin before[o]
      BY LogTypes, Names
    <2> QED  BY <2>1 DEF OrderInv, StoredIsCurrent, RealTimeOrder, Visible
  <1> QED  BY <1>1, InitEngine, EngineStep, InitOrder, OrderStep, PTL DEF Spec

-----------------------------------------------------------------------------
(* The engine implements what Replica promises.                            *)

(* A set of places in a sequence has a greatest one.                       *)
LEMMA GreatestPlace ==
    ASSUME NEW n \in Nat, NEW T \in SUBSET (1 .. n), T # {}
    PROVE  /\ Max(T) \in T
           /\ \A y \in T : y <= Max(T)
  <1> DEFINE R == {ss \in Nat \X Nat : ss[1] < ss[2]}
             D == {d \in Nat : n - d \in T}
  <1>1. IsWellFoundedOn(R, Nat)
    BY NatLessThanWellFounded DEF OpToRel
  <1>2. D \subseteq Nat /\ D # {}
    <2>1. PICK x \in T : TRUE
      OBVIOUS
    <2>2. n - x \in Nat /\ n - (n - x) = x
      OBVIOUS
    <2> QED  BY <2>1, <2>2
  <1>3. PICK d \in D : \A e \in D : ~(<<e, d>> \in R)
    <2> HIDE DEF R, D
    <2> QED  BY <1>1, <1>2, WFMin
  <1>4. ASSUME NEW y \in T  PROVE y <= n - d
    <2>1. n - y \in Nat /\ n - (n - y) = y /\ d \in Nat
      OBVIOUS
    <2>2. n - y \in D
      BY <2>1
    <2>3. ~(<<n - y, d>> \in R)
      BY <1>3, <2>2
    <2>4. ~(n - y < d)
      <3> SUFFICES ASSUME n - y < d PROVE FALSE
        OBVIOUS
      <3>1. <<n - y, d>> \in Nat \X Nat /\ <<n - y, d>>[1] = n - y /\ <<n - y, d>>[2] = d
        BY <2>1
      <3>2. <<n - y, d>> \in R
        BY <3>1
      <3> QED  BY <2>3, <3>2
    <2> HIDE DEF R, D
    <2> QED  BY <2>1, <2>4
  <1>5. n - d \in T
    OBVIOUS
  <1>6. \E x \in T : \A y \in T : x >= y
    BY <1>4, <1>5
  <1>7. Max(T) \in T /\ \A y \in T : Max(T) >= y
    BY <1>6 DEF Max
  <1> QED  BY <1>7

(* Which record is the last one: none of those after it is whole.          *)
Says(e) == IF e \in Put THEN e ELSE None

IsLastOf(l, n, i) ==
    /\ i \in 0 .. n
    /\ i # 0 => l[i] # Torn
    /\ \A j \in 1 .. n : j > i => l[j] = Torn

LEMMA LastOfIs ==
    ASSUME NEW l, NEW n \in Nat, NEW i, IsLastOf(l, n, i)
    PROVE  LastOf(l, n) = IF i = 0 THEN None ELSE Says(l[i])
  <1> USE DEF IsLastOf
  <1> DEFINE whole == {j \in 1 .. n : l[j] # Torn}
  <1>1. CASE i = 0
    <2>1. whole = {}
      BY <1>1
    <2> QED  BY <1>1, <2>1 DEF LastOf
  <1>2. CASE i # 0
    <2>1. i \in whole /\ \A j \in whole : j <= i
      BY <1>2
    <2>2. Max(whole) \in whole /\ \A j \in whole : j <= Max(whole)
      <3>1. whole \in SUBSET (1 .. n) /\ whole # {}
        BY <2>1
      <3> HIDE DEF whole
      <3> QED  BY <3>1, GreatestPlace
    <2>3. Max(whole) = i
      BY <2>1, <2>2
    <2> HIDE DEF whole
    <2>4. LastOf(l, n) = IF whole = {} \/ l[Max(whole)] \notin Put THEN None ELSE l[Max(whole)]
      BY DEF LastOf, whole
    <2> QED  BY <1>2, <2>1, <2>3, <2>4 DEF Says
  <1> QED  BY <1>1, <1>2

(* There is such a record, or none is whole.                               *)
LEMMA LastPlace ==
    ASSUME NEW l, NEW n \in Nat
    PROVE  \E i : IsLastOf(l, n, i)
  <1> USE DEF IsLastOf
  <1> DEFINE whole == {j \in 1 .. n : l[j] # Torn}
  <1>1. CASE whole = {}
    <2>1. IsLastOf(l, n, 0)
      BY <1>1
    <2> QED  BY <2>1
  <1>2. CASE whole # {}
    <2>1. Max(whole) \in whole /\ \A j \in whole : j <= Max(whole)
      <3>1. whole \in SUBSET (1 .. n)
        OBVIOUS
      <3> HIDE DEF whole
      <3> QED  BY <1>2, <3>1, GreatestPlace
    <2>2. PICK m \in whole : \A j \in whole : j <= m
      BY <2>1
    <2>3. IsLastOf(l, n, m)
      BY <2>2
    <2> QED  BY <2>3
  <1> QED  BY <1>1, <1>2

(* Two logs that begin alike.                                              *)
LEMMA LastOfSame ==
    ASSUME NEW l, NEW k, NEW n \in Nat, \A i \in 1 .. n : k[i] = l[i]
    PROVE  LastOf(k, n) = LastOf(l, n)
  <1>1. PICK i : IsLastOf(l, n, i)
    BY LastPlace
  <1>2. IsLastOf(k, n, i) /\ (i # 0 => k[i] = l[i])
    BY <1>1 DEF IsLastOf
  <1> QED  BY <1>1, <1>2, LastOfIs

(* A longer log: its last record is the same, or one of those it gained.   *)
LEMMA LastOfMore ==
    ASSUME NEW l, NEW n \in Nat, NEW m \in Nat, n <= m
    PROVE  \/ LastOf(l, m) = LastOf(l, n)
           \/ \E i \in n + 1 .. m : l[i] # Torn /\ LastOf(l, m) = Says(l[i])
  <1>1. PICK i : IsLastOf(l, m, i)
    BY LastPlace
  <1>2. CASE i > n
    <2>1. i \in n + 1 .. m /\ i # 0 /\ l[i] # Torn
      BY <1>1, <1>2 DEF IsLastOf
    <2> QED  BY <1>1, <2>1, LastOfIs
  <1>3. CASE ~(i > n)
    <2>1. IsLastOf(l, n, i)
      BY <1>1, <1>3 DEF IsLastOf
    <2> QED  BY <1>1, <2>1, LastOfIs
  <1> QED  BY <1>2, <1>3

(* How the stages of the calls map.                                        *)
Seen(s) == IF s \in {"prefix", "data"} THEN "checked" ELSE s

LEMMA ProgressMoves ==
    ASSUME EngineInv, NEW o \in Op, NEW s, stage' = [stage EXCEPT ![o] = s]
    PROVE  Progress' = [Progress EXCEPT ![o] = Seen(s)]
  BY LogTypes DEF Progress, Seen

(* A step that changes neither the mode, the files' whole records nor the  *)
(* deadlines that have passed.                                             *)
LEMMA FoundSame ==
    ASSUME EngineInv, UNCHANGED <<mode, kv, ttl, durable, over>>,
           \A i \in 1 .. durable : log'[i] = log[i]
    PROVE  Found' = Found /\ LastRecord' = LastRecord
  <1>1. durable \in Nat
    BY LogTypes
  <1>2. LastOf(log', durable) = LastOf(log, durable)
    BY <1>1, LastOfSame
  <1>3. LastRecord' = LastRecord
    BY <1>2 DEF LastRecord
  <1> QED  BY <1>3 DEF Found, Visible

(* The calls outside their append.                                         *)
LEMMA CallImplements ==
    ASSUME EngineInv, NEW o \in Op,
           \/ Check(o) \/ GetFails(o) \/ AppendFails(o)
           \/ DbUpdate(o) \/ DbFails(o) \/ TimeOver(o)
    PROVE  [Abstract!Next]_(Abstract!vars)
  <1> USE Names DEF store
  <1>0. Progress[o] = Seen(stage[o]) /\ over \subseteq Op
    BY DEF Progress, Seen, EngineInv, TypeOK
  <1>1. CASE Check(o)
    <2>1. Found' = Found /\ LastRecord' = LastRecord /\ Found = Visible
      BY <1>1, FoundSame DEF Check, Starts, Found
    <2>2. Progress[o] = "new"
      BY <1>0, <1>1 DEF Check, Starts, Seen
    <2>3. Abstract!Outdated(o) <=> Outdated(o)
      BY <2>1 DEF Outdated, Abstract!Outdated, Compare, IsGreater, IsLess, At,
                  Abstract!Compare, Abstract!IsGreater, Abstract!IsLess, Abstract!At
    <2>4. stage' = [stage EXCEPT ![o] = IF Outdated(o) THEN "dropped" ELSE "checked"]
      BY <1>1 DEF Check, Reach
    <2>5. Progress' = [Progress EXCEPT ![o] = Seen(IF Outdated(o) THEN "dropped" ELSE "checked")]
      BY <2>4, ProgressMoves
    <2>6. Progress' = [Progress EXCEPT ![o] = IF Outdated(o) THEN "dropped" ELSE "checked"]
      BY <2>5 DEF Seen
    <2>7. Abstract!Check(o)
      BY <1>1, <2>1, <2>2, <2>3, <2>6 DEF Check, Abstract!Check, Abstract!Reach
    <2> QED  BY <2>7 DEF Abstract!Next
  <1>2. CASE AppendFails(o) \/ DbFails(o)
    <2>1. Found' = Found /\ LastRecord' = LastRecord
      BY <1>2, FoundSame DEF AppendFails, DbFails
    <2>2. Progress[o] \in {"checked", "logged"}
      BY <1>0, <1>2 DEF AppendFails, DbFails, Seen
    <2>3. Progress' = [Progress EXCEPT ![o] = "failed"]
      BY <1>2, ProgressMoves DEF AppendFails, DbFails, Reach, Seen
    <2>4. Abstract!Fail(o)
      BY <1>2, <2>1, <2>2, <2>3 DEF AppendFails, DbFails, Abstract!Fail, Abstract!Reach
    <2> QED  BY <2>4 DEF Abstract!Next
  <1>3. CASE DbUpdate(o)
    <2>1. Progress[o] = "logged"
      BY <1>0, <1>3 DEF DbUpdate, Seen
    <2>2. Progress' = [Progress EXCEPT ![o] = "done"]
      BY <1>3, ProgressMoves DEF DbUpdate, Reach, Seen
    <2>3. LastRecord' = LastRecord
      BY <1>3 DEF DbUpdate, LastRecord
    <2>4. Found' = IF ttl' \in over THEN None ELSE kv'
      BY <1>3 DEF DbUpdate, Found, Visible
    <2>5. kv' = Abstract!Value(o) /\ ttl' = (IF o \in Timed THEN o ELSE None)
      BY <1>3 DEF DbUpdate, Store, Abstract!Value
    <2>6. Found' \in Abstract!Shown(Abstract!Value(o))
      BY <1>0, <2>4, <2>5 DEF Abstract!Shown, Abstract!Value
    <2>7. Abstract!Apply(o)
      BY <1>3, <2>1, <2>2, <2>3, <2>6 DEF DbUpdate, Abstract!Apply, Abstract!Reach
    <2> QED  BY <2>7 DEF Abstract!Next
  <1>4. CASE TimeOver(o)
    <2>1. /\ o \in Timed \ over /\ over' = over \union {o}
          /\ UNCHANGED <<mode, kv, ttl, log, durable, stage, unread>>
      BY <1>4 DEF TimeOver
    <2>2. LastRecord' = LastRecord /\ Progress' = Progress
      BY <2>1 DEF LastRecord, Progress
    <2>3. Found' = Found \/ (Found = o /\ Found' = None)
      BY <2>1, <2>2 DEF Found, Visible, EngineInv, DeadlineOfValue
    <2>4. CASE Found' = Found
      BY <2>1, <2>2, <2>4 DEF Abstract!vars
    <2>5. CASE Found = o /\ Found' = None
      <3>1. Abstract!Expire
        BY <2>1, <2>2, <2>5 DEF Abstract!Expire
      <3> QED  BY <3>1 DEF Abstract!Next
    <2> QED  BY <2>3, <2>4, <2>5
  <1>5. CASE GetFails(o)
    <2>1. Found' = Found /\ LastRecord' = LastRecord
      BY <1>5, FoundSame DEF GetFails, Starts
    <2>2. Progress[o] = "new"
      BY <1>0, <1>5 DEF GetFails, Starts, Seen
    <2>3. Progress' = [Progress EXCEPT ![o] = "checked"]
      BY <1>5, ProgressMoves DEF GetFails, Reach, Seen
    <2>4. Abstract!GetFails(o)
      BY <1>5, <2>1, <2>2, <2>3 DEF GetFails, Abstract!GetFails, Abstract!Reach
    <2> QED  BY <2>4 DEF Abstract!Next
  <1> QED  BY <1>1, <1>2, <1>3, <1>4, <1>5

(* An append is one step, taken by the fsync.                              *)
LEMMA AppendImplements ==
    ASSUME EngineInv, NEW o \in Op, WritePrefix(o) \/ WriteData(o) \/ Sync(o)
    PROVE  [Abstract!Next]_(Abstract!vars)
  <1> USE Names DEF store
  <1>0. /\ Progress[o] = Seen(stage[o]) /\ Progress \in [Op -> {Progress[x] : x \in Op}]
        /\ log \in Seq(Op \union {Torn}) /\ Len(log) \in Nat
        /\ durable \in Nat /\ durable <= Len(log)
    BY LogTypes DEF Progress, Seen
  <1>1. CASE WritePrefix(o) \/ WriteData(o)
    <2>1. \A i \in 1 .. durable : log'[i] = log[i]
      <3>1. CASE WritePrefix(o)
        BY <1>0, <3>1 DEF WritePrefix
      <3>2. CASE WriteData(o)
        <4>1. durable < Len(log)
          BY <3>2 DEF WriteData, EngineInv, TypeOK
        <4> QED  BY <1>0, <3>2, <4>1 DEF WriteData
      <3> QED  BY <1>1, <3>1, <3>2
    <2>2. Found' = Found /\ LastRecord' = LastRecord
      BY <1>1, <2>1, FoundSame DEF WritePrefix, WriteData
    <2>3. Progress[o] = "checked" /\ Progress' = [Progress EXCEPT ![o] = "checked"]
      BY <1>0, <1>1, ProgressMoves DEF WritePrefix, WriteData, Reach, Seen
    <2>4. Progress' = Progress
      BY <1>0, <2>3
    <2> QED  BY <1>1, <2>2, <2>4 DEF WritePrefix, WriteData, Abstract!vars
  <1>2. CASE Sync(o)
    <2>1. /\ stage[o] = "data" /\ mode = "up" /\ durable' = Len(log)
          /\ stage' = [stage EXCEPT ![o] = "logged"]
          /\ UNCHANGED <<mode, kv, ttl, log, over, unread>>
      BY <1>2 DEF Sync, Synced, Reach
    <2>2. Len(log) > 0 /\ log[Len(log)] = o
      BY <1>0, <2>1 DEF EngineInv, TypeOK, Last
    <2>3. IsLastOf(log, Len(log), Len(log))
      BY <1>0, <2>2 DEF IsLastOf
    <2>4. LastOf(log, Len(log)) = Says(o)
      BY <1>0, <2>2, <2>3, LastOfIs
    <2>5. LastRecord' = Abstract!Value(o)
      BY <2>1, <2>4 DEF LastRecord, Says, Abstract!Value
    <2>6. Found' = Found
      BY <2>1 DEF Found, Visible
    <2>7. Progress[o] = "checked" /\ Progress' = [Progress EXCEPT ![o] = "logged"]
      BY <1>0, <2>1, ProgressMoves DEF Seen
    <2>8. Abstract!Append(o)
      BY <2>1, <2>5, <2>6, <2>7 DEF Abstract!Append, Abstract!Reach
    <2> QED  BY <2>8 DEF Abstract!Next
  <1> QED  BY <1>1, <1>2

(* The process stops: what a crash leaves of the log, its last whole       *)
(* record included, is what Restart promises.                              *)
LEMMA StopImplements ==
    ASSUME EngineInv, OrderInv, Stopped, NEW kept \in durable .. Len(log),
           Len(log') \in Nat, kept <= Len(log'), Len(log') <= kept + 1,
           \A i \in 1 .. kept : log'[i] = log[i],
           Len(log') = kept + 1 => log'[kept + 1] = Torn
    PROVE  [Abstract!Next]_(Abstract!vars)
  <1>0. /\ Len(log) \in Nat /\ durable \in Nat /\ kept \in Nat /\ durable <= kept
        /\ \A i \in 1 .. Len(log) : log[i] # Torn => log[i] \in Op
    BY LogTypes
  <1>1. LastRecord' = LastOf(log', Len(log'))
    BY DEF Stopped, LastRecord
  <1>2. LastOf(log', Len(log')) = LastOf(log', kept)
    <2>1. ~ \E i \in kept + 1 .. Len(log') : log'[i] # Torn
      BY <1>0
    <2>2. \/ LastOf(log', Len(log')) = LastOf(log', kept)
          \/ \E i \in kept + 1 .. Len(log') :
                log'[i] # Torn /\ LastOf(log', Len(log')) = Says(log'[i])
      BY <1>0, LastOfMore
    <2> QED  BY <2>1, <2>2
  <1>3. LastOf(log', kept) = LastOf(log, kept)
    BY <1>0, LastOfSame
  <1>4. \/ LastOf(log, kept) = LastOf(log, durable)
        \/ \E i \in durable + 1 .. kept : log[i] # Torn /\ LastOf(log, kept) = Says(log[i])
    BY <1>0, LastOfMore
  <1>5. ASSUME NEW i \in durable + 1 .. kept, log[i] # Torn
        PROVE  log[i] \in Op /\ Progress[log[i]] \in {"checked", "failed"}
    <2>1. i \in 1 .. Len(log) /\ i > durable
      BY <1>0
    <2>2. log[i] \in Op /\ stage[log[i]] \in {"data", "failed"}
      BY <1>0, <1>5, <2>1 DEF OrderInv, RecordsOfCalls
    <2> QED  BY <2>2 DEF Progress
  <1>6. LastRecord' \in {LastRecord} \union
          {Abstract!Value(x) : x \in {y \in Op : Progress[y] \in {"checked", "failed"}}}
    BY <1>1, <1>2, <1>3, <1>4, <1>5 DEF LastRecord, Says, Abstract!Value
  <1>7. Found' \in Abstract!Shown(LastRecord')
    <2>1. Found' = IF LastRecord' \in over THEN None ELSE LastRecord'
      BY DEF Stopped, Found
    <2>2. over \subseteq Timed
      BY DEF EngineInv, TypeOK
    <2> QED  BY <2>1, <2>2 DEF Abstract!Shown
  <1>8. Progress' = [x \in Op |-> IF Progress[x] \in {"done", "dropped", "new"}
                                  THEN Progress[x] ELSE "failed"]
    BY DEF Stopped, Progress, EngineInv, TypeOK
  <1>9. Abstract!Restart
    BY <1>6, <1>7, <1>8 DEF Stopped, Abstract!Restart
  <1> QED  BY <1>9 DEF Abstract!Next

(* The end of a replay: the database says what the log's last record says. *)
LEMMA ReplayFinds ==
    ASSUME EngineInv, OrderInv, ReplayEnds
    PROVE  Found' = Found
  <1>0. /\ Len(log) \in Nat /\ durable = Len(log) /\ pos = Len(log) + 1
        /\ mode = "replaying" /\ mode' = "up"
        /\ UNCHANGED <<kv, ttl, log, durable, over>>
    BY LogTypes DEF ReplayEnds, store, EngineInv, ReplayInv, TypeOK
  <1>1. LastRecord = kv
    <2>1. CASE Len(log) = 0
      <3>1. IsLastOf(log, 0, 0)
        BY DEF IsLastOf
      <3>2. LastOf(log, 0) = None
        BY <3>1, LastOfIs
      <3>3. kv = None
        BY <1>0, <2>1 DEF EngineInv, LoggedInv, Records
      <3> QED  BY <1>0, <2>1, <3>2, <3>3 DEF LastRecord
    <2>2. CASE Len(log) # 0
      <3>1. log[Len(log)] # Torn /\ kv = Says(log[Len(log)])
        BY <1>0, <2>2 DEF OrderInv, Replayed, Says
      <3>2. IsLastOf(log, Len(log), Len(log))
        BY <1>0, <3>1 DEF IsLastOf
      <3>3. LastOf(log, Len(log)) = Says(log[Len(log)])
        BY <1>0, <2>2, <3>2, LastOfIs
      <3> QED  BY <1>0, <3>1, <3>3 DEF LastRecord
    <2> QED  BY <2>1, <2>2
  <1> QED  BY <1>0, <1>1, Names DEF Found, Visible, EngineInv, TypeOK, DeadlineOfValue

LEMMA ProcessImplements ==
    ASSUME EngineInv, OrderInv, ProcessStep
    PROVE  [Abstract!Next]_(Abstract!vars)
  <1> USE Names DEF store
  <1>1. ASSUME UNCHANGED <<log, durable, stage, unread>>, Found' = Found
        PROVE  UNCHANGED Abstract!vars
    BY <1>1 DEF Abstract!vars, LastRecord, Progress
  <1>2. CASE Sweep
    <2>1. Found' = Found
      BY <1>2 DEF Sweep, Found, Visible, EngineInv, TypeOK
    <2> QED  BY <1>1, <1>2, <2>1 DEF Sweep
  <1>3. CASE CloseLog \/ Open \/ DbDeleted \/ Replay \/ ReplayFails
    <2>1. UNCHANGED <<log, durable, stage, over, unread>> /\ LastRecord' = LastRecord
      BY <1>3 DEF CloseLog, Open, DbDeleted, Replay, ReplayFails, LastRecord
    <2>2. \/ mode \in {"up", "closing"} /\ mode' \in {"up", "closing"} /\ UNCHANGED <<kv, ttl>>
          \/ mode \notin {"up", "closing"} /\ mode' \notin {"up", "closing"}
      BY <1>3 DEF CloseLog, Open, DbDeleted, Replay, ReplayFails
    <2>3. Found' = Found
      BY <2>1, <2>2 DEF Found, Visible
    <2> QED  BY <1>1, <2>1, <2>3
  <1>4. CASE ReplayEnds
    BY <1>1, <1>4, ReplayFinds DEF ReplayEnds
  <1>5. CASE CloseDb
    <2>1. Len(log) \in durable .. Len(log) /\ Len(log) \in Nat
      BY LogTypes
    <2> QED  BY <1>5, <2>1, StopImplements DEF CloseDb
  <1>6. CASE Crash
    <2>1. PICK kept \in durable .. Len(log) :
              /\ Len(log') \in Nat /\ kept <= Len(log') /\ Len(log') <= kept + 1
              /\ \A i \in 1 .. kept : log'[i] = log[i]
              /\ Len(log') = kept + 1 => log'[kept + 1] = Torn
      BY <1>6, CrashedLog
    <2> QED  BY <1>6, <2>1, StopImplements DEF Crash
  <1> QED  BY <1>2, <1>3, <1>4, <1>5, <1>6 DEF ProcessStep

LEMMA StepImplements ==
    EngineInv /\ OrderInv /\ [Next]_vars => [Abstract!Next]_(Abstract!vars)
  <1> SUFFICES ASSUME EngineInv, OrderInv, [Next]_vars
               PROVE  [Abstract!Next]_(Abstract!vars)
    OBVIOUS
  <1>1. CASE CallStep
    BY <1>1, CallImplements, AppendImplements DEF CallStep
  <1>2. CASE ProcessStep
    BY <1>2, ProcessImplements
  <1>3. CASE UNCHANGED vars
    BY <1>3 DEF vars, store, Abstract!vars, Found, Visible, LastRecord, Progress
  <1> QED  BY <1>1, <1>2, <1>3 DEF Next

LEMMA InitImplements == Init => Abstract!Init
  <1> SUFFICES ASSUME Init PROVE Abstract!Init
    OBVIOUS
  <1>1. Found = None /\ Progress = [o \in Op |-> "new"]
    BY DEF Init, Found, Visible, Progress
  <1>2. IsLastOf(log, 0, 0)
    BY DEF IsLastOf
  <1>3. LastRecord = None
    BY <1>2, LastOfIs DEF Init, LastRecord
  <1> QED  BY <1>1, <1>3 DEF Init, Abstract!Init

(* Files, locks, failed writes, crashes and the replay, seen from outside: *)
(* one record and one value that change as Replica says.  In particular a  *)
(* call that was cut off is either in the log or was never there.          *)
THEOREM EngineImplements == Spec => ImplementsReplica
  BY InitEngine, EngineStep, InitOrder, OrderStep, InitImplements, StepImplements, PTL
     DEF Spec, ImplementsReplica, Abstract!Spec
=============================================================================
