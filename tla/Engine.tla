------------------------------- MODULE Engine -------------------------------
(***************************************************************************)
(* The storage engine of one node (internal/store): SetVersioned and       *)
(* Delete calls that run concurrently over the write-ahead log (wal.go)    *)
(* and the bbolt store with its time-to-live bucket (store.go), failing    *)
(* file operations, shutdown, crashes, and the replay of the log when the  *)
(* engine opens again (engine.go).                                         *)
(*                                                                         *)
(* One key, because keys only share the log's file.  A value is named      *)
(* after the call that wrote it, and its clock is the call's: merging the  *)
(* clock of a version that is not newer changes nothing (theorem MergeNoOp *)
(* of VClockTheorems).  bbolt is external: a transaction happens at once   *)
(* and is durable, or it returns an error and changes nothing.             *)
(***************************************************************************)
EXTENDS VClock, Sequences, SequencesExt, FiniteSets

CONSTANTS
    Op, None, Put, Timed, Clock,   \* as in module Replica
    Torn,           \* bytes in the log that are not a whole record
    MaxRestarts     \* bound: how often the process stops

ASSUME EngineAssumption ==
    /\ None \notin Op /\ Torn \notin Op /\ Torn # None
    /\ Put \subseteq Op /\ Timed \subseteq Put
    /\ MaxRestarts \in Nat

VARIABLES
    mode,      \* of the process: see Modes
    kv,        \* bucket krato_kv: the call whose value is stored, or None
    ttl,       \* bucket krato_ttl: the call whose deadline is stored, or None
    log,       \* the records of the log file, oldest first
    durable,   \* how many of them a power failure cannot take away
    writer,    \* the call that holds the mutex of the log, or None
    stage,     \* how far each call is
    over,      \* the calls whose time to live has passed
    pos,       \* the next record to replay
    restarts,
    before,    \* history: for each call, the calls that were done when it started
    unread     \* history: the calls that could not read the stored version

store == <<kv, ttl>>
vars == <<mode, kv, ttl, log, durable, writer, stage, over, pos, restarts, before, unread>>

-----------------------------------------------------------------------------
Modes == {"up", "closing", "down", "replaying", "broken"}

(* BoltStore.Get.  That it deletes an expired key changes nothing: the     *)
(* error it returns rolls the transaction back.                            *)
Visible == IF ttl \in over THEN None ELSE kv

(* BoltStore.SetWithTTL and BoltStore.Delete.                              *)
StoreKeepingDeadline(o) ==
    /\ kv' = IF o \in Put THEN o ELSE None
    /\ ttl' = IF o \in Timed THEN o ELSE ttl

Store(o) ==
    /\ kv' = IF o \in Put THEN o ELSE None
    /\ ttl' = IF o \in Timed THEN o ELSE None

Reach(o, s) == stage' = [stage EXCEPT ![o] = s]

(* A call starts.  SetVersioned reads the stored version and drops the     *)
(* call, reporting success, when that version is newer or concurrent.  If  *)
(* the read returns an error (Get is a transaction that commits, and may   *)
(* fail to), the call goes on as if nothing were stored, neither compared  *)
(* nor merged.  Delete checks nothing.                                     *)
NeverOutdated(o) == FALSE

Outdated(o) == o \in Put /\ Visible # None /\ Compare(Clock[Visible], Clock[o]) > 0

Starts(o) ==
    /\ mode \in {"up", "closing"} /\ stage[o] = "new"
    /\ before' = [before EXCEPT ![o] = {p \in Op : stage[p] = "done"}]
    /\ UNCHANGED <<mode, store, log, durable, writer, over, pos, restarts>>

Check(o) ==
    /\ Starts(o)
    /\ Reach(o, IF Outdated(o) THEN "dropped" ELSE "checked")
    /\ UNCHANGED unread

GetFails(o) ==
    /\ o \in Put
    /\ Starts(o)
    /\ Reach(o, "checked")
    /\ unread' = unread \union {o}

(* WAL.Append, under the mutex: the length prefix, then the record, then   *)
(* fsync, which makes durable whatever the file holds.                     *)
WritePrefix(o) ==
    /\ mode = "up" /\ writer = None /\ stage[o] = "checked"
    /\ writer' = o
    /\ log' = Append(log, Torn)
    /\ Reach(o, "prefix")
    /\ UNCHANGED <<mode, store, durable, over, pos, restarts, before, unread>>

WriteData(o) ==
    /\ mode = "up" /\ stage[o] = "prefix"
    /\ log' = [log EXCEPT ![Len(log)] = o]
    /\ Reach(o, "data")
    /\ UNCHANGED <<mode, store, durable, writer, over, pos, restarts, before, unread>>

Unsynced == durable

Synced == Len(log)

Sync(o) ==
    /\ mode = "up" /\ stage[o] = "data"
    /\ durable' = Synced
    /\ writer' = None
    /\ Reach(o, "logged")
    /\ UNCHANGED <<mode, store, log, over, pos, restarts, before, unread>>

(* The file refuses: it is closed, a write stops half-way, or the fsync    *)
(* fails.  What was written stays, and the next append goes behind it.     *)
StillLocked(o) == writer

Unlocked(o) == IF writer = o THEN None ELSE writer

AppendFails(o) ==
    /\ mode \in {"up", "closing"}
    /\ stage[o] \in {"checked", "prefix", "data"}
    /\ writer' = Unlocked(o)
    /\ Reach(o, "failed")
    /\ UNCHANGED <<mode, store, log, durable, over, pos, restarts, before, unread>>

(* The bbolt transaction of the call, or its error.                        *)
DbUpdate(o) ==
    /\ mode \in {"up", "closing"} /\ stage[o] = "logged"
    /\ Store(o)
    /\ Reach(o, "done")
    /\ UNCHANGED <<mode, log, durable, writer, over, pos, restarts, before, unread>>

DbFails(o) ==
    /\ mode \in {"up", "closing"} /\ stage[o] = "logged"
    /\ Reach(o, "failed")
    /\ UNCHANGED <<mode, store, log, durable, writer, over, pos, restarts, before, unread>>

-----------------------------------------------------------------------------
(* Time passes the deadline of a call, which was fixed before its append.  *)
TimeOver(o) ==
    /\ o \in Timed \ over
    /\ stage[o] \notin {"new", "checked", "dropped"}
    /\ over' = over \union {o}
    /\ UNCHANGED <<mode, store, log, durable, writer, stage, pos, restarts, before, unread>>

(* BoltStore.Sweep and BoltStore.Scan delete what has expired.             *)
Sweep ==
    /\ mode = "up" /\ ttl \in over
    /\ kv' = None /\ ttl' = None
    /\ UNCHANGED <<mode, log, durable, writer, stage, over, pos, restarts, before, unread>>

(* Engine.Close closes the log, whose mutex waits for an append, and then  *)
(* the database; calls between the two fail.  With the process they end.   *)
CloseLog ==
    /\ mode = "up" /\ writer = None /\ restarts < MaxRestarts
    /\ mode' = "closing"
    /\ UNCHANGED <<store, log, durable, writer, stage, over, pos, restarts, before, unread>>

(* What a stopped process leaves in the file counts as on the disk.        *)
Stopped ==
    /\ mode' = "down"
    /\ restarts' = restarts + 1
    /\ durable' = Len(log')
    /\ writer' = None
    /\ stage' = [o \in Op |-> IF stage[o] \in {"checked", "prefix", "data", "logged"}
                              THEN "failed" ELSE stage[o]]
    /\ UNCHANGED <<store, over, pos, before, unread>>

CloseDb ==
    /\ mode = "closing"
    /\ log' = log
    /\ Stopped

(* A crash keeps the files: the log up to some record that was not synced, *)
(* and perhaps a part of the next one.                                     *)
Crash ==
    /\ mode \in {"up", "closing", "replaying"} /\ restarts < MaxRestarts
    /\ \E kept \in durable .. Len(log) :
         \/ log' = SubSeq(log, 1, kept)
         \/ kept < Len(log) /\ log' = Append(SubSeq(log, 1, kept), Torn)
    /\ Stopped

(* The database file is deleted while the node is down, as the user guide  *)
(* suggests for a disaster.                                                *)
DbDeleted ==
    /\ mode = "down"
    /\ kv' = None /\ ttl' = None
    /\ UNCHANGED <<mode, log, durable, writer, stage, over, pos, restarts, before, unread>>

(* NewEngine replays the log, record by record, into the database.         *)
Open ==
    /\ mode = "down"
    /\ mode' = "replaying" /\ pos' = 1
    /\ UNCHANGED <<store, log, durable, writer, stage, over, restarts, before, unread>>

RecoverSets(o) == IF o \in Put THEN Store(o) ELSE UNCHANGED store

Recover(o) == Store(o)

Replay ==
    /\ mode = "replaying" /\ pos <= Len(log) /\ log[pos] # Torn
    /\ Recover(log[pos])
    /\ pos' = pos + 1
    /\ UNCHANGED <<mode, log, durable, writer, stage, over, restarts, before, unread>>

(* Bytes that are no record end the replay with an error, and with it      *)
(* NewEngine and the process; every later attempt meets the same bytes.    *)
ReplayFails ==
    /\ mode = "replaying" /\ pos <= Len(log) /\ log[pos] = Torn
    /\ mode' = "broken"
    /\ UNCHANGED <<store, log, durable, writer, stage, over, pos, restarts, before, unread>>

ReplayEnds ==
    /\ mode = "replaying" /\ pos > Len(log)
    /\ mode' = "up"
    /\ UNCHANGED <<store, log, durable, writer, stage, over, pos, restarts, before, unread>>

-----------------------------------------------------------------------------
Init ==
    /\ mode = "up"
    /\ kv = None /\ ttl = None
    /\ log = <<>> /\ durable = 0 /\ writer = None
    /\ stage = [o \in Op |-> "new"]
    /\ over = {}
    /\ pos = 1 /\ restarts = 0
    /\ before = [o \in Op |-> {}]
    /\ unread = {}

CallStep ==
    \E o \in Op :
        \/ Check(o)
        \/ GetFails(o)
        \/ WritePrefix(o)
        \/ WriteData(o)
        \/ Sync(o)
        \/ AppendFails(o)
        \/ DbUpdate(o)
        \/ DbFails(o)
        \/ TimeOver(o)

ProcessStep ==
    \/ Sweep
    \/ CloseLog
    \/ CloseDb
    \/ Crash
    \/ DbDeleted
    \/ Open
    \/ Replay
    \/ ReplayFails
    \/ ReplayEnds

Next == CallStep \/ ProcessStep

Spec == Init /\ [][Next]_vars
-----------------------------------------------------------------------------
(* Correctness.                                                            *)

(* Types; the mutex is held by the call that is writing, whose record is   *)
(* the last of the file.                                                   *)
TypeOK ==
    /\ mode \in Modes
    /\ kv \in Put \union {None} /\ ttl \in Timed \union {None}
    /\ log \in Seq(Op \union {Torn}) /\ durable \in 0 .. Len(log)
    /\ stage \in [Op -> {"new", "checked", "prefix", "data", "logged",
                         "done", "dropped", "failed"}]
    /\ over \subseteq Timed
    /\ pos \in 1 .. Len(log) + 1 /\ restarts \in 0 .. MaxRestarts
    /\ before \in [Op -> SUBSET Op] /\ unread \subseteq Put
    /\ writer \in Op \union {None}
    /\ \A o \in Op :
          /\ (writer = o) <=> (stage[o] \in {"prefix", "data"})
          /\ writer = o => /\ durable < Len(log)
                           /\ Last(log) = IF stage[o] = "data" THEN o ELSE Torn

(* The deadline that Get, Scan and Sweep act on is the stored value's own: *)
(* no value is hidden or deleted on the deadline of one it replaced, and   *)
(* none outlives its own, also after a replay.                             *)
DeadlineOfValue == ttl = IF kv \in Timed THEN kv ELSE None

Records == {log[i] : i \in 1 .. durable}

(* What was acknowledged, and what a reader can have seen, is in the part  *)
(* of the log that survives a crash: "flushing operations via encoded byte *)
(* logs before DB updates".                                                *)
WriteAhead ==
    /\ \A o \in Op : stage[o] = "done" => o \in Records
    /\ kv # None => kv \in Records

(* A value that was written before another call began is not seen after    *)
(* that call was acknowledged, whatever overlaps, fails, crashes or is     *)
(* replayed.                                                               *)
RealTimeOrder ==
    mode \in {"up", "closing"} =>
        \A o \in Op : stage[o] = "done" => Visible \notin before[o]

(* "This allows explicit protection from SIGKILL failures": the node opens *)
(* again after a crash.                                                    *)
OpensAgain == mode # "broken"

-----------------------------------------------------------------------------
(* Implementation of Replica.  An append counts from its fsync on, and     *)
(* while the process is down readers will find what the log says.          *)
LastOf(records, n) ==
    LET whole == {i \in 1 .. n : records[i] # Torn}
    IN  IF whole = {} \/ records[Max(whole)] \notin Put THEN None ELSE records[Max(whole)]

LastRecord == LastOf(log, durable)

Found ==
    IF mode \in {"up", "closing"} THEN Visible
    ELSE IF LastRecord \in over THEN None ELSE LastRecord

Progress ==
    [o \in Op |-> IF stage[o] \in {"prefix", "data"} THEN "checked" ELSE stage[o]]

Abstract == INSTANCE Replica WITH store <- Found, logged <- LastRecord, stage <- Progress

(* Every step of the engine is a step, or none, of what it promises.       *)
ImplementsReplica == Abstract!Spec
=============================================================================
