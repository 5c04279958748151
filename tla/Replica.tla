------------------------------ MODULE Replica -------------------------------
(***************************************************************************)
(* What a coordinator may rely on when it calls the engine of one node:    *)
(* one key, one record of a log, one value, and calls that pass through    *)
(* their stages in any interleaving.  These are the replica-side actions   *)
(* of module Coordinator, with expiry and with failed calls that may have  *)
(* been logged.  Only a call that could not read the stored version gets   *)
(* past a newer one unseen.  Module Engine, the files and the locks,       *)
(* implements it.                                                          *)
(***************************************************************************)
EXTENDS VClock

CONSTANTS
    Op,      \* the calls made to the engine, each once
    None,    \* no call; "the key is not stored"
    Put,     \* the calls that are SetVersioned; the others are Delete
    Timed,   \* the calls of Put that carry a time to live
    Clock    \* the vector clock each call of Put carries

VARIABLES
    store,   \* the call whose value a Get finds, or None
    logged,  \* what the last record of the log says: a call of Put, or None
    stage,   \* how far each call is
    unread   \* history: the calls that could not read the stored version

vars == <<store, logged, stage, unread>>

-----------------------------------------------------------------------------
Value(o) == IF o \in Put THEN o ELSE None

(* A value with a time to live may be over as soon as it is stored.        *)
Shown(v) == {v} \union (IF v \in Timed THEN {None} ELSE {})

Reach(o, s) == stage' = [stage EXCEPT ![o] = s]

Outdated(o) == o \in Put /\ store # None /\ Compare(Clock[store], Clock[o]) > 0

(* A call starts; a Delete checks nothing.                                 *)
Check(o) ==
    /\ stage[o] = "new"
    /\ Reach(o, IF Outdated(o) THEN "dropped" ELSE "checked")
    /\ UNCHANGED <<store, logged, unread>>

(* A call starts, but the stored version cannot be read.                   *)
GetFails(o) ==
    /\ stage[o] = "new" /\ o \in Put
    /\ Reach(o, "checked")
    /\ unread' = unread \union {o}
    /\ UNCHANGED <<store, logged>>

Append(o) ==
    /\ stage[o] = "checked"
    /\ logged' = Value(o)
    /\ Reach(o, "logged")
    /\ UNCHANGED <<store, unread>>

Apply(o) ==
    /\ stage[o] = "logged"
    /\ store' \in Shown(Value(o))
    /\ Reach(o, "done")
    /\ UNCHANGED <<logged, unread>>

Fail(o) ==
    /\ stage[o] \in {"checked", "logged"}
    /\ Reach(o, "failed")
    /\ UNCHANGED <<store, logged, unread>>

Expire ==
    /\ store \in Timed
    /\ store' = None
    /\ UNCHANGED <<logged, stage, unread>>

(* After a restart the store says what the log said.  A call that was cut  *)
(* off, or that failed, may be in the log all the same.                    *)
Restart ==
    /\ logged' \in {logged} \union
         {Value(o) : o \in {p \in Op : stage[p] \in {"checked", "failed"}}}
    /\ store' \in Shown(logged')
    /\ stage' = [o \in Op |-> IF stage[o] \in {"done", "dropped", "new"}
                              THEN stage[o] ELSE "failed"]
    /\ UNCHANGED unread

Init == store = None /\ logged = None /\ stage = [o \in Op |-> "new"] /\ unread = {}

Next ==
    \/ \E o \in Op : Check(o) \/ GetFails(o) \/ Append(o) \/ Apply(o) \/ Fail(o)
    \/ Expire
    \/ Restart

Spec == Init /\ [][Next]_vars
=============================================================================
