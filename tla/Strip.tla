-------------------------------- MODULE Strip -------------------------------
(***************************************************************************)
(* The strip under the ring of the dashboard that writes and reads one key *)
(* (web/src/App.tsx: the kv state, handleSet, handleGet and their inputs). *)
(*                                                                         *)
(* The button is disabled while a request is on its way; the Enter key in  *)
(* an input calls the same handlers and is not.  A handler has the mode    *)
(* and the key of the moment it was called in its closure, and its answer  *)
(* sets the state whatever the strip shows by then.  A result is known by  *)
(* the request it answers and by its kind.  The refresh after a write is   *)
(* WriteKey of module Console.                                             *)
(***************************************************************************)
EXTENDS Naturals

CONSTANTS
    Entry,         \* the keys that are typed
    Blank,         \* the empty text, and no result
    MaxRequests    \* bound: requests on their way of one mode and key

ASSUME StripAssumption == Blank \notin Entry /\ MaxRequests \in Nat \ {0}

Modes == {"set", "get"}

Requests == [mode : Modes, key : Entry]

VARIABLES
    kvMode, kvKey,
    kvValue,     \* whether the value input has a text
    kvResult, kvLoading,
    sent,        \* how many of each request are on their way
    meddled      \* history: the mode or the key was edited, or another request
                 \* sent, while one was on its way

stripVars == <<kvMode, kvKey, kvValue, kvResult, kvLoading, sent, meddled>>

Quiet == [r \in Requests |-> 0]

Result(request, kind) == [request |-> request, kind |-> kind]

-----------------------------------------------------------------------------
(* The inputs.                                                             *)
ChooseMode(mode) ==
    /\ kvMode' = mode /\ kvResult' = Blank
    /\ meddled' = (sent # Quiet)
    /\ UNCHANGED <<kvKey, kvValue, kvLoading, sent>>

resultKept == kvResult

resultCleared == Blank

TypeKey(key) ==
    /\ key # kvKey
    /\ kvKey' = key /\ kvResult' = resultCleared
    /\ meddled' = (sent # Quiet)
    /\ UNCHANGED <<kvMode, kvValue, kvLoading, sent>>

TypeValue ==
    /\ kvMode = "set"
    /\ kvValue' \in BOOLEAN
    /\ UNCHANGED <<kvMode, kvKey, kvResult, kvLoading, sent, meddled>>

(* handleSet and handleGet up to the fetch: the mode says which.           *)
SendRequest ==
    LET request == [mode |-> kvMode, key |-> kvKey]
    IN  /\ kvKey # Blank /\ (kvMode = "set" => kvValue)
        /\ sent[request] < MaxRequests
        /\ kvLoading' = TRUE /\ kvResult' = Blank
        /\ sent' = [sent EXCEPT ![request] = @ + 1]
        /\ meddled' = (sent # Quiet)
        /\ UNCHANGED <<kvMode, kvKey, kvValue>>

PressEnter == SendRequest

PressButton == ~kvLoading /\ SendRequest

(* The answers.  404 is an answer of its own for handleGet alone; in every *)
(* case "finally" ends the waiting.                                        *)
Kinds(mode) == IF mode = "set" THEN {"written", "error"} ELSE {"found", "absent", "error"}

stopsUnlessAbsent(kind) == kvLoading /\ kind = "absent"

stopsLoading(kind) == FALSE

Answered(request, kind) ==
    /\ sent[request] > 0
    /\ sent' = [sent EXCEPT ![request] = @ - 1]
    /\ kvResult' = Result(request, kind)
    /\ kvValue' = (kvValue /\ kind # "written")
    /\ kvLoading' = stopsLoading(kind)
    /\ UNCHANGED <<kvMode, kvKey, meddled>>

StripInit ==
    /\ kvMode = "set" /\ kvKey = Blank /\ kvValue = FALSE
    /\ kvResult = Blank /\ kvLoading = FALSE
    /\ sent = Quiet /\ meddled = FALSE

StripNext ==
    \/ \E mode \in Modes : ChooseMode(mode)
    \/ \E key \in Entry \union {Blank} : TypeKey(key)
    \/ TypeValue \/ PressEnter \/ PressButton
    \/ \E request \in Requests : \E kind \in Kinds(request.mode) : Answered(request, kind)

StripSpec == StripInit /\ [][StripNext]_stripVars
-----------------------------------------------------------------------------
(* What the strip shows: in get mode nothing but "Querying quorum" while   *)
(* it waits, and the placeholder when there is no result.                  *)
ShownResult ==
    IF kvMode = "get" /\ kvLoading THEN "querying"
    ELSE IF kvResult # Blank THEN kvResult.kind
    ELSE IF kvMode = "get" THEN "placeholder" ELSE "nothing"

Results == {Result(r, kind) : r \in Requests, kind \in Kinds("set") \union Kinds("get")}

StripTypeOK ==
    /\ kvMode \in Modes /\ kvKey \in Entry \union {Blank} /\ kvValue \in BOOLEAN
    /\ kvResult \in Results \union {Blank} /\ kvLoading \in BOOLEAN
    /\ sent \in [Requests -> Nat] /\ meddled \in BOOLEAN
    /\ ShownResult \in {"querying", "placeholder", "nothing"} \union Kinds("set") \union Kinds("get")

(* A result that is shown belongs to the mode and the key that stand next  *)
(* to it, unless one of them was edited, or a second request sent, while   *)
(* an answer was on its way ("Key not found" may then stand next to a key  *)
(* nobody asked for).  A request, once answered, is over: the user may     *)
(* edit at any other time.                                                 *)
ResultOfShownRequest ==
    ~meddled /\ kvResult # Blank => kvResult.request = [mode |-> kvMode, key |-> kvKey]

(* The strip waits for nobody: it never shows that it waits when no answer *)
(* is on its way.  And it offers the button only then, unless the user     *)
(* meddled (the first of two answers ends the waiting for both).           *)
BusyWhilePending ==
    /\ kvLoading => sent # Quiet
    /\ ~meddled /\ sent # Quiet => kvLoading
=============================================================================
