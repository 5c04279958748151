-------------------------------- MODULE Feed --------------------------------
(***************************************************************************)
(* The dashboard's event stream: the effect of web/src/App.tsx that opens  *)
(* a WebSocket, reopens it when it closes, and keeps a list of events.     *)
(*                                                                         *)
(* Every mount of the effect has closure variables of its own (the socket, *)
(* the two timers, retryCount); the component's state is shared by all.    *)
(* main.tsx renders in StrictMode, so that a development build mounts the  *)
(* effect, cleans it up and mounts it again; so does every hot reload.     *)
(*                                                                         *)
(* The server (internal/api/server.go, internal/observe/eventbus.go) sends *)
(* the events published after the subscription, in order, except those     *)
(* for which the subscriber's channel is full.  An event is its number.    *)
(***************************************************************************)
EXTENDS Integers, Sequences, FiniteSetsExt

CONSTANTS
    MaxLog,        \* length of the list of events (50)
    MaxMounts,     \* bound: how often the effect is mounted
    MaxPublished,  \* bound: events published
    TypeOf         \* the type of each event

EventType == {"gossip", "replication", "key_op", "node_status", "cluster_health"}

ASSUME FeedAssumption ==
    /\ MaxLog \in Nat \ {0} /\ MaxMounts \in Nat \ {0} /\ MaxPublished \in Nat
    /\ TypeOf \in [1 .. MaxPublished -> EventType]

Mounts == 1 .. MaxMounts

NoTimer == 0

VARIABLES
    up,                \* whether the node can be reached
    published,         \* events published by the node so far
    mounted,           \* the mount that is not cleaned up
    socket,            \* per mount: readyState, or "none" before the mount
    reconnectTimeout,  \* per mount: the delay of the pending timer
    heartbeats,        \* per mount: intervals that run
    beating,           \* per mount: whether heartbeatInterval is one of them
    retryCount,        \* per mount
    due,               \* per mount: the next event the node has for its socket
    isConnected, events,  \* state of the component
    activeKeyOp, activeNodeEvent,  \* likewise: the events that the ring animates
    failures,          \* history, per mount: closes since it was last open
    waiting            \* history: mounts cleaned up while they waited to retry

received == <<events, activeKeyOp, activeNodeEvent>>

feedVars == <<up, published, mounted, socket, reconnectTimeout, heartbeats, beating,
              retryCount, due, isConnected, received, failures, waiting>>

NoEvent == 0

-----------------------------------------------------------------------------
(* From 2^4 on the delay no longer grows: retryCount stops at 4, and the   *)
(* number of failures at 5.                                                *)
Settled == 4

backoffFromTwo(r) == Min({1000 * 2^(r + 1), 15000})

backoffGivingUp(r) == IF r = Settled THEN NoTimer ELSE 1000 * 2^r

backoff(r) == Min({1000 * 2^r, 15000})

keepInterval(m) == UNCHANGED <<heartbeats, beating>>

clearInterval(m) ==
    /\ heartbeats' = [heartbeats EXCEPT ![m] = IF beating[m] THEN @ - 1 ELSE @]
    /\ beating' = [beating EXCEPT ![m] = FALSE]

(* ws.onopen, which also refreshes the cluster view (module Console).      *)
OnOpen(m) ==
    /\ up /\ socket[m] = "connecting"
    /\ socket' = [socket EXCEPT ![m] = "open"]
    /\ isConnected' = TRUE
    /\ retryCount' = [retryCount EXCEPT ![m] = 0]
    /\ heartbeats' = [heartbeats EXCEPT ![m] = @ + 1]
    /\ beating' = [beating EXCEPT ![m] = TRUE]
    /\ due' = [due EXCEPT ![m] = published + 1]
    /\ failures' = [failures EXCEPT ![m] = 0]
    /\ UNCHANGED <<up, published, mounted, reconnectTimeout, received, waiting>>

(* The list after an event: [event, ...prev.slice(0, 49)].                 *)
Appended(e) == SubSeq(events, 1, Min({Len(events), MaxLog - 1})) \o <<e>>

Prepended(e) == <<e>> \o SubSeq(events, 1, Min({Len(events), MaxLog - 1}))

OnMessage(m) ==
    /\ socket[m] = "open" /\ due[m] <= published
    /\ events' = Prepended(due[m])
    /\ activeKeyOp' = IF TypeOf[due[m]] = "key_op" THEN due[m] ELSE activeKeyOp
    /\ activeNodeEvent' = IF TypeOf[due[m]] = "node_status" THEN due[m] ELSE activeNodeEvent
    /\ due' = [due EXCEPT ![m] = @ + 1]
    /\ UNCHANGED <<up, published, mounted, socket, reconnectTimeout, heartbeats,
                   beating, retryCount, isConnected, failures, waiting>>

liveUntilRetry(m) == isConnected /\ retryCount[m] = 0

liveAfterClose(m) == FALSE

(* ws.onclose: after a failed or lost connection (onerror only closes what *)
(* is closing anyway), or after the cleanup's close, when nobody wants to  *)
(* connect again but the handler does not know.                            *)
OnClose(m) ==
    /\ socket[m] \in {"closing"} \union (IF up THEN {} ELSE {"connecting", "open"})
    /\ socket' = [socket EXCEPT ![m] = "closed"]
    /\ isConnected' = liveAfterClose(m)
    /\ clearInterval(m)
    /\ reconnectTimeout' = [reconnectTimeout EXCEPT ![m] = backoff(retryCount[m])]
    /\ failures' = [failures EXCEPT ![m] = Min({@ + 1, Settled + 1})]
    /\ UNCHANGED <<up, published, mounted, retryCount, due, received, waiting>>

(* The timer's callback.                                                   *)
Reconnect(m) ==
    /\ reconnectTimeout[m] # NoTimer
    /\ reconnectTimeout' = [reconnectTimeout EXCEPT ![m] = NoTimer]
    /\ retryCount' = [retryCount EXCEPT ![m] = Min({@ + 1, Settled})]
    /\ socket' = [socket EXCEPT ![m] = "connecting"]
    /\ UNCHANGED <<up, published, mounted, heartbeats, beating, due, isConnected, received,
                   failures, waiting>>

keepTimeout(m) == reconnectTimeout

clearTimeout(m) == [reconnectTimeout EXCEPT ![m] = NoTimer]

(* The cleanup function, and the next mount's connect().                   *)
Remount ==
    LET m == mounted
    IN  /\ m < MaxMounts
        /\ mounted' = m + 1
        /\ socket' = [socket EXCEPT ![m] = IF @ \in {"connecting", "open"} THEN "closing" ELSE @,
                                    ![m + 1] = "connecting"]
        /\ reconnectTimeout' = clearTimeout(m)
        /\ clearInterval(m)
        /\ waiting' = waiting \union (IF reconnectTimeout[m] # NoTimer THEN {m} ELSE {})
        /\ UNCHANGED <<up, published, retryCount, due, isConnected, received, failures>>

(* The node, and the network to it.                                        *)
Publish ==
    /\ published < MaxPublished
    /\ published' = published + 1
    /\ UNCHANGED <<up, mounted, socket, reconnectTimeout, heartbeats, beating, retryCount,
                   due, isConnected, received, failures, waiting>>

ChannelFull(m) ==
    /\ socket[m] = "open" /\ due[m] <= published
    /\ due' = [due EXCEPT ![m] = @ + 1]
    /\ UNCHANGED <<up, published, mounted, socket, reconnectTimeout, heartbeats, beating,
                   retryCount, isConnected, received, failures, waiting>>

NodeGoesOrComes ==
    /\ up' = ~up
    /\ UNCHANGED <<published, mounted, socket, reconnectTimeout, heartbeats, beating,
                   retryCount, due, isConnected, received, failures, waiting>>

FeedInit ==
    /\ up \in BOOLEAN /\ published = 0
    /\ mounted = 1
    /\ socket = [m \in Mounts |-> IF m = 1 THEN "connecting" ELSE "none"]
    /\ reconnectTimeout = [m \in Mounts |-> NoTimer]
    /\ heartbeats = [m \in Mounts |-> 0] /\ beating = [m \in Mounts |-> FALSE]
    /\ retryCount = [m \in Mounts |-> 0]
    /\ due = [m \in Mounts |-> 1]
    /\ isConnected = FALSE /\ events = <<>>
    /\ activeKeyOp = NoEvent /\ activeNodeEvent = NoEvent
    /\ failures = [m \in Mounts |-> 0] /\ waiting = {}

FeedNext ==
    \/ \E m \in Mounts :
          \/ OnOpen(m) \/ OnMessage(m) \/ OnClose(m) \/ Reconnect(m) \/ ChannelFull(m)
    \/ Remount \/ Publish \/ NodeGoesOrComes

FeedSpec == FeedInit /\ [][FeedNext]_feedVars

(* What the browser's event loop does in the end: report that a socket     *)
(* opened or closed, and run a timer that is due.                          *)
FeedFairness ==
    \A m \in Mounts :
        WF_feedVars(OnOpen(m)) /\ WF_feedVars(OnClose(m)) /\ WF_feedVars(Reconnect(m))
-----------------------------------------------------------------------------
(* What EventLog.tsx shows: the events with their React keys, or the       *)
(* placeholder when there are none.                                        *)
LogEntries == [i \in DOMAIN events |-> [key |-> <<events[i], i>>, event |-> events[i]]]

FeedTypeOK ==
    /\ up \in BOOLEAN /\ isConnected \in BOOLEAN
    /\ published \in 0 .. MaxPublished /\ mounted \in Mounts
    /\ socket \in [Mounts -> {"none", "connecting", "open", "closing", "closed"}]
    /\ reconnectTimeout \in [Mounts -> {NoTimer} \union {backoff(r) : r \in 0 .. Settled}]
    /\ heartbeats \in [Mounts -> Nat] /\ beating \in [Mounts -> BOOLEAN]
    /\ retryCount \in [Mounts -> 0 .. Settled]
    /\ due \in [Mounts -> 1 .. MaxPublished + 1]
    /\ events \in Seq(1 .. MaxPublished)
    /\ activeKeyOp \in 0 .. MaxPublished /\ activeNodeEvent \in 0 .. MaxPublished
    /\ failures \in [Mounts -> 0 .. Settled + 1] /\ waiting \subseteq Mounts

(* "Heartbeat to keep proxy connections alive": as long as a socket of a   *)
(* mount is open, and at no other time, one interval of that mount runs,   *)
(* however often sockets close, reopen, or are cleaned up.                 *)
HeartbeatsOfOpenSockets ==
    \A m \in Mounts : heartbeats[m] = IF socket[m] = "open" THEN 1 ELSE 0

(* "Live" and "Reconnecting" in the header say how the socket is, as long  *)
(* as the effect is mounted once.  (After a second mount the late onclose  *)
(* of the first puts "Reconnecting" over a live second one.)               *)
LiveMeansOpen == mounted = 1 => (isConnected <=> socket[1] = "open")

(* The log of an effect that is mounted once shows no event twice, newest  *)
(* first, and no more than it should, across any number of reconnections   *)
(* and dropped events.  (A second mount's socket and a first one that the  *)
(* cleanup did not stop deliver every event twice.)  And for any number of *)
(* mounts, the key operation and the change of a node that the ring        *)
(* animates are the topmost of their types in the log.                     *)
Topmost(type, active) ==
    \A i \in DOMAIN events :
        TypeOf[events[i]] = type => \E j \in 1 .. i : events[j] = active

LogInOrder ==
    /\ Len(LogEntries) <= MaxLog
    /\ mounted = 1 => \A i, j \in DOMAIN LogEntries :
                          i < j => LogEntries[i].event > LogEntries[j].event
    /\ Topmost("key_op", activeKeyOp) /\ Topmost("node_status", activeNodeEvent)

(* A mount that waited for its timer when it was cleaned up stays closed.  *)
(* (One whose socket was not closed yet reconnects: its onclose comes      *)
(* after the cleanup and sets the timer again.)                            *)
WaitingMountsEnd ==
    \A m \in waiting : socket[m] = "closed" /\ reconnectTimeout[m] = NoTimer

(* "Exponential backoff: 1s, 2s, 4s, 8s, max 15s": the delay follows the   *)
(* number of failures since the socket was last open.                      *)
BackoffDoubles ==
    \A m \in Mounts :
        reconnectTimeout[m] # NoTimer =>
            reconnectTimeout[m] = <<1000, 2000, 4000, 8000, 15000>>[failures[m]]

(* When the node is reachable for good the dashboard is live for good.     *)
ReconnectsInTheEnd == <>[]up => <>[]isConnected
=============================================================================
