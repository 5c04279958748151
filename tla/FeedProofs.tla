----------------------------- MODULE FeedProofs -----------------------------
(***************************************************************************)
(* Proofs about the way of an event: from node to node (Relay), and from a *)
(* node to the page (Feed), for any number of nodes, events, forgotten     *)
(* events and crashes; for a list of any length and any number of mounts.  *)
(* That the stream comes back stays with TLC.                              *)
(***************************************************************************)
EXTENDS Feed, Relay, SequenceTheorems, WellFoundedInduction, TLAPS

LEMMA MinOfTwo == \A a, b \in Int : Min({a, b}) = IF a <= b THEN a ELSE b
  <1> SUFFICES ASSUME NEW a \in Int, NEW b \in Int
               PROVE  Min({a, b}) = IF a <= b THEN a ELSE b
    OBVIOUS
  <1> DEFINE Least(x) == x \in {a, b} /\ \A y \in {a, b} : x <= y
  <1>1. Least(IF a <= b THEN a ELSE b)
    OBVIOUS
  <1>2. \A x : Least(x) => x = IF a <= b THEN a ELSE b
    OBVIOUS
  <1>3. Min({a, b}) = CHOOSE x : Least(x)
    BY DEF Min
  <1> HIDE DEF Least
  <1> QED  BY <1>1, <1>2, <1>3

-----------------------------------------------------------------------------
(* A socket beats while it is open, a timer waits for a closed socket, a   *)
(* mount to come has none, and one that waited when it was cleaned up is   *)
(* closed for good.                                                        *)
SocketInv(m) ==
    /\ heartbeats[m] = (IF socket[m] = "open" THEN 1 ELSE 0)
    /\ beating[m] <=> socket[m] = "open"
    /\ reconnectTimeout[m] # NoTimer => socket[m] = "closed"
    /\ m > mounted => socket[m] = "none"
    /\ m \in waiting => m < mounted /\ socket[m] = "closed" /\ reconnectTimeout[m] = NoTimer
    /\ due[m] <= published + 1

(* The first mount, as long as it is the only one.                         *)
OnlyMountInv ==
    /\ isConnected <=> socket[1] = "open"
    /\ \A i, j \in 1 .. Len(events) : i < j => events[i] > events[j]
    /\ \A i \in 1 .. Len(events) : events[i] < due[1]

FeedInv ==
    /\ FeedTypeOK
    /\ \A m \in Mounts : SocketInv(m)
    /\ Len(events) <= MaxLog
    /\ Topmost("key_op", activeKeyOp) /\ Topmost("node_status", activeNodeEvent)
    /\ mounted = 1 => OnlyMountInv

(* The list with an event put before it.                                   *)
LEMMA PrependedEvents ==
    ASSUME FeedTypeOK, Len(events) <= MaxLog, NEW e \in 1 .. MaxPublished
    PROVE  /\ Prepended(e) \in Seq(1 .. MaxPublished)
           /\ Len(Prepended(e)) \in Nat /\ Len(Prepended(e)) <= MaxLog
           /\ Len(Prepended(e)) <= Len(events) + 1
           /\ Prepended(e)[1] = e
           /\ \A i \in 1 .. Len(Prepended(e)) : i > 1 => Prepended(e)[i] = events[i - 1]
  <1> DEFINE n == Min({Len(events), MaxLog - 1})
  <1>1. events \in Seq(1 .. MaxPublished) /\ Len(events) \in Nat
    BY DEF FeedTypeOK
  <1>2. n \in 0 .. Len(events) /\ n <= MaxLog - 1
    <2>1. Len(events) \in Int /\ MaxLog - 1 \in Int /\ MaxLog - 1 >= 0
      BY <1>1, FeedAssumption
    <2>2. n = IF Len(events) <= MaxLog - 1 THEN Len(events) ELSE MaxLog - 1
      BY <2>1, MinOfTwo
    <2> QED  BY <1>1, <2>1, <2>2
  <1> HIDE DEF n
  <1>3. /\ SubSeq(events, 1, n) \in Seq(1 .. MaxPublished)
        /\ Len(SubSeq(events, 1, n)) = n
        /\ \A i \in 1 .. n : SubSeq(events, 1, n)[i] = events[i]
    <2>1. ASSUME NEW i \in 1 .. n PROVE events[i] \in 1 .. MaxPublished
      <3>1. i \in 1 .. Len(events)
        BY <1>1, <1>2
      <3> QED  BY <1>1, <3>1, ElementOfSeq
    <2>2. n \in Int
      BY <1>1, <1>2
    <2> QED  BY <1>1, <1>2, <2>1, <2>2, SubSeqProperties
  <1>4. Prepended(e) = <<e>> \o SubSeq(events, 1, n)
    BY DEF Prepended, n
  <1>5. Prepended(e) \in Seq(1 .. MaxPublished) /\ Len(Prepended(e)) = 1 + n
    BY <1>3, <1>4
  <1>6. \A i \in 1 .. 1 + n : Prepended(e)[i] = IF i = 1 THEN e ELSE events[i - 1]
    BY <1>2, <1>3, <1>4
  <1> QED  BY <1>1, <1>2, <1>5, <1>6, FeedAssumption

(* An event put before the list takes the place of the one it replaces.    *)
LEMMA TopmostAfterEvent ==
    ASSUME FeedTypeOK, Len(events) <= MaxLog, NEW e \in 1 .. MaxPublished,
           events' = Prepended(e),
           NEW type, NEW a, NEW b, Topmost(type, a), b = IF TypeOf[e] = type THEN e ELSE a
    PROVE  \A i \in 1 .. Len(events') :
               TypeOf[events'[i]] = type => \E j \in 1 .. i : events'[j] = b
  <1> SUFFICES ASSUME NEW i \in 1 .. Len(events'), TypeOf[events'[i]] = type
               PROVE  \E j \in 1 .. i : events'[j] = b
    OBVIOUS
  <1>1. /\ Len(events') \in Nat /\ Len(events') <= Len(events) + 1 /\ events'[1] = e
        /\ \A k \in 1 .. Len(events') : k > 1 => events'[k] = events[k - 1]
    BY PrependedEvents
  <1>2. Len(events) \in Nat /\ DOMAIN events = 1 .. Len(events) /\ i \in Nat
    BY <1>1 DEF FeedTypeOK
  <1>3. CASE TypeOf[e] = type
    <2>1. 1 \in 1 .. i /\ events'[1] = b
      BY <1>1, <1>2, <1>3
    <2> QED  BY <2>1
  <1>4. CASE TypeOf[e] # type
    <2>1. i > 1 /\ events'[i] = events[i - 1] /\ i - 1 \in 1 .. Len(events)
      BY <1>1, <1>2, <1>4
    <2>2. PICK j \in 1 .. i - 1 : events[j] = a
      BY <1>2, <2>1 DEF Topmost
    <2>3. j + 1 \in 1 .. i /\ j + 1 > 1 /\ j + 1 \in 1 .. Len(events') /\ j + 1 - 1 = j
      BY <1>1, <1>2, <2>1
    <2>4. events'[j + 1] = b
      BY <1>1, <1>4, <2>2, <2>3
    <2> QED  BY <2>3, <2>4
  <1> QED  BY <1>3, <1>4

(* What the actions of one socket leave alone.                             *)
LEMMA OtherSockets ==
    ASSUME FeedInv, NEW m \in Mounts,
           \A k \in Mounts \ {m} :
               /\ socket'[k] = socket[k] /\ reconnectTimeout'[k] = reconnectTimeout[k]
               /\ heartbeats'[k] = heartbeats[k] /\ beating'[k] = beating[k]
               /\ due'[k] = due[k],
           mounted' = mounted, waiting' = waiting, published' = published
    PROVE  \A k \in Mounts \ {m} : SocketInv(k)'
  BY DEF FeedInv, SocketInv

LEMMA OnOpenStep == ASSUME FeedInv, NEW m \in Mounts, OnOpen(m) PROVE FeedInv'
  <1> USE FeedAssumption DEF received
  <1>1. SocketInv(m) /\ FeedTypeOK
    BY DEF FeedInv
  <1>2. FeedTypeOK'
    <2>1. /\ socket' \in [Mounts -> {"none", "connecting", "open", "closing", "closed"}]
          /\ heartbeats' \in [Mounts -> Nat] /\ beating' \in [Mounts -> BOOLEAN]
      BY <1>1 DEF OnOpen, FeedTypeOK
    <2>2. retryCount' \in [Mounts -> 0 .. Settled] /\ failures' \in [Mounts -> 0 .. Settled + 1]
      BY <1>1 DEF OnOpen, FeedTypeOK, Settled
    <2>3. due' \in [Mounts -> 1 .. MaxPublished + 1]
      BY <1>1 DEF OnOpen, FeedTypeOK
    <2> QED  BY <1>1, <2>1, <2>2, <2>3 DEF OnOpen, FeedTypeOK
  <1>3. \A k \in Mounts \ {m} : SocketInv(k)'
    BY <1>1, OtherSockets DEF OnOpen, FeedTypeOK
  <1>4. SocketInv(m)'
    BY <1>1 DEF OnOpen, SocketInv, FeedTypeOK
  <1>5. mounted' = 1 => OnlyMountInv'
    <2> SUFFICES ASSUME mounted = 1 PROVE OnlyMountInv'
      BY DEF OnOpen
    <2>1. m = 1
      BY <1>1 DEF OnOpen, SocketInv, Mounts
    <2>2. isConnected' /\ socket'[1] = "open" /\ due'[1] = published + 1 /\ events' = events
      BY <1>1, <2>1 DEF OnOpen, FeedTypeOK
    <2>3. /\ due[1] <= published + 1 /\ due[1] \in Nat /\ published \in Nat
          /\ \A i \in 1 .. Len(events) : events[i] \in Nat
      BY <1>1, <2>1 DEF FeedTypeOK, SocketInv
    <2>4. OnlyMountInv
      BY DEF FeedInv
    <2>5. \A i \in 1 .. Len(events) : events[i] < due'[1]
      BY <2>2, <2>3, <2>4 DEF OnlyMountInv
    <2> QED  BY <2>2, <2>4, <2>5 DEF OnlyMountInv
  <1> QED  BY <1>2, <1>3, <1>4, <1>5 DEF FeedInv, OnOpen, Topmost

LEMMA OnMessageStep == ASSUME FeedInv, NEW m \in Mounts, OnMessage(m) PROVE FeedInv'
  <1> USE FeedAssumption DEF received
  <1>1. SocketInv(m) /\ FeedTypeOK /\ Len(events) <= MaxLog
    BY DEF FeedInv
  <1>2. due[m] \in 1 .. MaxPublished /\ published \in Nat
    BY <1>1 DEF OnMessage, FeedTypeOK
  <1>3. /\ events' \in Seq(1 .. MaxPublished)
        /\ Len(events') \in Nat /\ Len(events') <= MaxLog /\ Len(events') <= Len(events) + 1
        /\ events'[1] = due[m]
        /\ \A i \in 1 .. Len(events') : i > 1 => events'[i] = events[i - 1]
    BY <1>1, <1>2, PrependedEvents DEF OnMessage
  <1>4. FeedTypeOK'
    <2>1. due' \in [Mounts -> 1 .. MaxPublished + 1]
      BY <1>1, <1>2 DEF OnMessage, FeedTypeOK
    <2>2. activeKeyOp' \in 0 .. MaxPublished /\ activeNodeEvent' \in 0 .. MaxPublished
      BY <1>1, <1>2 DEF OnMessage, FeedTypeOK
    <2> QED  BY <1>1, <1>3, <2>1, <2>2 DEF OnMessage, FeedTypeOK
  <1>5. \A k \in Mounts \ {m} : SocketInv(k)'
    BY <1>1, OtherSockets DEF OnMessage, FeedTypeOK
  <1>6. due'[m] = due[m] + 1
    BY <1>1 DEF OnMessage, FeedTypeOK
  <1>7. SocketInv(m)'
    BY <1>1, <1>2, <1>6 DEF OnMessage, SocketInv
  <1>8. ASSUME mounted = 1 PROVE OnlyMountInv'
    <2>1. m = 1
      BY <1>1, <1>8 DEF OnMessage, SocketInv, Mounts
    <2>2. /\ \A i, j \in 1 .. Len(events) : i < j => events[i] > events[j]
          /\ \A i \in 1 .. Len(events) : events[i] < due[1]
      BY <1>8 DEF FeedInv, OnlyMountInv
    <2>3. \A i \in 1 .. Len(events) : events[i] \in Nat
      BY <1>1 DEF FeedTypeOK
    <2>4. Len(events) \in Nat
      BY <1>1 DEF FeedTypeOK
    <2>5. \A i \in 1 .. Len(events') : i > 1 => i - 1 \in 1 .. Len(events)
      BY <1>3, <2>4
    <2>6. \A i \in 1 .. Len(events') : events'[i] <= due[1]
      <3> SUFFICES ASSUME NEW i \in 1 .. Len(events') PROVE events'[i] <= due[1]
        OBVIOUS
      <3>1. CASE i = 1
        BY <1>2, <1>3, <2>1, <3>1
      <3>2. CASE i # 1
        <4>1. i > 1 /\ events'[i] = events[i - 1] /\ i - 1 \in 1 .. Len(events)
          BY <1>3, <2>5, <3>2
        <4> QED  BY <1>2, <2>1, <2>2, <2>3, <4>1
      <3> QED  BY <3>1, <3>2
    <2>7. \A i, j \in 1 .. Len(events') : i < j => events'[i] > events'[j]
      <3> SUFFICES ASSUME NEW i \in 1 .. Len(events'), NEW j \in 1 .. Len(events'), i < j
                   PROVE  events'[i] > events'[j]
        OBVIOUS
      <3>1. events'[j] = events[j - 1] /\ j - 1 \in 1 .. Len(events)
        BY <1>3, <2>5
      <3>2. CASE i = 1
        BY <1>2, <1>3, <2>1, <2>2, <2>3, <3>1, <3>2
      <3>3. CASE i > 1
        <4>1. events'[i] = events[i - 1] /\ i - 1 \in 1 .. Len(events) /\ i - 1 < j - 1
          BY <1>3, <2>5, <3>3
        <4> QED  BY <2>2, <3>1, <4>1
      <3> QED  BY <3>2, <3>3
    <2>8. isConnected' <=> socket'[1] = "open"
      BY <1>8 DEF OnMessage, FeedInv, OnlyMountInv
    <2>9. \A i \in 1 .. Len(events') : events'[i] < due'[1]
      <3> SUFFICES ASSUME NEW i \in 1 .. Len(events') PROVE events'[i] < due'[1]
        OBVIOUS
      <3>1. events'[i] \in Nat
        BY <1>3
      <3> QED  BY <1>2, <1>6, <2>1, <2>6, <3>1
    <2> QED  BY <2>7, <2>8, <2>9 DEF OnlyMountInv
  <1>9. events' = Prepended(due[m]) /\ DOMAIN events' = 1 .. Len(events')
    BY <1>3 DEF OnMessage
  <1>10. Topmost("key_op", activeKeyOp)'
    <2>1. /\ Topmost("key_op", activeKeyOp)
          /\ activeKeyOp' = IF TypeOf[due[m]] = "key_op" THEN due[m] ELSE activeKeyOp
      BY DEF FeedInv, OnMessage
    <2>2. \A i \in 1 .. Len(events') :
              TypeOf[events'[i]] = "key_op" => \E j \in 1 .. i : events'[j] = activeKeyOp'
      BY <1>1, <1>2, <1>9, <2>1, TopmostAfterEvent
    <2> QED  BY <1>9, <2>2 DEF Topmost
  <1>11. Topmost("node_status", activeNodeEvent)'
    <2>1. /\ Topmost("node_status", activeNodeEvent)
          /\ activeNodeEvent' = IF TypeOf[due[m]] = "node_status" THEN due[m]
                                ELSE activeNodeEvent
      BY DEF FeedInv, OnMessage
    <2>2. \A i \in 1 .. Len(events') : TypeOf[events'[i]] = "node_status"
              => \E j \in 1 .. i : events'[j] = activeNodeEvent'
      BY <1>1, <1>2, <1>9, <2>1, TopmostAfterEvent
    <2> QED  BY <1>9, <2>2 DEF Topmost
  <1> QED  BY <1>3, <1>4, <1>5, <1>7, <1>8, <1>10, <1>11 DEF FeedInv, OnMessage

LEMMA OnCloseStep == ASSUME FeedInv, NEW m \in Mounts, OnClose(m) PROVE FeedInv'
  <1> USE FeedAssumption DEF received
  <1>1. SocketInv(m) /\ FeedTypeOK
    BY DEF FeedInv
  <1>2. socket[m] # "closed"
    BY DEF OnClose
  <1>3. heartbeats' = [heartbeats EXCEPT ![m] = IF beating[m] THEN heartbeats[m] - 1
                                                 ELSE heartbeats[m]]
        /\ beating' = [beating EXCEPT ![m] = FALSE]
    BY DEF OnClose, clearInterval
  <1>4. heartbeats' \in [Mounts -> Nat] /\ heartbeats'[m] = 0 /\ ~beating'[m]
    BY <1>1, <1>3 DEF SocketInv, FeedTypeOK
  <1>5. reconnectTimeout' \in [Mounts -> {NoTimer} \union {backoff(r) : r \in 0 .. Settled}]
    BY <1>1 DEF OnClose, FeedTypeOK
  <1>6. failures' \in [Mounts -> 0 .. Settled + 1]
    <2>1. failures[m] \in 0 .. 5 /\ failures \in [Mounts -> 0 .. Settled + 1]
      BY <1>1 DEF FeedTypeOK, Settled
    <2>2. Min({failures[m] + 1, Settled + 1}) \in 0 .. 5
      BY <2>1, MinOfTwo DEF Settled
    <2> QED  BY <2>1, <2>2 DEF OnClose, Settled
  <1>7. FeedTypeOK'
    BY <1>1, <1>3, <1>4, <1>5, <1>6 DEF OnClose, FeedTypeOK, liveAfterClose
  <1>8. \A k \in Mounts \ {m} : SocketInv(k)'
    BY <1>1, <1>3, OtherSockets DEF OnClose, FeedTypeOK
  <1>9. socket'[m] = "closed"
    BY <1>1 DEF OnClose, FeedTypeOK
  <1>10. SocketInv(m)'
    <2>1. m \notin waiting /\ ~(m > mounted)
      BY <1>1, <1>2 DEF OnClose, SocketInv
    <2>2. UNCHANGED <<waiting, mounted, due, published>>
      BY DEF OnClose
    <2> QED  BY <1>1, <1>4, <1>9, <2>1, <2>2 DEF SocketInv
  <1>11. ASSUME mounted = 1 PROVE OnlyMountInv'
    <2>1. m = 1
      BY <1>1, <1>11 DEF OnClose, SocketInv, Mounts
    <2>2. isConnected' <=> socket'[1] = "open"
      BY <1>9, <2>1 DEF OnClose, liveAfterClose
    <2> QED  BY <1>11, <2>2 DEF OnClose, FeedInv, OnlyMountInv
  <1> QED  BY <1>7, <1>8, <1>10, <1>11 DEF FeedInv, OnClose, Topmost

LEMMA ReconnectStep == ASSUME FeedInv, NEW m \in Mounts, Reconnect(m) PROVE FeedInv'
  <1> USE FeedAssumption DEF received
  <1>1. SocketInv(m) /\ FeedTypeOK
    BY DEF FeedInv
  <1>2. socket[m] = "closed" /\ m \notin waiting
    BY <1>1 DEF Reconnect, SocketInv
  <1>3. retryCount' \in [Mounts -> 0 .. Settled]
    <2>1. retryCount[m] \in 0 .. 4 /\ retryCount \in [Mounts -> 0 .. Settled]
      BY <1>1 DEF FeedTypeOK, Settled
    <2>2. Min({retryCount[m] + 1, Settled}) \in 0 .. 4
      BY <2>1, MinOfTwo DEF Settled
    <2> QED  BY <2>1, <2>2 DEF Reconnect, Settled
  <1>4. reconnectTimeout' \in [Mounts -> {NoTimer} \union {backoff(r) : r \in 0 .. Settled}]
    BY <1>1 DEF Reconnect, FeedTypeOK
  <1>5. socket' \in [Mounts -> {"none", "connecting", "open", "closing", "closed"}]
        /\ socket'[m] = "connecting"
    BY <1>1 DEF Reconnect, FeedTypeOK
  <1>6. FeedTypeOK'
    BY <1>1, <1>3, <1>4, <1>5 DEF Reconnect, FeedTypeOK
  <1>7. \A k \in Mounts \ {m} : SocketInv(k)'
    BY <1>1, OtherSockets DEF Reconnect, FeedTypeOK
  <1>8. reconnectTimeout'[m] = NoTimer
    BY <1>1 DEF Reconnect, FeedTypeOK
  <1>9. SocketInv(m)'
    BY <1>1, <1>2, <1>5, <1>8 DEF Reconnect, SocketInv
  <1>10. mounted = 1 => OnlyMountInv'
    BY <1>2, <1>5, <1>7, <1>1 DEF Reconnect, FeedInv, OnlyMountInv, SocketInv, Mounts
  <1> QED  BY <1>6, <1>7, <1>9, <1>10 DEF FeedInv, Reconnect, Topmost

LEMMA RemountStep == ASSUME FeedInv, Remount PROVE FeedInv'
  <1> USE FeedAssumption DEF received
  <1>0. PICK m \in Mounts : m = mounted
    BY DEF FeedInv, FeedTypeOK
  <1>1. SocketInv(m) /\ FeedTypeOK /\ m \in Mounts /\ m + 1 \in Mounts /\ m \in Nat
        /\ m + 1 # m /\ m + 1 > m
    <2>1. m < MaxMounts
      BY <1>0 DEF Remount
    <2> QED  BY <1>0, <2>1 DEF FeedInv, Mounts
  <1>2. mounted' = m + 1
    BY <1>0 DEF Remount
  <1>3. /\ \A k \in Mounts : socket'[k] =
               IF k = m + 1 THEN "connecting"
               ELSE IF k = m /\ socket[k] \in {"connecting", "open"} THEN "closing"
               ELSE socket[k]
        /\ socket' \in [Mounts -> {"none", "connecting", "open", "closing", "closed"}]
    <2>1. socket \in [Mounts -> {"none", "connecting", "open", "closing", "closed"}]
      BY <1>1 DEF FeedTypeOK
    <2>2. socket' = [socket EXCEPT ![m] = IF socket[m] \in {"connecting", "open"} THEN "closing"
                                           ELSE socket[m],
                                   ![m + 1] = "connecting"]
      BY <1>0 DEF Remount
    <2> QED  BY <1>1, <2>1, <2>2
  <1>4. reconnectTimeout' = [reconnectTimeout EXCEPT ![m] = NoTimer]
    BY <1>0 DEF Remount, clearTimeout
  <1>5. heartbeats' = [heartbeats EXCEPT ![m] = IF beating[m] THEN heartbeats[m] - 1
                                                 ELSE heartbeats[m]]
        /\ beating' = [beating EXCEPT ![m] = FALSE]
    BY <1>0 DEF Remount, clearInterval
  <1>6. heartbeats' \in [Mounts -> Nat] /\ heartbeats'[m] = 0 /\ ~beating'[m]
    BY <1>1, <1>5 DEF SocketInv, FeedTypeOK
  <1>7. waiting' = waiting \union (IF reconnectTimeout[m] # NoTimer THEN {m} ELSE {})
    BY <1>0 DEF Remount
  <1>8. FeedTypeOK'
    <2>1. reconnectTimeout' \in [Mounts -> {NoTimer} \union {backoff(r) : r \in 0 .. Settled}]
      BY <1>1, <1>4 DEF FeedTypeOK
    <2>2. beating' \in [Mounts -> BOOLEAN] /\ waiting' \subseteq Mounts
      BY <1>1, <1>5, <1>7 DEF FeedTypeOK
    <2> QED  BY <1>1, <1>2, <1>3, <1>6, <2>1, <2>2 DEF Remount, FeedTypeOK
  <1>9. SocketInv(m)'
    <2>1. reconnectTimeout'[m] = NoTimer /\ socket'[m] # "open"
      BY <1>1, <1>3, <1>4 DEF FeedTypeOK
    <2>2. m \in waiting' => socket'[m] = "closed"
      BY <1>1, <1>3, <1>7 DEF SocketInv
    <2>3. UNCHANGED <<due, published>>
      BY DEF Remount
    <2>4. ~(m > mounted') /\ m < mounted'
      BY <1>1, <1>2
    <2> QED  BY <1>1, <1>6, <2>1, <2>2, <2>3, <2>4 DEF SocketInv
  <1>10. SocketInv(m + 1)'
    <2>1. SocketInv(m + 1) /\ socket[m + 1] = "none" /\ m + 1 \notin waiting
      BY <1>0, <1>1 DEF FeedInv, SocketInv
    <2>2. /\ socket'[m + 1] = "connecting" /\ m + 1 \notin waiting'
          /\ heartbeats'[m + 1] = heartbeats[m + 1] /\ beating'[m + 1] = beating[m + 1]
          /\ reconnectTimeout'[m + 1] = reconnectTimeout[m + 1]
      <3>1. socket'[m + 1] = "connecting" /\ m + 1 \notin waiting'
        BY <1>1, <1>3, <1>7, <2>1
      <3>2. heartbeats'[m + 1] = heartbeats[m + 1] /\ beating'[m + 1] = beating[m + 1]
        BY <1>1, <1>5 DEF FeedTypeOK
      <3>3. reconnectTimeout'[m + 1] = reconnectTimeout[m + 1]
        BY <1>1, <1>4 DEF FeedTypeOK
      <3> QED  BY <3>1, <3>2, <3>3
    <2>3. UNCHANGED <<due, published>> /\ ~(m + 1 > mounted')
      BY <1>1, <1>2 DEF Remount
    <2> QED  BY <2>1, <2>2, <2>3 DEF SocketInv
  <1>11. ASSUME NEW k \in Mounts, k # m, k # m + 1 PROVE SocketInv(k)'
    <2>1. SocketInv(k)
      BY DEF FeedInv
    <2>2. /\ socket'[k] = socket[k] /\ (k \in waiting' <=> k \in waiting)
          /\ heartbeats'[k] = heartbeats[k] /\ beating'[k] = beating[k]
          /\ reconnectTimeout'[k] = reconnectTimeout[k] /\ due'[k] = due[k]
      BY <1>1, <1>3, <1>4, <1>5, <1>7, <1>11 DEF FeedTypeOK, Remount
    <2>3. (k > mounted' => k > mounted) /\ (k < mounted => k < mounted')
      BY <1>0, <1>1, <1>2, <1>11 DEF Mounts
    <2>4. published' = published
      BY DEF Remount
    <2> QED  BY <2>1, <2>2, <2>3, <2>4 DEF SocketInv
  <1>12. mounted' # 1
    BY <1>1, <1>2 DEF Mounts
  <1>13. /\ Len(events') <= MaxLog
         /\ Topmost("key_op", activeKeyOp)' /\ Topmost("node_status", activeNodeEvent)'
    BY DEF FeedInv, Remount, Topmost
  <1>14. \A k \in Mounts : SocketInv(k)'
    BY <1>9, <1>10, <1>11
  <1> QED  BY <1>8, <1>12, <1>13, <1>14 DEF FeedInv

LEMMA ServerStep ==
    ASSUME FeedInv,
           Publish \/ NodeGoesOrComes \/ UNCHANGED feedVars
           \/ \E m \in Mounts : ChannelFull(m)
    PROVE  FeedInv'
  <1> USE FeedAssumption DEF received
  <1>1. FeedTypeOK /\ published \in Nat /\ \A m \in Mounts : due[m] \in Nat
    BY DEF FeedInv, FeedTypeOK
  <1>2. CASE Publish
    <2>1. FeedTypeOK'
      BY <1>1, <1>2 DEF Publish, FeedTypeOK
    <2>2. \A m \in Mounts : SocketInv(m)'
      BY <1>1, <1>2 DEF Publish, SocketInv, FeedInv
    <2> QED  BY <1>2, <2>1, <2>2 DEF Publish, FeedInv, OnlyMountInv, Topmost
  <1>3. CASE NodeGoesOrComes
    <2>1. FeedTypeOK'
      BY <1>1, <1>3 DEF NodeGoesOrComes, FeedTypeOK
    <2> QED  BY <1>3, <2>1 DEF NodeGoesOrComes, FeedInv, OnlyMountInv, SocketInv, Topmost
  <1>4. ASSUME NEW m \in Mounts, ChannelFull(m) PROVE FeedInv'
    <2>1. due[m] <= published /\ published <= MaxPublished
      BY <1>1, <1>4 DEF ChannelFull, FeedTypeOK
    <2>2. /\ \A k \in Mounts : due'[k] = IF k = m THEN due[m] + 1 ELSE due[k]
          /\ due' \in [Mounts -> 1 .. MaxPublished + 1]
      BY <1>1, <1>4, <2>1 DEF ChannelFull, FeedTypeOK
    <2>3. FeedTypeOK'
      BY <1>1, <1>4, <2>2 DEF ChannelFull, FeedTypeOK
    <2>4. \A k \in Mounts : SocketInv(k)'
      BY <1>1, <1>4, <2>1, <2>2 DEF ChannelFull, FeedInv, SocketInv
    <2>5. ASSUME mounted = 1 PROVE OnlyMountInv'
      <3>1. 1 \in Mounts /\ due[1] <= due'[1] /\ due[1] \in Nat /\ due'[1] \in Nat
        BY <1>1, <2>2 DEF Mounts
      <3>2. \A i \in 1 .. Len(events) : events[i] \in Nat
        <4>1. events \in Seq(1 .. MaxPublished)
          BY <1>1 DEF FeedTypeOK
        <4>2. ASSUME NEW i \in 1 .. Len(events) PROVE events[i] \in 1 .. MaxPublished
          BY <4>1, ElementOfSeq
        <4> QED  BY <4>2
      <3> QED  BY <1>4, <2>5, <3>1, <3>2 DEF ChannelFull, FeedInv, OnlyMountInv
    <2> QED  BY <1>4, <2>3, <2>4, <2>5 DEF ChannelFull, FeedInv, Topmost
  <1>5. CASE UNCHANGED feedVars
    BY <1>5 DEF feedVars, FeedInv, FeedTypeOK, SocketInv, OnlyMountInv, Topmost
  <1> QED  BY <1>2, <1>3, <1>4, <1>5

LEMMA FeedInitially == FeedInit => FeedInv
  <1> SUFFICES ASSUME FeedInit PROVE FeedInv
    OBVIOUS
  <1> USE FeedAssumption DEF received
  <1>0. 1 \in Mounts /\ \A m \in Mounts : m \in Nat /\ ~(m < 1)
    BY DEF Mounts
  <1>1. FeedTypeOK
    <2>1. /\ socket \in [Mounts -> {"none", "connecting", "open", "closing", "closed"}]
          /\ reconnectTimeout \in [Mounts -> {NoTimer} \union {backoff(r) : r \in 0 .. Settled}]
          /\ heartbeats \in [Mounts -> Nat] /\ beating \in [Mounts -> BOOLEAN]
      BY DEF FeedInit
    <2>2. /\ retryCount \in [Mounts -> 0 .. Settled] /\ failures \in [Mounts -> 0 .. Settled + 1]
          /\ due \in [Mounts -> 1 .. MaxPublished + 1]
      BY DEF FeedInit, Settled
    <2>3. events \in Seq(1 .. MaxPublished)
      BY DEF FeedInit
    <2>4. up \in BOOLEAN /\ isConnected \in BOOLEAN
      BY DEF FeedInit
    <2>5. /\ published \in 0 .. MaxPublished
          /\ activeKeyOp \in 0 .. MaxPublished /\ activeNodeEvent \in 0 .. MaxPublished
      BY DEF FeedInit, NoEvent
    <2>6. mounted \in Mounts /\ waiting \subseteq Mounts
      BY <1>0 DEF FeedInit
    <2> QED  BY <2>1, <2>2, <2>3, <2>4, <2>5, <2>6 DEF FeedTypeOK
  <1>2. \A m \in Mounts : SocketInv(m)
    BY <1>0 DEF SocketInv, FeedInit
  <1>3. OnlyMountInv /\ Len(events) <= MaxLog
    BY <1>0 DEF OnlyMountInv, FeedInit
  <1>4. Topmost("key_op", activeKeyOp) /\ Topmost("node_status", activeNodeEvent)
    BY DEF Topmost, FeedInit
  <1> QED  BY <1>1, <1>2, <1>3, <1>4 DEF FeedInv

LEMMA FeedStep == FeedInv /\ [FeedNext]_feedVars => FeedInv'
  BY OnOpenStep, OnMessageStep, OnCloseStep, ReconnectStep, RemountStep, ServerStep
  DEF FeedNext

(* However often the connection is lost and made again, the page mounted   *)
(* anew, and the node's events sent or dropped: an interval runs for each  *)
(* open socket and for no other, "Live" is shown when and only when the    *)
(* only mount's socket is open, the log is in order and not too long, and  *)
(* a mount cleaned up while it waited never connects again.                *)
THEOREM FeedCorrect ==
    FeedSpec => [](/\ FeedTypeOK /\ HeartbeatsOfOpenSockets /\ LiveMeansOpen
                   /\ LogInOrder /\ WaitingMountsEnd)
  <1>1. FeedInv => /\ FeedTypeOK /\ HeartbeatsOfOpenSockets /\ LiveMeansOpen
                   /\ LogInOrder /\ WaitingMountsEnd
    <2> SUFFICES ASSUME FeedInv
                 PROVE  /\ FeedTypeOK /\ HeartbeatsOfOpenSockets /\ LiveMeansOpen
                        /\ LogInOrder /\ WaitingMountsEnd
      OBVIOUS
    <2>1. HeartbeatsOfOpenSockets
      BY DEF FeedInv, SocketInv, HeartbeatsOfOpenSockets
    <2>2. LiveMeansOpen
      BY DEF FeedInv, OnlyMountInv, LiveMeansOpen
    <2>3. /\ Len(LogEntries) = Len(events) /\ DOMAIN LogEntries = 1 .. Len(events)
          /\ \A i \in 1 .. Len(events) : LogEntries[i].event = events[i]
      BY DEF LogEntries, FeedInv, FeedTypeOK
    <2>4. LogInOrder
      BY <2>3 DEF LogInOrder, FeedInv, OnlyMountInv
    <2>5. WaitingMountsEnd
      BY DEF FeedInv, FeedTypeOK, SocketInv, WaitingMountsEnd
    <2> QED  BY <2>1, <2>2, <2>4, <2>5 DEF FeedInv
  <1> QED  BY <1>1, FeedInitially, FeedStep, PTL DEF FeedSpec

-----------------------------------------------------------------------------
(* retryCount follows the failures: a socket that closed has counted one   *)
(* failure more than the retry that its timer will begin.                  *)
RetryInv(m) ==
    /\ socket[m] # "closed" => retryCount[m] = Min({failures[m], Settled})
    /\ socket[m] = "closed" => failures[m] # 0 /\ retryCount[m] = failures[m] - 1
    /\ reconnectTimeout[m] # NoTimer => reconnectTimeout[m] = backoff(failures[m] - 1)

RetriesFollow == \A m \in Mounts : RetryInv(m)

(* The delays of the attempts, one after the other.                        *)
LEMMA Delays ==
    /\ backoff(0) = 1000 /\ backoff(1) = 2000 /\ backoff(2) = 4000 /\ backoff(3) = 8000
    /\ backoff(4) = 15000
  <1>1. backoff(0) = 1000
    BY SMTT(10) DEF backoff, Min
  <1>2. backoff(1) = 2000
    BY SMTT(10) DEF backoff, Min
  <1>3. backoff(2) = 4000
    BY SMTT(10) DEF backoff, Min
  <1>4. backoff(3) = 8000
    BY SMTT(10) DEF backoff, Min
  <1>5. backoff(4) = 15000
    BY SMTT(10) DEF backoff, Min
  <1> QED  BY <1>1, <1>2, <1>3, <1>4, <1>5

(* What the types say of the counters of a socket.                         *)
LEMMA Counters ==
    ASSUME FeedInv, NEW m \in Mounts
    PROVE  /\ failures[m] \in 0 .. 5 /\ retryCount[m] \in 0 .. 4
           /\ failures \in [Mounts -> 0 .. 5] /\ retryCount \in [Mounts -> 0 .. 4]
           /\ DOMAIN socket = Mounts /\ DOMAIN reconnectTimeout = Mounts
           /\ Min({failures[m], Settled}) = IF failures[m] <= 4 THEN failures[m] ELSE 4
           /\ Min({failures[m] + 1, Settled + 1}) = IF failures[m] <= 4 THEN failures[m] + 1 ELSE 5
           /\ Min({retryCount[m] + 1, Settled}) = IF retryCount[m] <= 3 THEN retryCount[m] + 1 ELSE 4
           /\ reconnectTimeout[m] # NoTimer => socket[m] = "closed"
  <1>1. /\ failures \in [Mounts -> 0 .. 5] /\ retryCount \in [Mounts -> 0 .. 4]
        /\ DOMAIN socket = Mounts /\ DOMAIN reconnectTimeout = Mounts
    BY DEF FeedInv, FeedTypeOK, Settled
  <1>2. failures[m] \in 0 .. 5 /\ retryCount[m] \in 0 .. 4
    BY <1>1
  <1>3. reconnectTimeout[m] # NoTimer => socket[m] = "closed"
    BY DEF FeedInv, SocketInv
  <1> QED  BY <1>1, <1>2, <1>3, MinOfTwo DEF Settled

(* A socket of which none of the four changes.                             *)
LEMMA SocketRests ==
    ASSUME NEW m \in Mounts, RetryInv(m),
           socket'[m] = socket[m] \/ {socket[m], socket'[m]} \subseteq {"none", "connecting", "open", "closing"},
           retryCount'[m] = retryCount[m], failures'[m] = failures[m],
           reconnectTimeout'[m] \in {reconnectTimeout[m], NoTimer}
    PROVE  RetryInv(m)'
  BY DEF RetryInv

LEMMA RetryStep ==
    ASSUME FeedInv, RetriesFollow, [FeedNext]_feedVars PROVE RetriesFollow'
  <1> SUFFICES ASSUME NEW k \in Mounts PROVE RetryInv(k)'
    BY DEF RetriesFollow
  <1>0. RetryInv(k)
    BY DEF RetriesFollow
  <1>1. /\ failures[k] \in 0 .. 5 /\ retryCount[k] \in 0 .. 4
        /\ Min({failures[k], Settled}) = IF failures[k] <= 4 THEN failures[k] ELSE 4
        /\ Min({failures[k] + 1, Settled + 1}) = IF failures[k] <= 4 THEN failures[k] + 1 ELSE 5
        /\ Min({retryCount[k] + 1, Settled}) = IF retryCount[k] <= 3 THEN retryCount[k] + 1 ELSE 4
    BY Counters
  <1>2. ASSUME NEW m \in Mounts, OnOpen(m) PROVE RetryInv(k)'
    <2>1. CASE k = m
      <3>1. /\ socket'[k] = "open" /\ retryCount'[k] = 0 /\ failures'[k] = 0
            /\ reconnectTimeout'[k] = reconnectTimeout[k] /\ socket[k] # "closed"
        BY <1>2, <2>1, Counters DEF OnOpen
      <3>2. Min({0, Settled}) = 0 /\ reconnectTimeout[k] = NoTimer
        <4>1. reconnectTimeout[k] # NoTimer => socket[k] = "closed"
          BY Counters
        <4> QED  BY <3>1, <4>1, MinOfTwo DEF Settled
      <3> QED  BY <3>1, <3>2 DEF RetryInv
    <2>2. CASE k # m
      BY <1>0, <1>2, <2>2, Counters, SocketRests DEF OnOpen
    <2> QED  BY <2>1, <2>2
  <1>3. ASSUME NEW m \in Mounts, OnClose(m) PROVE RetryInv(k)'
    <2>1. CASE k = m
      <3>1. /\ socket'[k] = "closed" /\ retryCount'[k] = retryCount[k]
            /\ failures'[k] = Min({failures[k] + 1, Settled + 1})
            /\ reconnectTimeout'[k] = backoff(retryCount[k]) /\ socket[k] # "closed"
        BY <1>3, <2>1, Counters DEF OnClose
      <3>2. failures'[k] # 0 /\ retryCount'[k] = failures'[k] - 1
        BY <1>0, <1>1, <3>1 DEF RetryInv
      <3> QED  BY <3>1, <3>2 DEF RetryInv
    <2>2. CASE k # m
      BY <1>0, <1>3, <2>2, Counters, SocketRests DEF OnClose
    <2> QED  BY <2>1, <2>2
  <1>4. ASSUME NEW m \in Mounts, Reconnect(m) PROVE RetryInv(k)'
    <2>1. CASE k = m
      <3>1. /\ socket'[k] = "connecting" /\ failures'[k] = failures[k]
            /\ retryCount'[k] = Min({retryCount[k] + 1, Settled})
            /\ reconnectTimeout'[k] = NoTimer /\ socket[k] = "closed"
        BY <1>4, <2>1, Counters DEF Reconnect
      <3>2. retryCount'[k] = Min({failures'[k], Settled})
        BY <1>0, <1>1, <3>1 DEF RetryInv
      <3> QED  BY <3>1, <3>2 DEF RetryInv
    <2>2. CASE k # m
      BY <1>0, <1>4, <2>2, Counters, SocketRests DEF Reconnect
    <2> QED  BY <2>1, <2>2
  <1>5. CASE Remount
    <2>1. mounted \in Mounts /\ mounted + 1 \in Mounts /\ mounted \in Nat
      BY <1>5, FeedAssumption DEF Remount, FeedInv, FeedTypeOK, Mounts
    <2>2. /\ retryCount'[k] = retryCount[k] /\ failures'[k] = failures[k]
          /\ reconnectTimeout'[k] \in {reconnectTimeout[k], NoTimer}
      BY <1>5, Counters DEF Remount, clearTimeout
    <2>3. socket[mounted + 1] = "none"
      BY <2>1 DEF FeedInv, SocketInv
    <2>4. socket' = [socket EXCEPT ![mounted] = IF socket[mounted] \in {"connecting", "open"}
                                                 THEN "closing" ELSE socket[mounted],
                                   ![mounted + 1] = "connecting"]
      BY <1>5 DEF Remount
    <2>5. \/ socket'[k] = socket[k]
          \/ {socket[k], socket'[k]} \subseteq {"none", "connecting", "open", "closing"}
      <3>1. CASE k = mounted + 1
        BY <2>3, <2>4, <3>1, Counters
      <3>2. CASE k # mounted + 1
        BY <2>1, <2>4, <3>2, Counters
      <3> QED  BY <3>1, <3>2
    <2> QED  BY <1>0, <2>2, <2>5, SocketRests
  <1>6. ASSUME \/ Publish \/ NodeGoesOrComes \/ UNCHANGED feedVars
               \/ \E m \in Mounts : OnMessage(m) \/ ChannelFull(m)
        PROVE  RetryInv(k)'
    <2>1. UNCHANGED <<socket, retryCount, failures, reconnectTimeout>>
      BY <1>6 DEF Publish, NodeGoesOrComes, feedVars, OnMessage, ChannelFull
    <2> QED  BY <1>0, <2>1 DEF RetryInv
  <1> QED  BY <1>2, <1>3, <1>4, <1>5, <1>6 DEF FeedNext

(* Whatever fails and is mounted anew, every timer waits as long as the    *)
(* number of failures since the socket was last open says: the doubled     *)
(* delay, up to the largest.                                               *)
THEOREM BackoffCorrect == FeedSpec => []BackoffDoubles
  <1>1. FeedInit => FeedInv /\ RetriesFollow
    <2> SUFFICES ASSUME FeedInit, NEW m \in Mounts PROVE RetryInv(m)
      BY FeedInitially DEF RetriesFollow
    <2>1. /\ socket[m] # "closed" /\ retryCount[m] = 0 /\ failures[m] = 0
          /\ reconnectTimeout[m] = NoTimer
      BY DEF FeedInit
    <2>2. Min({0, Settled}) = 0
      BY MinOfTwo DEF Settled
    <2> QED  BY <2>1, <2>2 DEF RetryInv
  <1>2. FeedInv /\ RetriesFollow /\ [FeedNext]_feedVars => (FeedInv /\ RetriesFollow)'
    BY FeedStep, RetryStep
  <1>3. FeedInv /\ RetriesFollow => BackoffDoubles
    <2> SUFFICES ASSUME FeedInv, RetriesFollow, NEW m \in Mounts, reconnectTimeout[m] # NoTimer
                 PROVE  reconnectTimeout[m] = <<1000, 2000, 4000, 8000, 15000>>[failures[m]]
      BY DEF BackoffDoubles
    <2>1. failures[m] \in 0 .. 5 /\ socket[m] = "closed"
      BY Counters
    <2>2. failures[m] \in 1 .. 5 /\ reconnectTimeout[m] = backoff(failures[m] - 1)
      <3>1. failures[m] # 0 /\ reconnectTimeout[m] = backoff(failures[m] - 1)
        BY <2>1 DEF RetriesFollow, RetryInv
      <3> QED  BY <2>1, <3>1
    <2>3. \/ failures[m] = 1 \/ failures[m] = 2 \/ failures[m] = 3 \/ failures[m] = 4
          \/ failures[m] = 5
      BY <2>2
    <2> QED  BY <2>2, <2>3, Delays
  <1> QED  BY <1>1, <1>2, <1>3, PTL DEF FeedSpec

-----------------------------------------------------------------------------
(* Counting up: what holds at 0 and is handed on from place to place holds *)
(* everywhere.                                                             *)
LEMMA CountingUp ==
    ASSUME NEW n \in Nat, NEW Good \in SUBSET (0 .. n),
           0 \in Good, \A i \in 1 .. n : i - 1 \in Good => i \in Good
    PROVE  Good = 0 .. n
  <1> DEFINE R == {ss \in Nat \X Nat : ss[1] < ss[2]}
             Bad == {i \in 0 .. n : i \notin Good}
  <1>1. IsWellFoundedOn(R, Nat)
    BY NatLessThanWellFounded DEF OpToRel
  <1>2. ASSUME Bad # {} PROVE FALSE
    <2>1. PICK x \in Bad : \A y \in Bad : ~(<<y, x>> \in R)
      BY <1>1, <1>2, WFMin
    <2>2. x \in 1 .. n /\ x - 1 \in Bad
      OBVIOUS
    <2>3. <<x - 1, x>> \in R
      BY <2>2
    <2> QED  BY <2>1, <2>2, <2>3
  <1> QED  BY <1>2

(* A computation that starts somewhere and knows its every step exists.    *)
Computes(f, n, A, base, step) ==
    f \in [0 .. n -> A] /\ f[0] = base /\ \A i \in 1 .. n : f[i] = step[i][f[i - 1]]

LEMMA StepByStep ==
    ASSUME NEW A, NEW n \in Nat, NEW base \in A, NEW step \in [1 .. n -> [A -> A]]
    PROVE  \E f : Computes(f, n, A, base, step)
  <1> DEFINE Walks(k, f) ==
                 f[0] = base /\ \A i \in 1 .. k : f[i] = step[i][f[i - 1]]
             Good == {k \in 0 .. n : \E f \in [0 .. n -> A] : Walks(k, f)}
  <1>1. 0 \in Good
    <2>1. [i \in 0 .. n |-> base] \in [0 .. n -> A] /\ Walks(0, [i \in 0 .. n |-> base])
      OBVIOUS
    <2> HIDE DEF Walks
    <2>2. \E f \in [0 .. n -> A] : Walks(0, f)
      BY <2>1
    <2> QED  BY <2>2
  <1>2. ASSUME NEW k \in 1 .. n, k - 1 \in Good PROVE k \in Good
    <2>1. PICK f \in [0 .. n -> A] : Walks(k - 1, f)
      BY <1>2
    <2> DEFINE g == [f EXCEPT ![k] = step[k][f[k - 1]]]
    <2>2. step[k][f[k - 1]] \in A
      <3>1. k - 1 \in 0 .. n /\ step[k] \in [A -> A] /\ f[k - 1] \in A
        OBVIOUS
      <3> QED  BY <3>1
    <2>3. g \in [0 .. n -> A]
      BY <2>2
    <2>4. Walks(k, g)
      <3>1. g[0] = base /\ g[k] = step[k][g[k - 1]]
        BY <2>1
      <3>2. \A i \in 1 .. k - 1 : g[i] = step[i][g[i - 1]]
        BY <2>1
      <3> QED  BY <3>1, <3>2
    <2> HIDE DEF Walks, g
    <2>5. \E h \in [0 .. n -> A] : Walks(k, h)
      BY <2>3, <2>4
    <2> QED  BY <2>5
  <1> HIDE DEF Good
  <1>3. Good \in SUBSET (0 .. n)
    BY DEF Good
  <1>4. n \in Good
    BY <1>1, <1>2, <1>3, CountingUp
  <1> QED  BY <1>4 DEF Good, Computes

(* An event that was not broadcast is in no memory, buffer or packet; what *)
(* a process showed of an event beyond what it forgot is remembered, or    *)
(* is the event between the own bus and the gossiper.                      *)
NotYetKnown(e) ==
    /\ \A p \in Peer : e \notin seenEvents[p]
    /\ \A p \in Peer : \A i \in 1 .. Len(pendingEvents[p]) : pendingEvents[p][i] # e
    /\ \A mail \in wire : \A i \in 1 .. Len(mail.events) : mail.events[i] # e

Remembered(p, e) ==
    \/ e \in seenEvents[p]
    \/ p = Origin[e] /\ stage[e] = "published"

RelayInv ==
    /\ RelayTypeOK
    /\ \A e \in News : stage[e] # "broadcast" => NotYetKnown(e)
    /\ \A p \in Peer : \A e \in News :
          publications[p][e] <= forgotten[p][e] + (IF Remembered(p, e) THEN 1 ELSE 0)

LEMMA BufferedKeeps ==
    ASSUME NEW S, NEW told \in Seq(S), Len(told) <= Buffer, NEW e \in S
    PROVE  Buffered(told, e) \in Seq(S) /\ Len(Buffered(told, e)) <= Buffer
  <1> DEFINE longer == Append(told, e)
  <1>1. longer \in Seq(S) /\ Len(longer) = Len(told) + 1 /\ Len(longer) \in Nat /\ longer # <<>>
    BY AppendProperties
  <1>2. Tail(longer) \in Seq(S) /\ Len(Tail(longer)) = Len(longer) - 1
    BY <1>1, HeadTailProperties
  <1> HIDE DEF longer
  <1>3. Buffered(told, e) = IF Len(longer) > Buffer THEN Tail(longer) ELSE longer
    BY DEF Buffered, longer
  <1> QED  BY <1>1, <1>2, <1>3, RelayAssumption

(* What the memory of a process is after the events of a packet: it has    *)
(* seen them too, has shown those once that it had not seen, and buffers   *)
(* nothing from elsewhere.                                                 *)
LEMMA MemoryIs ==
    ASSUME RelayTypeOK, NEW p \in Peer, NEW S \in SUBSET News, NEW told \in Seq(S),
           pendingEvents[p] \in Seq(S)
    PROVE  LET memory == MemoryAfter(p, told)
               came   == {told[i] : i \in 1 .. Len(told)}
           IN  /\ memory.seen = seenEvents[p] \union came
               /\ memory.pending \in Seq(S) /\ Len(memory.pending) <= Buffer
               /\ memory.shown = [e \in News |-> publications[p][e] +
                                     (IF e \in came \ seenEvents[p] THEN 1 ELSE 0)]
  <1> DEFINE n == Len(told)
             A == [seen : SUBSET News, pending : {s \in Seq(S) : Len(s) <= Buffer},
                   shown : [News -> Nat]]
             base == [seen |-> seenEvents[p], pending |-> pendingEvents[p],
                      shown |-> publications[p]]
             came(k) == {told[i] : i \in 1 .. k}
             step == [i \in 1 .. n |-> [a \in A |-> TakeEvent(a, told[i])]]
             Def(f) == f = [i \in 0 .. n |-> IF i = 0 THEN base
                                             ELSE TakeEvent(f[i - 1], told[i])]
             memory == CHOOSE f : Def(f)
             Good == {k \in 0 .. n :
                        /\ memory[k] \in A
                        /\ memory[k].seen = seenEvents[p] \union came(k)
                        /\ memory[k].shown = [e \in News |-> publications[p][e] +
                              (IF e \in came(k) \ seenEvents[p] THEN 1 ELSE 0)]}
  <1>1. n \in Nat /\ \A i \in 1 .. n : told[i] \in S /\ told[i] \in News
    OBVIOUS
  <1>2. base \in A
    BY DEF RelayTypeOK
  <1>3. ASSUME NEW a \in A, NEW e \in S PROVE TakeEvent(a, e) \in A
    <2>1. a.seen \union {e} \in SUBSET News /\ [a.shown EXCEPT ![e] = @ + 1] \in [News -> Nat]
      OBVIOUS
    <2>2. Buffered(a.pending, e) \in {s \in Seq(S) : Len(s) <= Buffer}
      BY BufferedKeeps
    <2> QED  BY <2>1, <2>2 DEF TakeEvent
  <1>4. step \in [1 .. n -> [A -> A]]
    BY <1>1, <1>3
  <1>5. \E f : Def(f)
    <2> HIDE DEF base, A
    <2>0. PICK f : Computes(f, n, A, base, step)
      <3>1. n \in Nat
        BY <1>1
      <3> HIDE DEF step, n
      <3> QED  BY <3>1, <1>2, <1>4, StepByStep
    <2>1. f[0] = base /\ \A i \in 1 .. n : f[i] = step[i][f[i - 1]] /\ f[i - 1] \in A
      BY <1>1, <2>0 DEF Computes
    <2>2. ASSUME NEW i \in 1 .. n PROVE f[i] = TakeEvent(f[i - 1], told[i])
      BY <2>1
    <2>3. Def(f)
      BY <1>1, <2>0, <2>1, <2>2 DEF Computes
    <2> HIDE DEF Def
    <2> QED  BY <2>3
  <1>6. Def(memory)
    <2> HIDE DEF Def
    <2> QED  BY <1>5
  <1>7. memory[0] = base /\ \A i \in 1 .. n : memory[i] = TakeEvent(memory[i - 1], told[i])
    <2> HIDE DEF memory, base
    <2> QED  BY <1>1, <1>6
  <1>8. MemoryAfter(p, told) = memory[n]
    BY DEF MemoryAfter
  <1> HIDE DEF memory, Def, step
  <1>9. 0 \in Good
    <2>1. came(0) = {}
      OBVIOUS
    <2>2. publications[p] = [e \in News |-> publications[p][e] + 0]
      BY DEF RelayTypeOK
    <2>3. memory[0].seen = seenEvents[p] \union came(0)
      BY <1>7, <2>1
    <2>4. memory[0].shown = [e \in News |-> publications[p][e] +
                              (IF e \in came(0) \ seenEvents[p] THEN 1 ELSE 0)]
      BY <1>7, <2>1, <2>2
    <2> HIDE DEF A, base, came
    <2> QED  BY <1>1, <1>2, <1>7, <2>3, <2>4
  <1>10. ASSUME NEW k \in 1 .. n, k - 1 \in Good PROVE k \in Good
    <2> DEFINE old == memory[k - 1]
               e == told[k]
    <2>1. /\ old \in A /\ e \in S /\ e \in News
          /\ old.seen = seenEvents[p] \union came(k - 1)
          /\ old.shown = [d \in News |-> publications[p][d] +
                             (IF d \in came(k - 1) \ seenEvents[p] THEN 1 ELSE 0)]
      BY <1>1, <1>10
    <2>2. memory[k] = TakeEvent(old, e) /\ memory[k] \in A
      <3> HIDE DEF A, base
      <3> QED  BY <1>3, <1>7, <2>1
    <2>3. came(k) = came(k - 1) \union {e}
      <3>1. 1 .. k = (1 .. k - 1) \union {k}
        BY <1>1
      <3> QED  BY <3>1
    <2> HIDE DEF came, A, old, e
    <2>4. publications[p] \in [News -> Nat]
      BY DEF RelayTypeOK
    <2>5. k \in 0 .. n
      BY <1>1
    <2>6. memory[k].seen = seenEvents[p] \union came(k)
      BY <2>1, <2>2, <2>3 DEF TakeEvent
    <2>7. \A d \in News : memory[k].shown[d] = publications[p][d] +
                             (IF d \in came(k) \ seenEvents[p] THEN 1 ELSE 0)
      <3>1. CASE e \in old.seen
        <4>1. e \in seenEvents[p] \/ e \in came(k - 1)
          BY <2>1, <3>1
        <4>2. memory[k].shown = old.shown
          BY <2>2, <3>1 DEF TakeEvent
        <4> QED  BY <2>1, <2>3, <4>1, <4>2
      <3>2. CASE e \notin old.seen
        <4>1. e \notin seenEvents[p] /\ e \notin came(k - 1)
          BY <2>1, <3>2
        <4>2. memory[k].shown = [old.shown EXCEPT ![e] = @ + 1]
          BY <2>2, <3>2 DEF TakeEvent
        <4> QED  BY <2>1, <2>3, <2>4, <4>1, <4>2
      <3> QED  BY <3>1, <3>2
    <2>8. memory[k].shown \in [News -> Nat]
      BY <2>2 DEF A
    <2>9. memory[k].shown = [d \in News |-> publications[p][d] +
                               (IF d \in came(k) \ seenEvents[p] THEN 1 ELSE 0)]
      BY <2>7, <2>8
    <2> QED  BY <2>2, <2>5, <2>6, <2>9
  <1>11. n \in Good
    <2> HIDE DEF Good
    <2>1. Good \in SUBSET (0 .. n)
      BY DEF Good
    <2>2. Good = 0 .. n
      <3> HIDE DEF n
      <3> QED  BY <1>1, <1>9, <1>10, <2>1, CountingUp
    <2> QED  BY <1>1, <2>2
  <1> QED  BY <1>8, <1>11

LEMMA MailIs ==
    \A told : (\E n \in 0 .. Buffer : told \in [1 .. n -> News])
                  <=> told \in Seq(News) /\ Len(told) <= Buffer
  <1> USE RelayAssumption
  <1>1. ASSUME NEW n \in 0 .. Buffer, NEW told \in [1 .. n -> News]
        PROVE  told \in Seq(News) /\ Len(told) = n
    <2>1. n \in Nat
      OBVIOUS
    <2> QED  BY <2>1, IsASeq
  <1>2. ASSUME NEW told \in Seq(News), Len(told) <= Buffer
        PROVE  Len(told) \in 0 .. Buffer /\ told \in [1 .. Len(told) -> News]
    BY <1>2, LenProperties
  <1> QED  BY <1>1, <1>2

LEMMA SeqOfElements ==
    ASSUME NEW S, NEW T, NEW s \in Seq(S), \A i \in 1 .. Len(s) : s[i] \in T
    PROVE  s \in Seq(T)
  <1>1. Len(s) \in Nat /\ s \in [1 .. Len(s) -> T]
    BY LenProperties
  <1> QED  BY <1>1, IsASeq

LEMMA MergeStep ==
    ASSUME RelayInv, NEW mail \in wire, MergeEvents(mail)
    PROVE  RelayInv'
  <1> DEFINE p == mail.to
             came == {mail.events[i] : i \in 1 .. Len(mail.events)}
             memory == MemoryAfter(p, mail.events)
             Free == {e \in News : stage[e] = "broadcast"}
  <1>1. RelayTypeOK /\ Free \in SUBSET News
    BY DEF RelayInv
  <1>2. p \in Peer /\ mail.events \in Seq(News) /\ Len(mail.events) \in Nat
    <2>1. mail \in Mail
      BY <1>1 DEF RelayTypeOK
    <2>2. mail.to \in Peer /\ \E n \in 0 .. Buffer : mail.events \in [1 .. n -> News]
      BY <2>1 DEF Mail
    <2> QED  BY <2>2, MailIs, LenProperties
  <1>3. ASSUME NEW e \in News, stage[e] # "broadcast" PROVE NotYetKnown(e)
    BY <1>3 DEF RelayInv
  <1>4. mail.events \in Seq(Free) /\ pendingEvents[p] \in Seq(Free)
    <2>1. \A i \in 1 .. Len(mail.events) : mail.events[i] \in Free
      BY <1>2, <1>3 DEF NotYetKnown
    <2>2. pendingEvents[p] \in Seq(News)
      BY <1>1, <1>2 DEF RelayTypeOK
    <2>3. \A i \in 1 .. Len(pendingEvents[p]) : pendingEvents[p][i] \in Free
      BY <1>2, <1>3, <2>2 DEF NotYetKnown
    <2> HIDE DEF Free
    <2> QED  BY <1>2, <2>1, <2>2, <2>3, SeqOfElements
  <1>5. /\ memory.seen = seenEvents[p] \union came
        /\ memory.pending \in Seq(Free) /\ Len(memory.pending) <= Buffer
        /\ memory.shown = [e \in News |-> publications[p][e] +
                              (IF e \in came \ seenEvents[p] THEN 1 ELSE 0)]
    <2> HIDE DEF p, Free
    <2> QED  BY <1>1, <1>2, <1>4, MemoryIs
  <1>6. /\ wire' = wire \ {mail}
        /\ seenEvents' = [seenEvents EXCEPT ![p] = memory.seen]
        /\ pendingEvents' = [pendingEvents EXCEPT ![p] = memory.pending]
        /\ publications' = [publications EXCEPT ![p] = memory.shown]
        /\ UNCHANGED <<stage, crashes, forgotten>>
    BY DEF MergeEvents
  <1>7. came \subseteq Free /\ Free \subseteq News
    BY <1>2, <1>4
  <1> HIDE DEF p, memory, came
  <1>8. memory.pending \in Seq(News) /\ \A i \in 1 .. Len(memory.pending) : memory.pending[i] \in Free
    BY <1>5, <1>7, LenProperties
  <1>9. RelayTypeOK'
    <2>1. \A q \in Peer : pendingEvents'[q] \in Seq(News) /\ Len(pendingEvents'[q]) <= Buffer
      BY <1>1, <1>2, <1>5, <1>6, <1>8 DEF RelayTypeOK
    <2>2. seenEvents' \in [Peer -> SUBSET News]
      BY <1>1, <1>2, <1>5, <1>6, <1>7 DEF RelayTypeOK
    <2>3. memory.shown \in [News -> Nat]
      BY <1>1, <1>2, <1>5 DEF RelayTypeOK
    <2>4. publications' \in [Peer -> [News -> Nat]]
      BY <1>1, <1>2, <1>6, <2>3 DEF RelayTypeOK
    <2> QED  BY <1>1, <1>6, <2>1, <2>2, <2>4 DEF RelayTypeOK
  <1>10. ASSUME NEW e \in News, stage'[e] # "broadcast" PROVE NotYetKnown(e)'
    <2>1. NotYetKnown(e) /\ e \notin Free
      BY <1>3, <1>6, <1>10
    <2>2. e \notin memory.seen /\ \A i \in 1 .. Len(memory.pending) : memory.pending[i] # e
      BY <1>2, <1>5, <1>7, <1>8, <2>1 DEF NotYetKnown
    <2>3. \A q \in Peer : /\ e \notin seenEvents'[q]
                          /\ \A i \in 1 .. Len(pendingEvents'[q]) : pendingEvents'[q][i] # e
      BY <1>1, <1>6, <2>1, <2>2 DEF NotYetKnown, RelayTypeOK
    <2> QED  BY <1>6, <2>1, <2>3 DEF NotYetKnown
  <1>11. ASSUME NEW q \in Peer, NEW e \in News
         PROVE  publications'[q][e] <= forgotten'[q][e] + (IF Remembered(q, e)' THEN 1 ELSE 0)
    <2>1. /\ publications[q][e] <= forgotten[q][e] + (IF Remembered(q, e) THEN 1 ELSE 0)
          /\ publications[q][e] \in Nat /\ forgotten[q][e] \in Nat
      BY DEF RelayInv, RelayTypeOK
    <2>2. CASE q # p
      BY <1>1, <1>6, <2>1, <2>2 DEF RelayTypeOK, Remembered
    <2>3. CASE q = p /\ e \in came \ seenEvents[p]
      <3>1. ~Remembered(q, e)
        BY <1>7, <2>3 DEF Remembered
      <3>2. publications'[q][e] = publications[q][e] + 1 /\ Remembered(q, e)'
        BY <1>1, <1>2, <1>5, <1>6, <2>3 DEF RelayTypeOK, Remembered
      <3> QED  BY <1>6, <2>1, <3>1, <3>2
    <2>4. CASE q = p /\ e \notin came \ seenEvents[p]
      <3>1. publications'[q][e] = publications[q][e] /\ (Remembered(q, e) => Remembered(q, e)')
        BY <1>1, <1>2, <1>5, <1>6, <2>1, <2>4 DEF RelayTypeOK, Remembered
      <3> QED  BY <1>6, <2>1, <3>1
    <2> QED  BY <2>2, <2>3, <2>4
  <1> QED  BY <1>9, <1>10, <1>11 DEF RelayInv

LEMMA RelayInitially == RelayInit => RelayInv
  <1> SUFFICES ASSUME RelayInit PROVE RelayInv
    OBVIOUS
  <1>1. RelayTypeOK
    BY RelayAssumption, EmptySeq DEF RelayInit, RelayTypeOK, NewsStages
  <1>2. \A e \in News : NotYetKnown(e)
    BY DEF RelayInit, NotYetKnown
  <1>3. \A p \in Peer : \A e \in News : publications[p][e] = 0 /\ forgotten[p][e] = 0
    BY DEF RelayInit
  <1> QED  BY <1>1, <1>2, <1>3 DEF RelayInv

LEMMA AnnounceStep == ASSUME RelayInv, NEW e \in News, Announce(e) PROVE RelayInv'
  <1> USE DEF Announce
  <1>1. Origin[e] \in Peer /\ RelayTypeOK
    BY RelayAssumption DEF RelayInv
  <1>2. RelayTypeOK'
    <2>1. publications' \in [Peer -> [News -> Nat]]
      BY <1>1 DEF RelayTypeOK
    <2>2. stage' \in [News -> NewsStages]
      BY <1>1 DEF RelayTypeOK, NewsStages
    <2> QED  BY <1>1, <2>1, <2>2 DEF RelayTypeOK
  <1>3. ASSUME NEW d \in News, stage'[d] # "broadcast" PROVE NotYetKnown(d)'
    <2>1. stage[d] # "broadcast"
      BY <1>1, <1>3 DEF RelayTypeOK
    <2> QED  BY <2>1 DEF RelayInv, NotYetKnown
  <1>4. ASSUME NEW q \in Peer, NEW d \in News
        PROVE  publications'[q][d] <= forgotten'[q][d] + (IF Remembered(q, d)' THEN 1 ELSE 0)
    <2>1. /\ publications[q][d] <= forgotten[q][d] + (IF Remembered(q, d) THEN 1 ELSE 0)
          /\ publications[q][d] \in Nat /\ forgotten[q][d] \in Nat
      BY DEF RelayInv, RelayTypeOK
    <2>2. CASE d = e /\ q = Origin[e]
      <3>1. ~Remembered(q, d)
        BY <1>1, <2>2 DEF Remembered, RelayInv, NotYetKnown
      <3>2. publications'[q][d] = publications[q][d] + 1 /\ Remembered(q, d)'
        BY <1>1, <2>2 DEF Remembered, RelayTypeOK
      <3> QED  BY <2>1, <3>1, <3>2
    <2>3. CASE ~(d = e /\ q = Origin[e])
      <3>1. publications'[q][d] = publications[q][d] /\ (Remembered(q, d) => Remembered(q, d)')
        BY <1>1, <2>3 DEF Remembered, RelayTypeOK
      <3> QED  BY <2>1, <3>1
    <2> QED  BY <2>2, <2>3
  <1> QED  BY <1>2, <1>3, <1>4 DEF RelayInv

LEMMA BroadcastStep == ASSUME RelayInv, NEW e \in News, BroadcastEvent(e) PROVE RelayInv'
  <1> DEFINE p == Origin[e]
  <1> USE DEF BroadcastEvent, seenAtOrigin
  <1>1. p \in Peer /\ RelayTypeOK
    BY RelayAssumption DEF RelayInv
  <1>2. /\ pendingEvents[p] \in Seq(News) /\ Len(pendingEvents[p]) <= Buffer
        /\ Buffered(pendingEvents[p], e) \in Seq(News)
        /\ Len(Buffered(pendingEvents[p], e)) <= Buffer
    BY <1>1, BufferedKeeps DEF RelayTypeOK
  <1>3. RelayTypeOK'
    <2>1. \A q \in Peer : pendingEvents'[q] \in Seq(News) /\ Len(pendingEvents'[q]) <= Buffer
      BY <1>1, <1>2 DEF RelayTypeOK
    <2>2. seenEvents' \in [Peer -> SUBSET News] /\ stage' \in [News -> NewsStages]
      BY <1>1 DEF RelayTypeOK, NewsStages
    <2> QED  BY <1>1, <2>1, <2>2 DEF RelayTypeOK
  <1>4. ASSUME NEW d \in News, stage'[d] # "broadcast" PROVE NotYetKnown(d)'
    <2>1. d # e /\ NotYetKnown(d)
      BY <1>1, <1>4 DEF RelayInv, RelayTypeOK
    <2>2. \A i \in 1 .. Len(Buffered(pendingEvents[p], e)) : Buffered(pendingEvents[p], e)[i] # d
      <3> DEFINE Others == News \ {d}
      <3>1. \A i \in 1 .. Len(pendingEvents[p]) : pendingEvents[p][i] \in Others
        BY <1>1, <1>2, <2>1, LenProperties DEF NotYetKnown
      <3>2. e \in Others /\ d \notin Others
        BY <2>1
      <3> HIDE DEF Others
      <3>3. pendingEvents[p] \in Seq(Others)
        BY <1>2, <3>1, SeqOfElements
      <3>4. Buffered(pendingEvents[p], e) \in Seq(Others)
        BY <1>2, <3>2, <3>3, BufferedKeeps
      <3> QED  BY <3>2, <3>4, LenProperties
    <2>3. \A q \in Peer : /\ d \notin seenEvents'[q]
                          /\ \A i \in 1 .. Len(pendingEvents'[q]) : pendingEvents'[q][i] # d
      BY <1>1, <2>1, <2>2 DEF NotYetKnown, RelayTypeOK
    <2> QED  BY <2>1, <2>3 DEF NotYetKnown
  <1>5. ASSUME NEW q \in Peer, NEW d \in News
        PROVE  publications'[q][d] <= forgotten'[q][d] + (IF Remembered(q, d)' THEN 1 ELSE 0)
    <2>1. /\ publications[q][d] <= forgotten[q][d] + (IF Remembered(q, d) THEN 1 ELSE 0)
          /\ publications[q][d] \in Nat /\ forgotten[q][d] \in Nat
      BY DEF RelayInv, RelayTypeOK
    <2>2. Remembered(q, d) => Remembered(q, d)'
      BY <1>1 DEF Remembered, RelayTypeOK
    <2> QED  BY <2>1, <2>2
  <1> QED  BY <1>3, <1>4, <1>5 DEF RelayInv

LEMMA SendStep ==
    ASSUME RelayInv, NEW p \in Peer, NEW T \in SUBSET (Peer \ {p}), SendPending(p, T)
    PROVE  RelayInv'
  <1> USE DEF SendPending
  <1>1. RelayTypeOK
    BY DEF RelayInv
  <1>2. ASSUME NEW q \in T
        PROVE  [to |-> q, events |-> pendingEvents[p]] \in Mail
    <2>1. \E n \in 0 .. Buffer : pendingEvents[p] \in [1 .. n -> News]
      BY <1>1, MailIs DEF RelayTypeOK
    <2> QED  BY <2>1 DEF Mail
  <1>3. wire' \subseteq Mail
    BY <1>1, <1>2 DEF RelayTypeOK
  <1>4. RelayTypeOK'
    BY <1>1, <1>3 DEF RelayTypeOK
  <1>5. ASSUME NEW e \in News, stage'[e] # "broadcast" PROVE NotYetKnown(e)'
    <2>1. NotYetKnown(e)
      BY <1>5 DEF RelayInv
    <2>2. ASSUME NEW mail \in wire'
          PROVE  \A i \in 1 .. Len(mail.events) : mail.events[i] # e
      <3>1. mail \in wire \/ mail.events = pendingEvents[p]
        BY <2>2
      <3> QED  BY <2>1, <3>1 DEF NotYetKnown
    <2> QED  BY <2>1, <2>2 DEF NotYetKnown
  <1>6. \A q \in Peer : \A e \in News :
            publications'[q][e] <= forgotten'[q][e] + (IF Remembered(q, e)' THEN 1 ELSE 0)
    BY DEF RelayInv, Remembered
  <1> QED  BY <1>4, <1>5, <1>6 DEF RelayInv

LEMMA ForgetStep ==
    ASSUME RelayInv, NEW p \in Peer, NEW old \in SUBSET News, ForgetOld(p, old)
    PROVE  RelayInv'
  <1> USE DEF ForgetOld
  <1>0. MaxForgotten \in Nat
    BY RelayAssumption
  <1>1. RelayTypeOK
    BY DEF RelayInv
  <1>2. RelayTypeOK'
    <2>1. [e \in News |-> IF e \in old THEN forgotten[p][e] + 1 ELSE forgotten[p][e]]
              \in [News -> 0 .. MaxForgotten]
      BY <1>0, <1>1 DEF RelayTypeOK
    <2>2. forgotten' \in [Peer -> [News -> 0 .. MaxForgotten]]
      BY <1>1, <2>1 DEF RelayTypeOK
    <2>3. seenEvents' \in [Peer -> SUBSET News]
      BY <1>1 DEF RelayTypeOK
    <2> QED  BY <1>1, <2>2, <2>3 DEF RelayTypeOK
  <1>3. ASSUME NEW e \in News, stage'[e] # "broadcast" PROVE NotYetKnown(e)'
    BY <1>1, <1>3 DEF RelayInv, NotYetKnown, RelayTypeOK
  <1>4. ASSUME NEW q \in Peer, NEW e \in News
        PROVE  publications'[q][e] <= forgotten'[q][e] + (IF Remembered(q, e)' THEN 1 ELSE 0)
    <2>1. /\ publications[q][e] <= forgotten[q][e] + (IF Remembered(q, e) THEN 1 ELSE 0)
          /\ publications[q][e] \in Nat /\ forgotten[q][e] \in Nat
      BY <1>0 DEF RelayInv, RelayTypeOK
    <2>2. CASE q = p /\ e \in old
      <3>1. forgotten'[q][e] = forgotten[q][e] + 1
        BY <1>1, <2>2 DEF RelayTypeOK
      <3> QED  BY <2>1, <3>1
    <2>3. CASE ~(q = p /\ e \in old)
      <3>1. forgotten'[q][e] = forgotten[q][e] /\ (Remembered(q, e) => Remembered(q, e)')
        BY <1>1, <2>3 DEF RelayTypeOK, Remembered
      <3> QED  BY <2>1, <3>1
    <2> QED  BY <2>2, <2>3
  <1> QED  BY <1>2, <1>3, <1>4 DEF RelayInv

LEMMA StartAgainStep == ASSUME RelayInv, NEW p \in Peer, StartAgain(p) PROVE RelayInv'
  <1> USE DEF StartAgain
  <1>0. MaxForgotten \in Nat /\ MaxCrashes \in Nat
    BY RelayAssumption
  <1>1. RelayTypeOK
    BY DEF RelayInv
  <1>2. RelayTypeOK'
    <2>1. stage' \in [News -> NewsStages] /\ crashes' \in 0 .. MaxCrashes
      BY <1>0, <1>1 DEF RelayTypeOK, NewsStages
    <2>2. \A q \in Peer : pendingEvents'[q] \in Seq(News) /\ Len(pendingEvents'[q]) <= Buffer
      BY <1>1, RelayAssumption, EmptySeq DEF RelayTypeOK
    <2>3. seenEvents' \in [Peer -> SUBSET News]
      BY <1>1 DEF RelayTypeOK
    <2>4. /\ publications' \in [Peer -> [News -> Nat]]
          /\ forgotten' \in [Peer -> [News -> 0 .. MaxForgotten]]
      BY <1>0, <1>1 DEF RelayTypeOK
    <2> QED  BY <1>1, <2>1, <2>2, <2>3, <2>4 DEF RelayTypeOK
  <1>3. ASSUME NEW e \in News, stage'[e] # "broadcast" PROVE NotYetKnown(e)'
    <2>1. NotYetKnown(e)
      BY <1>1, <1>3 DEF RelayInv, RelayTypeOK
    <2>2. \A q \in Peer : /\ e \notin seenEvents'[q]
                          /\ \A i \in 1 .. Len(pendingEvents'[q]) : pendingEvents'[q][i] # e
      BY <1>1, <2>1 DEF NotYetKnown, RelayTypeOK
    <2> QED  BY <2>1, <2>2 DEF NotYetKnown
  <1>4. ASSUME NEW q \in Peer, NEW e \in News
        PROVE  publications'[q][e] <= forgotten'[q][e] + (IF Remembered(q, e)' THEN 1 ELSE 0)
    <2>1. CASE q = p
      BY <1>1, <2>1 DEF RelayTypeOK
    <2>2. CASE q # p
      <3>1. publications'[q][e] = publications[q][e] /\ forgotten'[q][e] = forgotten[q][e]
        BY <1>1, <2>2 DEF RelayTypeOK
      <3>2. Remembered(q, e) => Remembered(q, e)'
        BY <1>1, <2>2 DEF RelayTypeOK, Remembered
      <3>3. /\ publications[q][e] <= forgotten[q][e] + (IF Remembered(q, e) THEN 1 ELSE 0)
            /\ publications[q][e] \in Nat /\ forgotten[q][e] \in Nat
        BY <1>0 DEF RelayInv, RelayTypeOK
      <3> QED  BY <3>1, <3>2, <3>3
    <2> QED  BY <2>1, <2>2
  <1> QED  BY <1>2, <1>3, <1>4 DEF RelayInv

LEMMA RelayStep == RelayInv /\ [RelayNext]_relayVars => RelayInv'
  <1>1. ASSUME RelayInv, UNCHANGED relayVars PROVE RelayInv'
    BY <1>1 DEF relayVars, RelayInv, RelayTypeOK, NotYetKnown, Remembered
  <1> QED  BY <1>1, AnnounceStep, BroadcastStep, SendStep, MergeStep, ForgetStep, StartAgainStep
           DEF RelayNext

(* However the buffers of the nodes repeat an event, packets arrive late,  *)
(* memories expire and nodes start again: a process shows an event once,   *)
(* and once more for every time that it forgot it.                         *)
THEOREM RelayCorrect == RelaySpec => [](RelayTypeOK /\ RepeatsWereForgotten)
  <1>1. RelayInv => RelayTypeOK /\ RepeatsWereForgotten
    <2> SUFFICES ASSUME RelayInv, NEW p \in Peer, NEW e \in News
                 PROVE  publications[p][e] <= 1 + forgotten[p][e]
      BY DEF RelayInv, RepeatsWereForgotten
    <2>1. /\ publications[p][e] <= forgotten[p][e] + (IF Remembered(p, e) THEN 1 ELSE 0)
          /\ publications[p][e] \in Nat /\ forgotten[p][e] \in Nat
      BY RelayAssumption DEF RelayInv, RelayTypeOK
    <2> QED  BY <2>1
  <1> QED  BY <1>1, RelayInitially, RelayStep, PTL DEF RelaySpec
=============================================================================
