-------------------------- MODULE DashboardProofs ---------------------------
(***************************************************************************)
(* Proofs about the parts of the dashboard that send requests and show the *)
(* answers (Console, Explorer, Strip, Chat), and about the guide's list    *)
(* (Guide), for any keys, nodes and versions and any number of requests;   *)
(* and about the whole that TLC checks (MCDashboard).                      *)
(***************************************************************************)
EXTENDS MCDashboard, RingProofs, FeedProofs, SequenceTheorems, FiniteSetTheorems, TLAPS

-----------------------------------------------------------------------------
(* The strip: as long as the user does not meddle, either nothing is on    *)
(* its way and the result is that of what is shown, or the request of what *)
(* is shown is, and nothing else.                                          *)
ShownRequest == [mode |-> kvMode, key |-> kvKey]

StripTypes ==
    /\ kvMode \in Modes /\ kvKey \in Entry \union {Blank} /\ kvLoading \in BOOLEAN
    /\ sent \in [Requests -> Nat] /\ meddled \in BOOLEAN

StripSettled ==
    /\ sent = Quiet
    /\ kvResult # Blank => kvResult.request = ShownRequest

StripWaits ==
    /\ ShownRequest \in Requests
    /\ sent = [Quiet EXCEPT ![ShownRequest] = 1]
    /\ kvLoading /\ kvResult = Blank

StripInv ==
    /\ StripTypes
    /\ kvLoading => sent # Quiet
    /\ ~meddled => StripSettled \/ StripWaits

LEMMA StripStep == StripInv /\ [StripNext]_stripVars => StripInv'
  <1> SUFFICES ASSUME StripInv, [StripNext]_stripVars PROVE StripInv'
    OBVIOUS
  <1> USE StripAssumption DEF StripInv, StripTypes, StripSettled, StripWaits, ShownRequest
  <1>1. ASSUME NEW mode \in Modes, ChooseMode(mode) PROVE StripInv'
    BY <1>1 DEF ChooseMode
  <1>2. ASSUME NEW key \in Entry \union {Blank}, TypeKey(key) PROVE StripInv'
    BY <1>2 DEF TypeKey, resultCleared
  <1>3. CASE TypeValue
    BY <1>3 DEF TypeValue
  <1>4. CASE SendRequest
    <2> DEFINE r == [mode |-> kvMode, key |-> kvKey]
    <2>1. r \in Requests /\ sent[r] \in Nat
      BY <1>4 DEF SendRequest, Requests, Modes
    <2>2. sent' = [sent EXCEPT ![r] = @ + 1] /\ UNCHANGED <<kvMode, kvKey>>
      BY <1>4 DEF SendRequest
    <2>3. sent' \in [Requests -> Nat] /\ sent'[r] > 0
      BY <2>1, <2>2
    <2>4. sent' # Quiet
      BY <2>1, <2>3 DEF Quiet
    <2>5. sent = Quiet => sent' = [Quiet EXCEPT ![r] = 1]
      BY <2>1, <2>2 DEF Quiet
    <2> QED  BY <1>4, <2>1, <2>2, <2>3, <2>4, <2>5 DEF SendRequest
  <1>5. ASSUME NEW r \in Requests, NEW kind \in Kinds(r.mode), Answered(r, kind)
        PROVE  StripInv'
    <2>1. sent' = [sent EXCEPT ![r] = @ - 1] /\ sent[r] > 0 /\ UNCHANGED <<kvMode, kvKey, meddled>>
      BY <1>5 DEF Answered
    <2>2. sent' \in [Requests -> Nat]
      BY <2>1
    <2>3. kvResult' = Result(r, kind) /\ ~kvLoading'
      BY <1>5 DEF Answered, stopsLoading
    <2>4. ASSUME ~meddled PROVE StripWaits /\ r = ShownRequest /\ sent' = Quiet
      <3>1. sent # Quiet
        BY <1>5, <2>1 DEF Quiet
      <3>2. StripWaits
        BY <2>4, <3>1
      <3>3. r = ShownRequest
        BY <1>5, <2>1, <3>2 DEF Quiet
      <3> QED  BY <1>5, <2>1, <3>2, <3>3 DEF Quiet
    <2>5. ShownRequest' = ShownRequest /\ kvResult'.request = r
      BY <2>1, <2>3 DEF Result
    <2>6. StripTypes'
      BY <1>5, <2>1, <2>2 DEF Answered, stopsLoading
    <2>7. ~meddled' => StripSettled'
      BY <2>1, <2>4, <2>5
    <2> QED  BY <2>3, <2>6, <2>7
  <1>6. CASE UNCHANGED stripVars
    BY <1>6 DEF stripVars
  <1> QED
    BY <1>1, <1>2, <1>3, <1>4, <1>5, <1>6 DEF StripNext, PressEnter, PressButton

(* What the strip shows has the types of its parts.                        *)
StripHeld ==
    /\ StripTypes /\ kvValue \in BOOLEAN /\ kvResult \in Results \union {Blank}

LEMMA StripHeldStep == StripHeld /\ [StripNext]_stripVars => StripHeld'
  <1> SUFFICES ASSUME StripHeld, [StripNext]_stripVars PROVE StripHeld'
    OBVIOUS
  <1> USE DEF StripHeld, StripTypes
  <1>1. ASSUME NEW mode \in Modes, ChooseMode(mode) PROVE StripHeld'
    BY <1>1 DEF ChooseMode
  <1>2. ASSUME NEW key \in Entry \union {Blank}, TypeKey(key) PROVE StripHeld'
    BY <1>2 DEF TypeKey, resultCleared
  <1>3. CASE TypeValue
    BY <1>3 DEF TypeValue
  <1>4. CASE SendRequest
    <2> DEFINE r == [mode |-> kvMode, key |-> kvKey]
    <2>1. r \in Requests /\ sent' = [sent EXCEPT ![r] = @ + 1]
      BY <1>4 DEF SendRequest, Requests, Modes
    <2>2. sent' \in [Requests -> Nat]
      BY <2>1
    <2> QED  BY <1>4, <2>2 DEF SendRequest
  <1>5. ASSUME NEW r \in Requests, NEW kind \in Kinds(r.mode), Answered(r, kind)
        PROVE  StripHeld'
    <2>1. sent' = [sent EXCEPT ![r] = @ - 1] /\ sent[r] > 0
      BY <1>5 DEF Answered
    <2>2. sent' \in [Requests -> Nat]
      BY <2>1
    <2>3. kvResult' \in Results
      BY <1>5 DEF Answered, Results, Kinds
    <2> QED  BY <1>5, <2>2, <2>3 DEF Answered, stopsLoading
  <1>6. CASE UNCHANGED stripVars
    BY <1>6 DEF stripVars
  <1> QED
    BY <1>1, <1>2, <1>3, <1>4, <1>5, <1>6 DEF StripNext, PressEnter, PressButton

LEMMA StripHolds ==
    /\ StripInit => StripHeld
    /\ StripHeld => StripTypeOK
  <1>1. ASSUME StripInit PROVE StripHeld
    <2>1. Quiet \in [Requests -> Nat]
      BY DEF Quiet
    <2> QED  BY <1>1, <2>1 DEF StripInit, StripHeld, StripTypes, Modes
  <1>2. ASSUME StripHeld PROVE StripTypeOK
    <2>1. kvResult # Blank => kvResult.kind \in Kinds("set") \union Kinds("get")
      BY <1>2 DEF StripHeld, Results, Result
    <2>2. ShownResult \in {"querying", "placeholder", "nothing"}
                            \union Kinds("set") \union Kinds("get")
      BY <2>1 DEF ShownResult
    <2> QED  BY <1>2, <2>2 DEF StripHeld, StripTypes, StripTypeOK
  <1> QED  BY <1>1, <1>2

(* Whatever is typed, chosen and sent, and in whatever order the answers   *)
(* come: a result is shown under the request it answers, and the strip     *)
(* waits while an answer is on its way and at no other time -- except when *)
(* the user edits or sends again while one is on its way.                  *)
THEOREM StripCorrect ==
    StripSpec => [](StripTypeOK /\ ResultOfShownRequest /\ BusyWhilePending)
  <1>1. StripInit => StripInv
    <2>1. Quiet \in [Requests -> Nat]
      BY DEF Quiet
    <2> QED
      BY <2>1 DEF StripInit, StripInv, StripTypes, StripSettled, Modes
  <1>2. StripInv => ResultOfShownRequest /\ BusyWhilePending
    BY DEF StripInv, StripSettled, StripWaits, ShownRequest, ResultOfShownRequest,
           BusyWhilePending
  <1> QED  BY <1>1, <1>2, StripStep, StripHolds, StripHeldStep, PTL DEF StripSpec

-----------------------------------------------------------------------------
(* The explorer: unless something was missed or overlapped, at most one    *)
(* request is on its way, and it is for what is selected.                  *)
ExplorerTypes ==
    /\ Nothing \notin Shard /\ Nothing \notin Record
    /\ details \in [Shard -> Nat] /\ values \in [Record -> Nat]

DetailSettled == details = NoneOf(Shard) /\ ~loading /\ nodeDetail = node

DetailAwaited ==
    node \in Shard /\ details = [NoneOf(Shard) EXCEPT ![node] = 1] /\ loading

DetailInv == open /\ node # Nothing /\ ~detailMissed => DetailSettled \/ DetailAwaited

ValueSettled ==
    /\ values = NoneOf(Record) /\ ~loadingValue
    /\ selectedKey # Nothing => keyValue = selectedKey

ValueAwaited(k) ==
    values = [NoneOf(Record) EXCEPT ![k] = 1] /\ loadingValue /\ selectedKey \in {k, Nothing}

ValueInv == open /\ ~valuesOverlap => ValueSettled \/ \E k \in Record : ValueAwaited(k)

ExplorerInv == ExplorerTypes /\ DetailInv /\ ValueInv

(* Counting a request out again.                                           *)
LEMMA CountOut ==
    \A S : \A f \in [S -> Nat] : \A x \in S :
        f[x] > 0 => /\ [f EXCEPT ![x] = @ - 1] \in [S -> Nat]
                    /\ f # NoneOf(S)
                    /\ \A y \in S : f = [NoneOf(S) EXCEPT ![y] = 1]
                                      => x = y /\ [f EXCEPT ![x] = @ - 1] = NoneOf(S)
  <1> SUFFICES ASSUME NEW S, NEW f \in [S -> Nat], NEW x \in S, f[x] > 0
               PROVE  /\ [f EXCEPT ![x] = @ - 1] \in [S -> Nat]
                      /\ f # NoneOf(S)
                      /\ \A y \in S : f = [NoneOf(S) EXCEPT ![y] = 1]
                                        => x = y /\ [f EXCEPT ![x] = @ - 1] = NoneOf(S)
    OBVIOUS
  <1>1. [f EXCEPT ![x] = @ - 1] \in [S -> Nat]
    OBVIOUS
  <1>2. f # NoneOf(S)
    BY DEF NoneOf
  <1>3. ASSUME NEW y \in S, f = [NoneOf(S) EXCEPT ![y] = 1]
        PROVE  x = y /\ [f EXCEPT ![x] = @ - 1] = NoneOf(S)
    <2>1. f = [z \in S |-> IF z = y THEN 1 ELSE 0]
      BY <1>3 DEF NoneOf
    <2>2. x = y
      BY <2>1
    <2>3. [f EXCEPT ![x] = @ - 1] = [z \in S |-> 0]
      BY <2>1, <2>2
    <2> QED  BY <2>2, <2>3 DEF NoneOf
  <1> QED  BY <1>1, <1>2, <1>3

LEMMA ExplorerStep == ExplorerInv /\ [ExplorerNext]_explorerVars => ExplorerInv'
  <1> SUFFICES ASSUME ExplorerInv, [ExplorerNext]_explorerVars PROVE ExplorerInv'
    OBVIOUS
  <1> USE DEF ExplorerInv, ExplorerTypes
  <1>1. ASSUME NEW n \in Shard \union {Nothing}, Mount(n) PROVE ExplorerInv'
    <2>1. n \in Shard => details' = [NoneOf(Shard) EXCEPT ![n] = 1]
      BY <1>1 DEF Mount, NoneOf
    <2>2. NoneOf(Record) \in [Record -> Nat] /\ details' \in [Shard -> Nat]
      BY <1>1 DEF Mount, NoneOf
    <2> QED
      BY <1>1, <2>1, <2>2
      DEF Mount, DetailInv, DetailAwaited, ValueInv, ValueSettled
  <1>2. ASSUME NEW n \in Shard, NodeChanges(n) PROVE ExplorerInv'
    <2>1. /\ node' = n /\ loading' /\ selectedKey' = Nothing
          /\ details' = [details EXCEPT ![n] = @ + 1]
          /\ detailMissed' = (details # NoneOf(Shard))
          /\ UNCHANGED <<open, loadingValue, values, valuesOverlap>>
      BY <1>2 DEF NodeChanges, Effect, startLoading
    <2>2. details' \in [Shard -> Nat]
      BY <2>1
    <2>3. ASSUME details = NoneOf(Shard) PROVE DetailAwaited'
      <3>0. details[n] + 1 = 1
        BY <2>3 DEF NoneOf
      <3>1. details' = [NoneOf(Shard) EXCEPT ![n] = 1]
        BY <2>1, <2>3, <3>0
      <3> QED  BY <2>1, <3>1 DEF DetailAwaited
    <2>4. DetailInv'
      BY <2>1, <2>3 DEF DetailInv
    <2>5. ValueInv'
      BY <2>1 DEF ValueInv, ValueSettled, ValueAwaited
    <2> QED  BY <2>1, <2>2, <2>4, <2>5
  <1>3. ASSUME NEW n \in Shard, NEW ok \in BOOLEAN, DetailArrives(n, ok)
        PROVE  ExplorerInv'
    <2>1. /\ details[n] > 0 /\ details' = [details EXCEPT ![n] = @ - 1]
          /\ ok => nodeDetail' = n
          /\ ~loading' /\ detailMissed' = (detailMissed \/ ~ok)
          /\ UNCHANGED <<open, node, selectedKey, keyValue, loadingValue, values, valuesOverlap>>
      BY <1>3 DEF DetailArrives
    <2>2. /\ details' \in [Shard -> Nat] /\ details # NoneOf(Shard)
          /\ \A s \in Shard : details = [NoneOf(Shard) EXCEPT ![s] = 1]
                                => n = s /\ details' = NoneOf(Shard)
      BY <2>1, CountOut
    <2>3. ASSUME open, node # Nothing, ~detailMissed, ok PROVE DetailSettled'
      <3>1. DetailAwaited
        BY <2>2, <2>3 DEF DetailInv, DetailSettled
      <3>2. n = node /\ details' = NoneOf(Shard)
        BY <2>2, <3>1 DEF DetailAwaited
      <3> QED  BY <2>1, <2>3, <3>2 DEF DetailSettled
    <2>4. DetailInv'
      BY <2>1, <2>3 DEF DetailInv
    <2>5. ValueInv'
      BY <2>1 DEF ValueInv, ValueSettled, ValueAwaited
    <2> QED  BY <2>1, <2>2, <2>4, <2>5
  <1>4. ASSUME NEW n \in Shard, NEW ks \in SUBSET Record, KeysChange(n, ks)
        PROVE  ExplorerInv'
    BY <1>4 DEF KeysChange, DetailInv, DetailSettled, DetailAwaited, ValueInv, ValueSettled,
                ValueAwaited
  <1>5. ASSUME NEW k \in Record, ClickKey(k) PROVE ExplorerInv'
    <2>1. DetailInv' /\ UNCHANGED <<details, open>>
      BY <1>5 DEF ClickKey, DetailInv, DetailSettled, DetailAwaited
    <2>2. CASE ToggleKey(k)
      BY <2>1, <2>2 DEF ToggleKey, ValueInv, ValueSettled, ValueAwaited
    <2>3. CASE AskForValue(k)
      <3>1. /\ values' = [values EXCEPT ![k] = @ + 1]
            /\ selectedKey' = k /\ loadingValue' /\ valuesOverlap' = (values # NoneOf(Record))
        BY <2>3 DEF AskForValue, loadingFrom
      <3>2. values' \in [Record -> Nat]
        BY <3>1
      <3>3. ASSUME ~valuesOverlap' PROVE ValueAwaited(k)'
        <4>1. values = NoneOf(Record)
          BY <3>1, <3>3
        <4>2. values[k] + 1 = 1
          BY <4>1 DEF NoneOf
        <4>3. values' = [NoneOf(Record) EXCEPT ![k] = 1]
          BY <3>1, <4>1, <4>2
        <4> QED  BY <3>1, <4>3 DEF ValueAwaited
      <3> QED  BY <2>1, <3>1, <3>2, <3>3 DEF ValueInv
    <2> QED  BY <1>5, <2>2, <2>3 DEF ClickKey
  <1>6. ASSUME NEW k \in Record, ValueArrives(k) PROVE ExplorerInv'
    <2>1. /\ values[k] > 0 /\ values' = [values EXCEPT ![k] = @ - 1]
          /\ keyValue' = k /\ ~loadingValue'
          /\ UNCHANGED <<open, node, nodeDetail, loading, details, selectedKey, detailMissed,
                         valuesOverlap>>
      BY <1>6 DEF ValueArrives
    <2>2. /\ values' \in [Record -> Nat] /\ values # NoneOf(Record)
          /\ \A j \in Record : values = [NoneOf(Record) EXCEPT ![j] = 1]
                                 => k = j /\ values' = NoneOf(Record)
      BY <2>1, CountOut
    <2>3. ASSUME open, ~valuesOverlap PROVE ValueSettled'
      <3>1. PICK j \in Record : ValueAwaited(j)
        BY <2>2, <2>3 DEF ValueInv, ValueSettled
      <3>2. k = j /\ values' = NoneOf(Record)
        BY <2>2, <3>1 DEF ValueAwaited
      <3> QED  BY <2>1, <3>1, <3>2 DEF ValueSettled, ValueAwaited
    <2>4. DetailInv'
      BY <2>1 DEF DetailInv, DetailSettled, DetailAwaited
    <2> QED  BY <2>1, <2>2, <2>3, <2>4 DEF ValueInv
  <1>7. CASE Unmount
    <2>1. NoneOf(Shard) \in [Shard -> Nat] /\ NoneOf(Record) \in [Record -> Nat]
      BY DEF NoneOf
    <2> QED  BY <1>7, <2>1 DEF Unmount, DetailInv, ValueInv
  <1>8. CASE CloseValue \/ CopyValue \/ CopiedFades \/ UNCHANGED explorerVars
    BY <1>8 DEF CloseValue, CopyValue, CopiedFades, explorerVars, DetailInv, DetailSettled,
                DetailAwaited, ValueInv, ValueSettled, ValueAwaited
  <1> QED
    BY <1>1, <1>2, <1>3, <1>4, <1>5, <1>6, <1>7, <1>8 DEF ExplorerNext

(* What the explorer asks for and shows are nodes and keys.                *)
LEMMA ExplorerTyped ==
    /\ ExplorerInit => ExplorerTypeOK
    /\ ExplorerTypeOK /\ [ExplorerNext]_explorerVars => ExplorerTypeOK'
  <1>0. NoneOf(Shard) \in [Shard -> Nat] /\ NoneOf(Record) \in [Record -> Nat]
    BY DEF NoneOf
  <1>1. ASSUME ExplorerInit PROVE ExplorerTypeOK
    BY <1>0, <1>1 DEF ExplorerInit, ExplorerTypeOK
  <1>2. ASSUME ExplorerTypeOK, [ExplorerNext]_explorerVars PROVE ExplorerTypeOK'
    <2> USE <1>2 DEF ExplorerTypeOK
    <2>1. ASSUME NEW n \in Shard \union {Nothing}, Mount(n) PROVE ExplorerTypeOK'
      BY <1>0, <2>1 DEF Mount
    <2>2. ASSUME NEW n \in Shard, NodeChanges(n) PROVE ExplorerTypeOK'
      <3>1. CASE n = Nothing
        BY <2>2, <3>1 DEF NodeChanges, Effect
      <3>2. CASE n # Nothing
        <4>1. details' = [details EXCEPT ![n] = @ + 1]
          BY <2>2, <3>2 DEF NodeChanges, Effect
        <4>2. details' \in [Shard -> Nat]
          BY <4>1
        <4> QED  BY <2>2, <3>2, <4>2 DEF NodeChanges, Effect, startLoading
      <3> QED  BY <3>1, <3>2
    <2>3. ASSUME NEW n \in Shard, NEW ok \in BOOLEAN, DetailArrives(n, ok) PROVE ExplorerTypeOK'
      <3>1. details[n] > 0 /\ details' = [details EXCEPT ![n] = @ - 1]
        BY <2>3 DEF DetailArrives
      <3>2. details' \in [Shard -> Nat]
        BY <3>1
      <3> QED  BY <2>3, <3>2 DEF DetailArrives
    <2>4. ASSUME NEW n \in Shard, NEW ks \in SUBSET Record, KeysChange(n, ks)
          PROVE  ExplorerTypeOK'
      BY <2>4 DEF KeysChange
    <2>5. ASSUME NEW k \in Record, ClickKey(k) PROVE ExplorerTypeOK'
      <3>1. CASE ToggleKey(k)
        BY <2>5, <3>1 DEF ClickKey, ToggleKey
      <3>2. CASE AskForValue(k)
        <4>1. values' = [values EXCEPT ![k] = @ + 1]
          BY <3>2 DEF AskForValue
        <4>2. values' \in [Record -> Nat]
          BY <4>1
        <4> QED  BY <2>5, <3>2, <4>2 DEF ClickKey, AskForValue, loadingFrom
      <3> QED  BY <2>5, <3>1, <3>2 DEF ClickKey
    <2>6. ASSUME NEW k \in Record, ValueArrives(k) PROVE ExplorerTypeOK'
      <3>1. values[k] > 0 /\ values' = [values EXCEPT ![k] = @ - 1]
        BY <2>6 DEF ValueArrives
      <3>2. values' \in [Record -> Nat]
        BY <3>1
      <3> QED  BY <2>6, <3>2 DEF ValueArrives
    <2>7. CASE Unmount
      BY <1>0, <2>7 DEF Unmount
    <2>8. CASE CloseValue \/ CopyValue \/ CopiedFades \/ UNCHANGED explorerVars
      BY <2>8 DEF CloseValue, CopyValue, CopiedFades, explorerVars
    <2> QED
      BY <2>1, <2>2, <2>3, <2>4, <2>5, <2>6, <2>7, <2>8 DEF ExplorerNext
  <1> QED  BY <1>1, <1>2

(* Whatever nodes and keys are clicked, closed and clicked again, and      *)
(* however the answers come: details stand under their own node and values *)
(* under their own key, as long as no two requests of a kind overlapped.   *)
THEOREM ExplorerCorrect ==
    ExplorerSpec => [](ExplorerTypeOK /\ DetailOfSelectedNode /\ ValueOfSelectedKey)
  <1>1. ExplorerInit => ExplorerInv
    <2>1. NoneOf(Shard) \in [Shard -> Nat] /\ NoneOf(Record) \in [Record -> Nat]
      BY DEF NoneOf
    <2> QED
      BY <2>1, ExplorerAssumption
      DEF ExplorerInit, ExplorerInv, ExplorerTypes, DetailInv, ValueInv
  <1>2. ExplorerInv => DetailOfSelectedNode /\ ValueOfSelectedKey
    <2> SUFFICES ASSUME ExplorerInv PROVE DetailOfSelectedNode /\ ValueOfSelectedKey
      OBVIOUS
    <2>1. DetailOfSelectedNode
      BY DEF ExplorerInv, DetailInv, DetailSettled, DetailAwaited, DetailOfSelectedNode,
             NodePanel
    <2>2. ASSUME open, selectedKey # Nothing, ~loadingValue, ~valuesOverlap
          PROVE  keyValue = selectedKey
      BY <2>2 DEF ExplorerInv, ValueInv, ValueSettled, ValueAwaited
    <2>3. ValuePanel.shows = "value" /\ ~valuesOverlap /\ open
            => selectedKey # Nothing /\ ~loadingValue
      BY DEF ValuePanel
    <2> QED  BY <2>1, <2>2, <2>3 DEF ValueOfSelectedKey, ValuePanel
  <1> QED  BY <1>1, <1>2, ExplorerStep, ExplorerTyped, PTL DEF ExplorerSpec

-----------------------------------------------------------------------------
(* The chat: question and answer take turns in both lists, the call of the *)
(* q-th question writes to place 2q, and it has written there when it got  *)
(* a text or is over.                                                      *)
InTurns(s, k) ==
    /\ s \in Seq(MessageType) /\ Len(s) = 2 * k
    /\ \A i \in 1 .. k : /\ s[2 * i - 1].role = "user" /\ s[2 * i - 1].question = i
                         /\ s[2 * i].role = "ai" /\ s[2 * i].question = i

ChatTypes ==
    /\ isTyping \in BOOLEAN /\ overlapped \in BOOLEAN /\ overtaken \in BOOLEAN
    /\ phase \in [Questions -> {"unasked", "asked", "streaming", "done"}]
    /\ aiMsgIdx \in [Questions -> Nat] /\ fullText \in [Questions -> BOOLEAN]

Asked(k) ==
    /\ InTurns(messages, k) /\ InTurns(rendered, k)
    /\ \A q \in Questions : /\ phase[q] # "unasked" <=> q <= k
                            /\ q <= k => aiMsgIdx[q] = 2 * q
                            /\ fullText[q] => q <= k

Written ==
    ~overtaken => \A q \in Questions :
                      phase[q] = "done" \/ fullText[q] => messages[2 * q].text # ""

OneAtATime ==
    ~overlapped => /\ \A p, q \in Pending : p = q
                   /\ Pending # {} => isTyping

ChatInv ==
    /\ ChatTypes
    /\ \E k \in 0 .. MaxQuestions : Asked(k)
    /\ Written
    /\ OneAtATime

LEMMA Places == \A k \in Nat : \A i \in 1 .. 2 * k :
                    \/ \E j \in 1 .. k : i = 2 * j
                    \/ \E j \in 1 .. k : i = 2 * j - 1
  <1> SUFFICES ASSUME NEW k \in Nat, NEW i \in 1 .. 2 * k
               PROVE  \/ \E j \in 1 .. k : i = 2 * j
                      \/ \E j \in 1 .. k : i = 2 * j - 1
    OBVIOUS
  <1> DEFINE j == (i + 1) \div 2
  <1>1. j \in 1 .. k /\ (i = 2 * j \/ i = 2 * j - 1)
    OBVIOUS
  <1> HIDE DEF j
  <1> QED  BY <1>1

(* A question and its empty answer are put behind the list.                *)
LEMMA TurnAdded ==
    ASSUME NEW k \in Nat, NEW s, InTurns(s, k), k + 1 \in Questions
    PROVE  LET t == s \o <<Message("user", k + 1, "text"), Message("ai", k + 1, "")>>
           IN  /\ InTurns(t, k + 1)
               /\ \A i \in 1 .. 2 * k : t[i] = s[i]
  <1> DEFINE u == Message("user", k + 1, "text")
             a == Message("ai", k + 1, "")
             pair == <<u, a>>
             t == s \o pair
  <1>1. /\ u \in MessageType /\ u.role = "user" /\ u.question = k + 1
        /\ a \in MessageType /\ a.role = "ai" /\ a.question = k + 1
    BY DEF Message, MessageType, Texts
  <1> HIDE DEF u, a
  <1>2. /\ pair \in Seq(MessageType) /\ Len(pair) = 2
        /\ pair[1].role = "user" /\ pair[1].question = k + 1
        /\ pair[2].role = "ai" /\ pair[2].question = k + 1
    BY <1>1
  <1> HIDE DEF pair
  <1>3. s \in Seq(MessageType) /\ Len(s) = 2 * k
    BY DEF InTurns
  <1>4. /\ t \in Seq(MessageType) /\ Len(t) = 2 * k + 2
        /\ \A i \in 1 .. 2 * k + 2 : t[i] = IF i <= 2 * k THEN s[i] ELSE pair[i - 2 * k]
    <2>1. /\ s \o pair \in Seq(MessageType) /\ Len(s \o pair) = Len(s) + Len(pair)
          /\ \A i \in 1 .. Len(s) + Len(pair) :
                (s \o pair)[i] = IF i <= Len(s) THEN s[i] ELSE pair[i - Len(s)]
      BY <1>2, <1>3, ConcatProperties
    <2> QED  BY <1>2, <1>3, <2>1
  <1> HIDE DEF t
  <1>5. ASSUME NEW i \in 1 .. k + 1
        PROVE  /\ t[2 * i - 1].role = "user" /\ t[2 * i - 1].question = i
               /\ t[2 * i].role = "ai" /\ t[2 * i].question = i
    <2>1. CASE i \in 1 .. k
      <3>1. /\ 2 * i \in 1 .. 2 * k + 2 /\ 2 * i <= 2 * k
            /\ 2 * i - 1 \in 1 .. 2 * k + 2 /\ 2 * i - 1 <= 2 * k
        BY <2>1
      <3>2. t[2 * i] = s[2 * i] /\ t[2 * i - 1] = s[2 * i - 1]
        BY <1>4, <3>1
      <3> QED  BY <2>1, <3>2 DEF InTurns
    <2>2. CASE i = k + 1
      <3>1. /\ 2 * i \in 1 .. 2 * k + 2 /\ ~(2 * i <= 2 * k) /\ 2 * i - 2 * k = 2
            /\ 2 * i - 1 \in 1 .. 2 * k + 2 /\ ~(2 * i - 1 <= 2 * k) /\ 2 * i - 1 - 2 * k = 1
        BY <2>2
      <3>2. t[2 * i] = pair[2] /\ t[2 * i - 1] = pair[1]
        BY <1>4, <3>1
      <3> QED  BY <1>2, <2>2, <3>2
    <2> QED  BY <2>1, <2>2
  <1>6. InTurns(t, k + 1)
    BY <1>4, <1>5 DEF InTurns
  <1>7. \A i \in 1 .. 2 * k : t[i] = s[i]
    BY <1>4
  <1> QED  BY <1>6, <1>7 DEF t, pair, u, a

(* An answer is written at its place.                                      *)
WithAnswer(s, q, text) == [s EXCEPT ![2 * q] = Message("ai", q, text)]

SameBut(s, t, k, q) == \A i \in 1 .. 2 * k : i # 2 * q => t[i] = s[i]

LEMMA AnswerWritten ==
    \A k \in Nat, q \in Questions, text \in Texts : \A s, t :
        InTurns(s, k) /\ q \in 1 .. k /\ t = WithAnswer(s, q, text)
            => InTurns(t, k) /\ t[2 * q].text = text /\ SameBut(s, t, k, q)
  <1> SUFFICES ASSUME NEW k \in Nat, NEW q \in Questions, NEW text \in Texts, NEW s, NEW t,
                      InTurns(s, k), q \in 1 .. k, t = WithAnswer(s, q, text)
               PROVE  InTurns(t, k) /\ t[2 * q].text = text /\ SameBut(s, t, k, q)
    BY Zenon
  <1> DEFINE m == Message("ai", q, text)
  <1>0. t = [s EXCEPT ![2 * q] = m]
    BY DEF WithAnswer
  <1>1. m \in MessageType /\ m.role = "ai" /\ m.question = q /\ m.text = text
    BY DEF Message, MessageType
  <1> HIDE DEF m
  <1>2. s \in Seq(MessageType) /\ Len(s) = 2 * k /\ 2 * q \in 1 .. Len(s)
    BY DEF InTurns
  <1>3. /\ t \in Seq(MessageType) /\ Len(t) = Len(s)
        /\ \A j \in 1 .. Len(s) : t[j] = IF j = 2 * q THEN m ELSE s[j]
    BY <1>0, <1>1, <1>2, ExceptSeq
  <1>4. ASSUME NEW i \in 1 .. k
        PROVE  /\ t[2 * i - 1].role = "user" /\ t[2 * i - 1].question = i
               /\ t[2 * i].role = "ai" /\ t[2 * i].question = i
    <2>1. /\ 2 * i \in 1 .. Len(s) /\ 2 * i - 1 \in 1 .. Len(s) /\ 2 * i - 1 # 2 * q
          /\ 2 * i = 2 * q => i = q
      BY <1>2
    <2>2. t[2 * i - 1] = s[2 * i - 1] /\ (t[2 * i] = s[2 * i] \/ (i = q /\ t[2 * i] = m))
      BY <1>3, <2>1
    <2> QED  BY <1>1, <2>2 DEF InTurns
  <1>5. InTurns(t, k)
    BY <1>2, <1>3, <1>4 DEF InTurns
  <1>6. t[2 * q].text = text /\ SameBut(s, t, k, q)
    BY <1>1, <1>2, <1>3 DEF SameBut
  <1> QED  BY <1>5, <1>6

LEMMA QuestionNumbers ==
    /\ \A q \in Questions : q \in Nat /\ q >= 1
    /\ \A k \in 0 .. MaxQuestions : k \in Nat
  BY ChatAssumption DEF Questions

(* What a call does when it gets its text, or is over.                     *)
Writes(q) ==
    \/ \E text \in Texts \ {""} : Answer(q, text)
    \/ fullText[q] /\ messages' = messages

ConcernsOnly(q) ==
    /\ UNCHANGED <<rendered, aiMsgIdx, overtaken>>
    /\ \A p \in Questions \ {q} : phase'[p] = phase[p] /\ fullText'[p] = fullText[p]
    /\ phase'[q] # "unasked"

LEMMA CallStep ==
    ASSUME ChatInv, NEW q \in Questions, q \in Pending, Writes(q), ConcernsOnly(q)
    PROVE  (\E k \in 0 .. MaxQuestions : Asked(k)') /\ Written'
  <1>1. PICK k \in 0 .. MaxQuestions : Asked(k)
    BY DEF ChatInv
  <1>2. q \in 1 .. k /\ aiMsgIdx[q] = 2 * q /\ k \in Nat /\ q \in Nat
    <2>1. phase[q] # "unasked" /\ q \in Nat /\ q >= 1 /\ k \in Nat
      BY QuestionNumbers DEF Pending
    <2>2. q <= k /\ aiMsgIdx[q] = 2 * q
      BY <1>1, <2>1 DEF Asked
    <2> QED  BY <2>1, <2>2
  <1>3. /\ InTurns(messages', k)
        /\ ~overtaken => messages'[2 * q].text # ""
        /\ \A i \in 1 .. 2 * k : i # 2 * q => messages'[i] = messages[i]
    <2>1. ASSUME NEW text \in Texts \ {""}, Answer(q, text)
          PROVE  /\ InTurns(messages', k)
                 /\ messages'[2 * q].text # ""
                 /\ \A i \in 1 .. 2 * k : i # 2 * q => messages'[i] = messages[i]
      <3>1. messages' = WithAnswer(messages, q, text)
        BY <1>2, <2>1 DEF Answer, WithAnswer
      <3>2. InTurns(messages, k) /\ text \in Texts
        BY <1>1 DEF Asked
      <3>3. /\ InTurns(messages', k) /\ messages'[2 * q].text = text
            /\ SameBut(messages, messages', k, q)
        <4>1. \A s, t : InTurns(s, k) /\ q \in 1 .. k /\ t = WithAnswer(s, q, text)
                          => InTurns(t, k) /\ t[2 * q].text = text /\ SameBut(s, t, k, q)
          BY <1>2, <3>2, AnswerWritten, Zenon
        <4> QED  BY <1>2, <3>1, <3>2, <4>1, Zenon
      <3> QED  BY <3>3 DEF SameBut
    <2>2. CASE fullText[q] /\ messages' = messages
      BY <1>1, <1>2, <2>2 DEF Asked, ChatInv, Written
    <2> QED  BY <2>1, <2>2 DEF Writes
  <1>4. Asked(k)'
    <2>1. \A p \in Questions : /\ phase'[p] # "unasked" <=> p <= k
                               /\ p <= k => aiMsgIdx'[p] = 2 * p
                               /\ fullText'[p] => p <= k
      <3> SUFFICES ASSUME NEW p \in Questions
                   PROVE  /\ phase'[p] # "unasked" <=> p <= k
                          /\ p <= k => aiMsgIdx'[p] = 2 * p
                          /\ fullText'[p] => p <= k
        OBVIOUS
      <3>1. /\ phase[p] # "unasked" <=> p <= k
            /\ p <= k => aiMsgIdx[p] = 2 * p
            /\ fullText[p] => p <= k
        BY <1>1 DEF Asked
      <3>2. CASE p = q
        BY <1>2, <3>1, <3>2 DEF ConcernsOnly
      <3>3. CASE p # q
        BY <3>1, <3>3 DEF ConcernsOnly
      <3> QED  BY <3>2, <3>3
    <2>2. InTurns(rendered', k)
      BY <1>1 DEF Asked, ConcernsOnly
    <2> QED  BY <1>3, <2>1, <2>2 DEF Asked
  <1>5. Written'
    <2> SUFFICES ASSUME ~overtaken, NEW p \in Questions, phase'[p] = "done" \/ fullText'[p]
                 PROVE  messages'[2 * p].text # ""
      BY DEF Written, ConcernsOnly
    <2>1. CASE p = q
      BY <1>3, <2>1
    <2>2. CASE p # q
      <3>1. phase[p] = "done" \/ fullText[p]
        BY <2>2 DEF ConcernsOnly
      <3>2. messages[2 * p].text # ""
        BY <3>1 DEF ChatInv, Written
      <3>3. p \in Nat /\ p >= 1 /\ p <= k
        BY <1>1, <3>1, QuestionNumbers DEF Asked
      <3>4. 2 * p \in 1 .. 2 * k /\ 2 * p # 2 * q
        BY <1>2, <2>2, <3>3
      <3> QED  BY <1>3, <3>2, <3>4
    <2> QED  BY <2>1, <2>2
  <1> QED  BY <1>4, <1>5

(* The end of the only call ends all waiting.                              *)
LEMMA FinishStep ==
    ASSUME ChatInv, NEW q \in Pending, Finish(q) PROVE ChatTypes' /\ OneAtATime'
  <1>1. q \in Questions /\ phase' = [phase EXCEPT ![q] = "done"] /\ ~isTyping'
        /\ UNCHANGED <<aiMsgIdx, fullText, overlapped, overtaken>>
    BY DEF Finish, Pending
  <1>2. ChatTypes'
    BY <1>1 DEF ChatInv, ChatTypes, Finish
  <1>3. Pending' = Pending \ {q}
    BY <1>1 DEF Pending, ChatInv, ChatTypes
  <1>4. OneAtATime'
    BY <1>1, <1>3 DEF ChatInv, OneAtATime
  <1> QED  BY <1>2, <1>4

LEMMA AskStep == ASSUME ChatInv, NEW q \in Questions, handleSend(q) PROVE ChatInv'
  <1>1. PICK k \in 0 .. MaxQuestions : Asked(k)
    BY DEF ChatInv
  <1>2. k \in Nat /\ q = k + 1
    <2>0. q \in Nat /\ k \in Nat /\ phase[q] = "unasked"
      BY QuestionNumbers DEF handleSend
    <2>1. q \in Nat /\ q > k /\ k \in Nat
      BY <1>1, <2>0 DEF Asked
    <2>2. CASE k + 1 < q
      <3>1. k + 1 \in Questions
        BY <2>1, <2>2, ChatAssumption DEF Questions
      <3>2. phase[k + 1] # "unasked"
        BY <2>2, <3>1 DEF handleSend
      <3>3. k + 1 <= k
        BY <1>1, <3>1, <3>2 DEF Asked
      <3> QED  BY <2>1, <3>3
    <2> QED  BY <2>1, <2>2
  <1>3. InTurns(rendered, k) /\ Len(rendered) = 2 * k
    BY <1>1 DEF Asked, InTurns
  <1>4. /\ messages' = rendered \o <<Message("user", k + 1, "text"), Message("ai", k + 1, "")>>
        /\ rendered' = messages'
    BY <1>2 DEF handleSend
  <1>5. InTurns(messages', k + 1) /\ \A i \in 1 .. 2 * k : messages'[i] = rendered[i]
    BY <1>2, <1>3, <1>4, TurnAdded
  <1>6. /\ phase' = [phase EXCEPT ![q] = "asked"] /\ phase[q] = "unasked"
        /\ aiMsgIdx' = [aiMsgIdx EXCEPT ![q] = 2 * k + 2]
        /\ fullText' = fullText
        /\ overlapped' = (overlapped \/ Pending # {})
        /\ overtaken' = (overtaken \/ messages # rendered)
        /\ isTyping'
    BY <1>3 DEF handleSend, placeOfAnswer
  <1>7. ChatTypes'
    BY <1>2, <1>6 DEF ChatInv, ChatTypes
  <1>8. Asked(k + 1)'
    <2>1. ASSUME NEW p \in Questions
          PROVE  /\ phase'[p] # "unasked" <=> p <= k + 1
                 /\ p <= k + 1 => aiMsgIdx'[p] = 2 * p
                 /\ fullText'[p] => p <= k + 1
      <3>1. p \in Nat /\ (p <= k + 1 <=> p <= k \/ p = q)
        BY <1>2, ChatAssumption DEF Questions
      <3>2. CASE p = q
        BY <1>2, <1>6, <3>2 DEF ChatInv, ChatTypes
      <3>3. CASE p # q
        BY <1>1, <1>6, <3>1, <3>3 DEF ChatInv, ChatTypes, Asked
      <3> QED  BY <3>2, <3>3
    <2> QED  BY <1>4, <1>5, <2>1 DEF Asked
  <1>9. k + 1 \in 0 .. MaxQuestions
    BY <1>2, ChatAssumption DEF Questions
  <1>10. Written'
    <2> SUFFICES ASSUME ~overtaken', NEW p \in Questions, phase'[p] = "done" \/ fullText'[p]
                 PROVE  messages'[2 * p].text # ""
      BY DEF Written
    <2>1. ~overtaken /\ messages = rendered
      BY <1>6
    <2>2. ~fullText[q]
      BY <1>1, <1>2 DEF Asked
    <2>3. phase[p] = "done" \/ fullText[p]
      BY <1>6, <2>2 DEF ChatInv, ChatTypes
    <2>4. p \in 1 .. k /\ p \in Nat
      BY <1>1, <2>3, ChatAssumption DEF Asked, Questions
    <2>5. 2 * p \in 1 .. 2 * k
      BY <1>2, <2>4
    <2> QED  BY <1>5, <2>1, <2>3, <2>5 DEF ChatInv, Written
  <1>11. OneAtATime'
    <2> SUFFICES ASSUME ~overlapped' PROVE \A x, y \in Pending' : x = y
      BY <1>6 DEF OneAtATime
    <2>1. Pending = {}
      BY <1>6
    <2>2. Pending' = Pending \union {q}
      BY <1>6 DEF Pending, ChatInv, ChatTypes
    <2> QED  BY <2>1, <2>2
  <1> QED  BY <1>7, <1>8, <1>9, <1>10, <1>11 DEF ChatInv

LEMMA ChatStep == ChatInv /\ [ChatNext]_chatVars => ChatInv'
  <1> SUFFICES ASSUME ChatInv, [ChatNext]_chatVars PROVE ChatInv'
    OBVIOUS
  <1>1. CASE OpenOrClose \/ TypeInput \/ QuickAction \/ UNCHANGED chatVars
    <2>1. UNCHANGED <<messages, rendered, isTyping, phase, aiMsgIdx, fullText, overlapped,
                      overtaken>>
      BY <1>1 DEF OpenOrClose, TypeInput, QuickAction, chatVars
    <2> QED  BY <2>1 DEF ChatInv, ChatTypes, Asked, Written, OneAtATime, Pending
  <1>2. CASE Render
    <2>1. rendered' = messages /\ UNCHANGED <<messages, isTyping, phase, aiMsgIdx, fullText,
                                              overlapped, overtaken>>
      BY <1>2 DEF Render
    <2> QED  BY <2>1 DEF ChatInv, ChatTypes, Asked, Written, OneAtATime, Pending
  <1>3. ASSUME NEW q \in Questions, handleSend(q) PROVE ChatInv'
    BY <1>3, AskStep
  <1>4. ASSUME NEW q \in Questions, Respond(q) PROVE ChatInv'
    <2>1. /\ phase[q] = "asked" /\ phase' = [phase EXCEPT ![q] = "streaming"]
          /\ UNCHANGED <<messages, rendered, isTyping, aiMsgIdx, fullText, overlapped, overtaken>>
      BY <1>4 DEF Respond, typingGoesOn
    <2>2. ChatTypes' /\ Pending' = Pending
      BY <2>1 DEF ChatInv, ChatTypes, Pending
    <2>3. \A p \in Questions : /\ phase'[p] = "unasked" <=> phase[p] = "unasked"
                               /\ phase'[p] = "done" <=> phase[p] = "done"
      BY <2>1 DEF ChatInv, ChatTypes
    <2> QED  BY <2>1, <2>2, <2>3 DEF ChatInv, Asked, Written, OneAtATime
  <1>5. ASSUME NEW q \in Questions, FrameArrives(q) PROVE ChatInv'
    <2>1. /\ q \in Pending /\ phase[q] = "streaming" /\ Answer(q, "text")
          /\ fullText' = [fullText EXCEPT ![q] = TRUE]
          /\ UNCHANGED <<rendered, isTyping, phase, aiMsgIdx, overlapped, overtaken>>
      BY <1>5 DEF FrameArrives, Pending
    <2>2. ChatTypes' /\ OneAtATime'
      BY <2>1 DEF ChatInv, ChatTypes, OneAtATime, Pending
    <2>3. ConcernsOnly(q)
      BY <2>1 DEF ChatInv, ChatTypes, ConcernsOnly
    <2>4. Writes(q)
      BY <2>1 DEF Writes, Texts
    <2>5. (\E k \in 0 .. MaxQuestions : Asked(k)') /\ Written'
      BY <2>1, <2>3, <2>4, CallStep
    <2> QED  BY <2>2, <2>5 DEF ChatInv
  <1>6. ASSUME NEW q \in Questions, Refuse(q) \/ StreamEnds(q) \/ NetworkError(q)
        PROVE  ChatInv'
    <2>1. /\ q \in Pending /\ Finish(q)
          /\ \/ Answer(q, "notice")
             \/ fullText[q] /\ UNCHANGED messages
      BY <1>6 DEF Refuse, StreamEnds, NetworkError, fallback, Pending
    <2>2. ChatTypes' /\ OneAtATime'
      BY <2>1, FinishStep
    <2>3. ConcernsOnly(q)
      BY <2>1 DEF Finish, ChatInv, ChatTypes, ConcernsOnly
    <2>4. Writes(q)
      BY <2>1 DEF Writes, Texts
    <2>5. (\E k \in 0 .. MaxQuestions : Asked(k)') /\ Written'
      BY <2>1, <2>3, <2>4, CallStep
    <2> QED  BY <2>2, <2>5 DEF ChatInv
  <1> QED  BY <1>1, <1>2, <1>3, <1>4, <1>5, <1>6 DEF ChatNext

(* The chat's switches.                                                    *)
ChatSwitches == isOpen \in BOOLEAN /\ input \in BOOLEAN

LEMMA ChatTyped ==
    /\ ChatInit => ChatSwitches
    /\ ChatSwitches /\ [ChatNext]_chatVars => ChatSwitches'
    /\ ChatInv /\ ChatSwitches => ChatTypeOK
  <1>1. ASSUME ChatInit PROVE ChatSwitches
    BY <1>1 DEF ChatInit, ChatSwitches
  <1>2. ASSUME ChatSwitches, [ChatNext]_chatVars PROVE ChatSwitches'
    BY <1>2 DEF ChatSwitches, ChatNext, OpenOrClose, TypeInput, QuickAction, Render, handleSend,
                Respond, Refuse, FrameArrives, StreamEnds, NetworkError, Finish, chatVars
  <1>3. ASSUME ChatInv, ChatSwitches PROVE ChatTypeOK
    <2>1. PICK k \in 0 .. MaxQuestions : Asked(k)
      BY <1>3 DEF ChatInv
    <2> QED  BY <1>3, <2>1 DEF ChatInv, ChatTypes, ChatSwitches, Asked, InTurns, ChatTypeOK
  <1> QED  BY <1>1, <1>2, <1>3

(* However many questions are asked, answered and refused, and in whatever *)
(* order: every answer stands under its own question, none that is over is *)
(* blank, and one that is awaited does not look empty -- except for what   *)
(* questions asked on top of each other take away.                         *)
THEOREM ChatCorrect ==
    ChatSpec => [](/\ ChatTypeOK /\ AnswersUnderQuestions /\ NoBlankAnswers
                   /\ ThinkingWhileWaiting)
  <1>1. ChatInit => ChatInv
    <2> SUFFICES ASSUME ChatInit PROVE ChatInv
      OBVIOUS
    <2>1. ChatTypes /\ Pending = {}
      BY DEF ChatInit, ChatTypes, Pending
    <2>2. InTurns(<<>>, 0)
      BY DEF InTurns
    <2>3. Asked(0) /\ 0 \in 0 .. MaxQuestions
      BY <2>2, ChatAssumption DEF Asked, ChatInit, Questions
    <2> QED  BY <2>1, <2>3 DEF ChatInit, ChatInv, Written, OneAtATime
  <1>2. ChatInv => AnswersUnderQuestions /\ NoBlankAnswers /\ ThinkingWhileWaiting
    <2> SUFFICES ASSUME ChatInv
                 PROVE  AnswersUnderQuestions /\ NoBlankAnswers /\ ThinkingWhileWaiting
      OBVIOUS
    <2>1. PICK k \in 0 .. MaxQuestions : Asked(k)
      BY DEF ChatInv
    <2>2. k \in Nat /\ InTurns(messages, k)
      BY <2>1, ChatAssumption DEF Asked
    <2>3. AnswersUnderQuestions
      <3> SUFFICES ASSUME NEW i \in DOMAIN messages
                   PROVE  /\ messages[i].role = IF i % 2 = 1 THEN "user" ELSE "ai"
                          /\ messages[i].question = (i + 1) \div 2
        BY DEF AnswersUnderQuestions
      <3>1. i \in 1 .. 2 * k
        BY <2>2 DEF InTurns
      <3>2. ASSUME NEW j \in 1 .. k, i = 2 * j
            PROVE  /\ messages[i].role = IF i % 2 = 1 THEN "user" ELSE "ai"
                   /\ messages[i].question = (i + 1) \div 2
        <4>1. i % 2 = 0 /\ (i + 1) \div 2 = j
          BY <3>2
        <4>2. messages[2 * j].role = "ai" /\ messages[2 * j].question = j
          BY <2>2 DEF InTurns
        <4> QED  BY <3>2, <4>1, <4>2
      <3>3. ASSUME NEW j \in 1 .. k, i = 2 * j - 1
            PROVE  /\ messages[i].role = IF i % 2 = 1 THEN "user" ELSE "ai"
                   /\ messages[i].question = (i + 1) \div 2
        <4>1. i % 2 = 1 /\ (i + 1) \div 2 = j
          BY <3>3
        <4> QED  BY <2>2, <3>3, <4>1 DEF InTurns
      <3> QED  BY <2>2, <3>1, <3>2, <3>3, Places
    <2>4. NoBlankAnswers
      <3> SUFFICES ASSUME ~overtaken, NEW q \in Questions, phase[q] = "done"
                   PROVE  messages[aiMsgIdx[q]].text # ""
        BY DEF NoBlankAnswers
      <3> QED  BY <2>1 DEF Asked, ChatInv, Written
    <2>5. ThinkingWhileWaiting
      <3> SUFFICES ASSUME ~overlapped, NEW q \in Pending
                   PROVE  ShownText(messages[aiMsgIdx[q]]) # "empty response"
        BY DEF ThinkingWhileWaiting
      <3>1. q \in Questions /\ q \in 1 .. k /\ aiMsgIdx[q] = 2 * q
        BY <2>1, ChatAssumption DEF Asked, Pending, Questions
      <3>2. messages[2 * q].role = "ai" /\ messages[2 * q] \in MessageType
        <4>1. 2 * q \in 1 .. Len(messages) /\ messages \in Seq(MessageType)
          BY <2>2, <3>1 DEF InTurns
        <4> QED  BY <2>2, <3>1, <4>1, ElementOfSeq DEF InTurns
      <3>3. messages[2 * q].text \in Texts /\ isTyping
        BY <3>2 DEF MessageType, ChatInv, OneAtATime
      <3> QED  BY <3>1, <3>2, <3>3 DEF ShownText, Texts
    <2> QED  BY <2>3, <2>4, <2>5
  <1> QED  BY <1>1, <1>2, ChatStep, ChatTyped, PTL DEF ChatSpec

-----------------------------------------------------------------------------
(* The guide: a node has its first name, or the number before its place.   *)
GuideInv ==
    /\ toyNodes \in Seq(Nat \union Range(FirstNames))
    /\ \A i \in 1 .. Len(toyNodes) :
          \/ toyNodes[i] = i - 1
          \/ i \in 1 .. Len(FirstNames) /\ toyNodes[i] = FirstNames[i]

(* The guide's topic.                                                      *)
GuideHeld == reading \in BOOLEAN /\ activeTopic \in TOPICS

LEMMA GuideTyped ==
    /\ GuideInit => GuideHeld
    /\ GuideHeld /\ [GuideNext]_guideVars => GuideHeld'
    /\ GuideInv /\ GuideHeld => GuideTypeOK
  <1>1. ASSUME GuideInit PROVE GuideHeld
    BY <1>1 DEF GuideInit, GuideHeld, TOPICS
  <1>2. ASSUME GuideHeld, [GuideNext]_guideVars PROVE GuideHeld'
    BY <1>2 DEF GuideHeld, GuideNext, OpenGuide, onBack, AddToyNode, RemoveToyNode, ShowTopic,
                guideVars, TOPICS
  <1>3. ASSUME GuideInv, GuideHeld PROVE GuideTypeOK
    BY <1>3 DEF GuideInv, GuideHeld, GuideTypeOK
  <1> QED  BY <1>1, <1>2, <1>3

(* Adding and removing toy nodes, in any order: no two have one name.      *)
THEOREM GuideCorrect == GuideSpec => [](GuideTypeOK /\ GuideKeysUnique)
  <1>0. FirstNames \in Seq(Range(FirstNames))
    BY GuideAssumption
  <1>1. GuideInit => GuideInv
    BY <1>0 DEF GuideInit, GuideInv
  <1>2. GuideInv /\ [GuideNext]_guideVars => GuideInv'
    <2> SUFFICES ASSUME GuideInv, [GuideNext]_guideVars PROVE GuideInv'
      OBVIOUS
    <2> USE DEF GuideInv
    <2>1. CASE AddToyNode
      BY <2>1 DEF AddToyNode
    <2>2. CASE RemoveToyNode
      BY <2>2 DEF RemoveToyNode, WithoutLast, Front
    <2>3. CASE \E topic \in TOPICS : ShowTopic(topic)
      BY <2>3, <1>0 DEF ShowTopic
    <2>4. CASE OpenGuide \/ onBack \/ UNCHANGED guideVars
      BY <2>4 DEF OpenGuide, onBack, guideVars
    <2> QED  BY <2>1, <2>2, <2>3, <2>4 DEF GuideNext
  <1>3. GuideInv => GuideKeysUnique
    <2> SUFFICES ASSUME GuideInv, NEW i \in DOMAIN toyNodes, NEW j \in DOMAIN toyNodes,
                        toyNodes[i] = toyNodes[j]
                 PROVE  i = j
      BY DEF GuideKeysUnique, IsInjective
    <2>1. i \in 1 .. Len(toyNodes) /\ j \in 1 .. Len(toyNodes)
      BY DEF GuideInv
    <2>2. \A x \in 1 .. Len(FirstNames) : FirstNames[x] \notin Nat
      BY <1>0, GuideAssumption DEF Range
    <2>3. \A x, y \in 1 .. Len(FirstNames) : FirstNames[x] = FirstNames[y] => x = y
      BY <1>0, GuideAssumption DEF IsInjective
    <2> QED  BY <2>1, <2>2, <2>3 DEF GuideInv
  <1> QED  BY <1>1, <1>2, <1>3, GuideTyped, PTL DEF GuideSpec

-----------------------------------------------------------------------------
(* The nodes are drawn in the order of the ring that is drawn.             *)
Drawn(order, v) ==
    \A i, j \in DOMAIN order : i < j => indexOf(order[i], v) <= indexOf(order[j], v)

(* The picture is at least as new as version v.                            *)
Recent(v) ==
    /\ ringData >= v
    /\ \E u \in Versions : u >= v /\ Range(cluster) = Members[u]

(* Unless refreshes overlapped or failed, there is at most one, which      *)
(* began when the last one did, and whose picture is recent once it only   *)
(* has the keys to read.                                                   *)
OnlyRefresh(i) ==
    /\ InFlight = {i}
    /\ refresh[i].stage = "fetch" => refresh[i].since = asked
    /\ refresh[i].stage = "keys" => refresh[i].read >= asked /\ Recent(asked)

QuietInv ==
    ~spoiled /\ asked # 0 =>
        \/ InFlight = {} /\ Recent(asked) /\ clusterKeys >= asked
        \/ \E i \in Slots : OnlyRefresh(i)

ConsoleInv ==
    /\ ConsoleTypeOK
    /\ \A i \in Slots : refresh[i].stage = "fetch" => refresh[i].since <= version
    /\ asked <= version /\ (asked = 0 => InFlight = {})
    /\ cluster = <<>> \/ ringData \in Versions
    /\ Drawn(cluster, ringData)
    /\ QuietInv

Refreshes ==
    {Idle} \union {Posting(n) : n \in Selections}
           \union {Fetching(n, v) : n \in Selections, v \in Versions}
           \union {ReadingKeys(v) : v \in Versions}

Underway(r) == r.stage \in {"fetch", "keys"}

(* What a refresh is in each of its stages.                                *)
LEMMA RefreshIs ==
    /\ Idle \in Refreshes /\ ~Underway(Idle)
    /\ \A n \in Selections : Posting(n) \in Refreshes /\ ~Underway(Posting(n))
    /\ \A n \in Selections : \A v \in Versions :
          /\ Fetching(n, v) \in Refreshes /\ Underway(Fetching(n, v))
          /\ Fetching(n, v).stage = "fetch" /\ Fetching(n, v).since = v
          /\ Fetching(n, v).selected = n
    /\ \A v \in Versions :
          /\ ReadingKeys(v) \in Refreshes /\ Underway(ReadingKeys(v))
          /\ ReadingKeys(v).stage = "keys" /\ ReadingKeys(v).read = v
    /\ \A r \in Refreshes :
          /\ r.stage = "post" => r.selected \in Selections
          /\ r.stage = "fetch" => r.since \in Versions /\ r.selected \in Selections
          /\ r.stage = "keys" => r.read \in Versions
  <1>0. /\ Idle \in Refreshes
        /\ \A n \in Selections : Posting(n) \in Refreshes
        /\ \A n \in Selections : \A v \in Versions : Fetching(n, v) \in Refreshes
        /\ \A v \in Versions : ReadingKeys(v) \in Refreshes
    BY DEF Refreshes
  <1> USE DEF Idle, Posting, Fetching, ReadingKeys
  <1>1. ~Underway(Idle)
    BY DEF Underway
  <1>2. ASSUME NEW n \in Selections PROVE ~Underway(Posting(n))
    BY DEF Underway
  <1>3. ASSUME NEW n \in Selections, NEW v \in Versions
        PROVE  /\ Underway(Fetching(n, v))
               /\ Fetching(n, v).stage = "fetch" /\ Fetching(n, v).since = v
               /\ Fetching(n, v).selected = n
    BY DEF Underway
  <1>4. ASSUME NEW v \in Versions
        PROVE  /\ Underway(ReadingKeys(v))
               /\ ReadingKeys(v).stage = "keys" /\ ReadingKeys(v).read = v
    BY DEF Underway
  <1>5. ASSUME NEW r \in Refreshes
        PROVE  /\ r.stage = "post" => r.selected \in Selections
               /\ r.stage = "fetch" => r.since \in Versions /\ r.selected \in Selections
               /\ r.stage = "keys" => r.read \in Versions
    <2>2. ASSUME NEW n \in Selections, r = Posting(n) PROVE r.stage = "post" /\ r.selected = n
      BY <2>2
    <2>3. ASSUME NEW n \in Selections, NEW v \in Versions, r = Fetching(n, v)
          PROVE  r.stage = "fetch" /\ r.since = v /\ r.selected = n
      BY <2>3
    <2>4. ASSUME NEW v \in Versions, r = ReadingKeys(v) PROVE r.stage = "keys" /\ r.read = v
      BY <2>4
    <2> HIDE DEF Idle, Posting, Fetching, ReadingKeys
    <2>5. \/ r = Idle \/ \E n \in Selections : r = Posting(n)
          \/ \E n \in Selections, v \in Versions : r = Fetching(n, v)
          \/ \E v \in Versions : r = ReadingKeys(v)
      BY DEF Refreshes
    <2>6. CASE r = Idle
      BY <2>6 DEF Idle
    <2>7. CASE r # Idle
      BY <2>2, <2>3, <2>4, <2>5, <2>7
    <2> QED  BY <2>6, <2>7
  <1> HIDE DEF Idle, Posting, Fetching, ReadingKeys
  <1> QED  BY <1>0, <1>1, <1>2, <1>3, <1>4, <1>5

LEMMA RefreshTypes ==
    ConsoleTypeOK => refresh \in [Slots -> Refreshes] /\ InFlight = {i \in Slots : Underway(refresh[i])}
  BY DEF ConsoleTypeOK, Refreshes, InFlight, Underway

(* Steps that start and end no refresh, and set nothing of the picture.    *)
Aside ==
    /\ version' >= version
    /\ UNCHANGED <<ringData, cluster, clusterKeys, asked, spoiled>>
    /\ \A j \in Slots : \/ refresh'[j] = refresh[j]
                        \/ ~Underway(refresh[j]) /\ ~Underway(refresh'[j])

LEMMA PictureStays ==
    ASSUME ConsoleInv, ConsoleTypeOK', Aside PROVE ConsoleInv'
  <1> USE DEF Aside
  <1>1. ConsoleTypeOK /\ version \in Nat /\ version' \in Nat
    BY ConsoleAssumption DEF ConsoleInv, ConsoleTypeOK, Versions
  <1>2. InFlight' = InFlight
    BY <1>1, RefreshTypes DEF ConsoleTypeOK, Underway, InFlight
  <1>3. \A j \in InFlight : refresh'[j] = refresh[j]
    BY DEF InFlight, Underway
  <1>4. \A j \in Slots : refresh'[j].stage = "fetch" => refresh'[j].since <= version'
    <2> SUFFICES ASSUME NEW j \in Slots, refresh'[j].stage = "fetch"
                 PROVE  refresh'[j].since <= version'
      OBVIOUS
    <2>1. refresh'[j] = refresh[j] /\ refresh[j].since <= version
      BY DEF Underway, ConsoleInv
    <2>2. refresh[j].since \in Nat
      BY <1>1, <2>1, RefreshTypes, RefreshIs, ConsoleAssumption DEF Versions
    <2> QED  BY <1>1, <2>1, <2>2
  <1>5. asked' <= version' /\ (asked' = 0 => InFlight' = {})
    BY <1>1, <1>2, ConsoleAssumption DEF ConsoleInv, ConsoleTypeOK
  <1>6. (cluster' = <<>> \/ ringData' \in Versions) /\ Drawn(cluster, ringData)'
    BY DEF ConsoleInv, Drawn, indexOf
  <1>7. \A i \in Slots : OnlyRefresh(i) => OnlyRefresh(i)'
    BY <1>2, <1>3 DEF OnlyRefresh, Recent
  <1>8. QuietInv'
    BY <1>2, <1>7 DEF ConsoleInv, QuietInv, Recent
  <1> QED  BY <1>1, <1>4, <1>5, <1>6, <1>8 DEF ConsoleInv

LEMMA StartStep ==
    ASSUME ConsoleInv, NEW i \in Slots, NEW selected \in Selections, ~Underway(refresh[i]),
           Starts(i, selected),
           UNCHANGED <<version, ringData, cluster, clusterKeys, selectedNodeId, activeModal,
                       currentView>>
    PROVE  ConsoleInv'
  <1> USE DEF Starts
  <1>1. /\ ConsoleTypeOK /\ version \in Versions /\ version \in Nat \ {0}
        /\ refresh \in [Slots -> Refreshes]
    <2>1. ConsoleTypeOK
      BY DEF ConsoleInv
    <2>2. version \in Versions
      BY <2>1 DEF ConsoleTypeOK
    <2> QED  BY <2>1, <2>2, RefreshTypes, ConsoleAssumption DEF Versions
  <1>2. /\ refresh' \in [Slots -> Refreshes] /\ refresh'[i] = Fetching(selected, version)
        /\ \A j \in Slots \ {i} : refresh'[j] = refresh[j]
    BY <1>1, RefreshIs
  <1>3. ConsoleTypeOK'
    BY <1>1, <1>2 DEF ConsoleTypeOK, Refreshes, Versions
  <1>4. InFlight' = InFlight \union {i}
    <2>1. Underway(refresh'[i])
      BY <1>1, <1>2, RefreshIs
    <2>2. InFlight' = {j \in Slots : Underway(refresh'[j])}
      BY <1>3, RefreshTypes DEF ConsoleTypeOK, InFlight, Underway
    <2>3. InFlight = {j \in Slots : Underway(refresh[j])}
      BY <1>1, RefreshTypes
    <2> QED  BY <1>2, <2>1, <2>2, <2>3
  <1>5. \A j \in Slots : refresh'[j].stage = "fetch" => refresh'[j].since <= version'
    BY <1>1, <1>2, RefreshIs DEF ConsoleInv
  <1>6. asked' = version /\ asked' # 0
    BY <1>1
  <1>7. (cluster' = <<>> \/ ringData' \in Versions) /\ Drawn(cluster, ringData)'
    BY DEF ConsoleInv, Drawn, indexOf
  <1>8. ASSUME ~spoiled' PROVE OnlyRefresh(i)'
    <2>1. InFlight' = {i}
      BY <1>4, <1>8
    <2>2. refresh'[i].stage = "fetch" /\ refresh'[i].since = version
      BY <1>1, <1>2, RefreshIs
    <2>3. ~(refresh'[i].stage = "keys")
      BY <2>2
    <2> QED  BY <1>6, <2>1, <2>2, <2>3 DEF OnlyRefresh
  <1> QED  BY <1>1, <1>3, <1>5, <1>6, <1>7, <1>8 DEF ConsoleInv, QuietInv

(* The nodes by their index: a sequence of all of them, in order.          *)
LEMMA SortedIs ==
    ASSUME NEW u \in Versions, NEW v \in Versions, NEW order \in SortedByRing(u, v)
    PROVE  /\ order \in Seq(NodeId) /\ IsInjective(order)
           /\ Range(order) = Members[u] /\ order # <<>> /\ Head(order) \in NodeId
           /\ Drawn(order, v)
  <1> DEFINE S == Members[u]
             n == Cardinality(S)
  <1>1. S \subseteq NodeId /\ S # {} /\ IsFiniteSet(S)
    <2>1. S \subseteq NodeId /\ S # {}
      BY ConsoleAssumption
    <2>2. IsFiniteSet(NodeId)
      <3>1. RingOrder \in [1 .. Len(RingOrder) -> NodeId] /\ Len(RingOrder) \in Nat
        BY ConsoleAssumption, LenProperties
      <3>2. IsFiniteSet(1 .. Len(RingOrder))
        BY <3>1, FS_Interval
      <3>3. RingOrder \in Surjection(1 .. Len(RingOrder), NodeId)
        BY <3>1, ConsoleAssumption DEF Range, Surjection
      <3> QED  BY <3>2, <3>3, FS_Surjection
    <2> QED  BY <2>1, <2>2, FS_Subset
  <1>2. /\ order \in [1 .. n -> S] /\ n \in Nat /\ n # 0
        /\ \A i, j \in 1 .. n : i # j => order[i] # order[j]
        /\ Drawn(order, v)
    <2>1. n \in Nat /\ n # 0
      BY <1>1, FS_CardinalityType, FS_EmptySet
    <2> QED  BY <2>1 DEF SortedByRing, SortedByIndex, SetToSeqs, Drawn
  <1>3. order \in Seq(S) /\ Len(order) = n
    BY <1>2, IsASeq
  <1>4. order \in Seq(NodeId) /\ IsInjective(order) /\ order # <<>> /\ Head(order) \in NodeId
    BY <1>1, <1>2, <1>3, SeqMonotonic, HeadTailProperties DEF IsInjective
  <1>5. Range(order) = S
    <2>1. Range(order) \subseteq S
      BY <1>2 DEF Range
    <2>2. Cardinality(Range(order)) = n
      <3>1. order \in [1 .. n -> Range(order)] /\ \A t \in Range(order) : \E j \in 1 .. n : order[j] = t
        BY <1>2 DEF Range
      <3>2. order \in Surjection(1 .. n, Range(order)) /\ order \in Injection(1 .. n, Range(order))
        BY <1>2, <1>4, <3>1 DEF Injection, Surjection
      <3>3. IsFiniteSet(1 .. n) /\ Cardinality(1 .. n) = n
        BY <1>2, FS_Interval
      <3> QED  BY <3>2, <3>3, FS_Surjection
    <2> QED  BY <1>1, <2>1, <2>2, FS_Subset
  <1> QED  BY <1>2, <1>4, <1>5

LEMMA ArriveStep ==
    ASSUME ConsoleInv, NEW i \in Slots, RefreshArrives(i)
    PROVE  ConsoleInv'
  <1>1. /\ ConsoleTypeOK /\ version \in Versions /\ version \in Nat \ {0}
        /\ refresh \in [Slots -> Refreshes]
    <2>1. ConsoleTypeOK
      BY DEF ConsoleInv
    <2>2. version \in Versions
      BY <2>1 DEF ConsoleTypeOK
    <2> QED  BY <2>1, <2>2, RefreshTypes, ConsoleAssumption DEF Versions
  <1>0. PICK ringRead, nodesRead, keysRead \in refresh[i].since .. version :
          /\ ringData' = ringRead
          /\ \E order \in SortedByRing(nodesRead, ringRead) :
                /\ cluster' = order
                /\ selectedNodeId' = SelectedAfter(refresh[i].selected, order)
          /\ refresh' = [refresh EXCEPT ![i] = ReadingKeys(keysRead)]
    BY DEF RefreshArrives
  <1>2. PICK order \in SortedByRing(nodesRead, ringRead) :
          /\ ringData' = ringRead
          /\ cluster' = order
          /\ selectedNodeId' = SelectedAfter(refresh[i].selected, order)
          /\ refresh' = [refresh EXCEPT ![i] = ReadingKeys(keysRead)]
    BY <1>0
  <1>3. /\ UNCHANGED <<version, clusterKeys, activeModal, currentView, asked, spoiled>>
        /\ refresh[i].stage = "fetch"
    BY DEF RefreshArrives
  <1>4. refresh[i].since \in Versions /\ refresh[i].since \in Nat \ {0}
    BY <1>1, <1>3, RefreshIs, ConsoleAssumption DEF Versions
  <1>5. /\ ringRead \in Versions /\ nodesRead \in Versions /\ keysRead \in Versions
        /\ ringRead >= refresh[i].since /\ nodesRead >= refresh[i].since
        /\ keysRead >= refresh[i].since
    BY <1>1, <1>4, ConsoleAssumption DEF Versions
  <1>6. /\ order \in Seq(NodeId) /\ IsInjective(order) /\ Range(order) = Members[nodesRead]
        /\ order # <<>> /\ Head(order) \in NodeId /\ Drawn(order, ringRead)
    BY <1>5, SortedIs
  <1>7. /\ refresh' \in [Slots -> Refreshes] /\ refresh'[i] = ReadingKeys(keysRead)
        /\ \A j \in Slots \ {i} : refresh'[j] = refresh[j]
    BY <1>1, <1>2, <1>5, RefreshIs
  <1>8. selectedNodeId' \in Selections
    BY <1>1, <1>2, <1>6 DEF SelectedAfter, Selections, ConsoleTypeOK
  <1>9. ConsoleTypeOK'
    <2>1. ringData' \in 0 .. MaxVersion /\ clusterKeys' \in 0 .. MaxVersion
      BY <1>1, <1>2, <1>3, <1>5, ConsoleAssumption DEF Versions, ConsoleTypeOK
    <2>2. cluster' \in Seq(NodeId) /\ IsInjective(cluster')
      BY <1>2, <1>6
    <2> QED  BY <1>1, <1>3, <1>7, <1>8, <2>1, <2>2 DEF ConsoleTypeOK, Refreshes
  <1>10. InFlight' = InFlight /\ i \in InFlight
    <2>1. Underway(refresh'[i]) /\ Underway(refresh[i])
      BY <1>3, <1>5, <1>7, RefreshIs DEF Underway
    <2>2. InFlight' = {j \in Slots : Underway(refresh'[j])}
      BY <1>9, RefreshTypes DEF ConsoleTypeOK, InFlight, Underway
    <2>3. InFlight = {j \in Slots : Underway(refresh[j])}
      BY <1>1, RefreshTypes
    <2> QED  BY <1>7, <2>1, <2>2, <2>3
  <1>11. refresh'[i].stage = "keys" /\ refresh'[i].read = keysRead
    BY <1>5, <1>7, RefreshIs
  <1>12. \A j \in Slots : refresh'[j].stage = "fetch" => refresh'[j].since <= version'
    BY <1>3, <1>7, <1>11 DEF ConsoleInv
  <1>13. Drawn(cluster, ringData)' /\ ringData' \in Versions
    BY <1>2, <1>5, <1>6 DEF Drawn, indexOf
  <1>14. asked' <= version' /\ (asked' = 0 => InFlight' = {})
    BY <1>3, <1>10 DEF ConsoleInv
  <1>15. ASSUME ~spoiled, asked # 0 PROVE OnlyRefresh(i)'
    <2>1. OnlyRefresh(i)
      BY <1>10, <1>15 DEF ConsoleInv, QuietInv, OnlyRefresh
    <2>2. refresh[i].since = asked
      BY <1>3, <2>1 DEF OnlyRefresh
    <2>3. Recent(asked)'
      BY <1>2, <1>3, <1>5, <1>6, <2>2 DEF Recent
    <2> QED  BY <1>3, <1>5, <1>10, <1>11, <2>1, <2>2, <2>3 DEF OnlyRefresh
  <1>16. QuietInv'
    BY <1>3, <1>15 DEF QuietInv
  <1> QED  BY <1>9, <1>12, <1>13, <1>14, <1>16 DEF ConsoleInv

(* The steps that end a refresh, or leave it with the keys only.           *)
LEMMA LeaveStep ==
    ASSUME ConsoleInv, NEW i \in Slots, KeysArrive(i) \/ OnlyKeysArrive(i) \/ RefreshFails(i)
    PROVE  ConsoleInv'
  <1>1. ConsoleTypeOK /\ version \in Versions /\ refresh \in [Slots -> Refreshes]
    <2>1. ConsoleTypeOK
      BY DEF ConsoleInv
    <2> QED  BY <2>1, RefreshTypes DEF ConsoleTypeOK
  <1>2. /\ i \in InFlight /\ asked # 0
        /\ UNCHANGED <<version, ringData, cluster, selectedNodeId, activeModal, currentView, asked>>
    BY DEF KeysArrive, OnlyKeysArrive, RefreshFails, ConsoleInv, InFlight
  <1>3. \/ refresh' = [refresh EXCEPT ![i] = Idle]
        \/ \E v \in Versions : refresh' = [refresh EXCEPT ![i] = ReadingKeys(v)]
    <2>1. CASE OnlyKeysArrive(i)
      <3>1. refresh[i].since \in Versions
        BY <1>1, <2>1, RefreshIs DEF OnlyKeysArrive
      <3>2. refresh[i].since .. version \subseteq Versions
        BY <1>1, <3>1, ConsoleAssumption DEF Versions
      <3> QED  BY <2>1, <3>2 DEF OnlyKeysArrive
    <2>2. CASE KeysArrive(i) \/ RefreshFails(i)
      BY <2>2 DEF KeysArrive, RefreshFails
    <2> QED  BY <2>1, <2>2
  <1>4. /\ refresh' \in [Slots -> Refreshes]
        /\ refresh'[i] = Idle \/ \E v \in Versions : refresh'[i] = ReadingKeys(v)
        /\ \A j \in Slots \ {i} : refresh'[j] = refresh[j]
    BY <1>1, <1>3, RefreshIs
  <1>5. ConsoleTypeOK'
    <2>1. clusterKeys' \in 0 .. MaxVersion /\ spoiled' \in BOOLEAN
      <3>1. CASE KeysArrive(i)
        <4>1. refresh[i].read \in Versions
          BY <1>1, <3>1, RefreshIs DEF KeysArrive
        <4> QED  BY <1>1, <3>1, <4>1 DEF KeysArrive, KeysSet, ConsoleTypeOK, Versions
      <3>2. CASE OnlyKeysArrive(i) \/ RefreshFails(i)
        <4>1. clusterKeys' = clusterKeys /\ spoiled'
          BY <3>2 DEF OnlyKeysArrive, RefreshFails
        <4>2. clusterKeys \in 0 .. MaxVersion
          BY <1>1 DEF ConsoleTypeOK
        <4>3. spoiled' \in BOOLEAN
          BY <4>1
        <4> QED  BY <4>1, <4>2, <4>3
      <3> QED  BY <3>1, <3>2
    <2> QED  BY <1>1, <1>2, <1>4, <2>1 DEF ConsoleTypeOK, Refreshes
  <1>6. \A j \in Slots : refresh'[j].stage = "fetch" => refresh'[j].since <= version'
    <2>1. refresh'[i].stage # "fetch"
      <3>1. CASE refresh'[i] = Idle
        BY <3>1 DEF Idle
      <3>2. ASSUME NEW v \in Versions, refresh'[i] = ReadingKeys(v) PROVE refresh'[i].stage = "keys"
        BY <3>2, RefreshIs
      <3> QED  BY <1>4, <3>1, <3>2
    <2> QED  BY <1>2, <1>4, <2>1 DEF ConsoleInv
  <1>7. asked' <= version' /\ asked' # 0
    BY <1>2 DEF ConsoleInv
  <1>8. (cluster' = <<>> \/ ringData' \in Versions) /\ Drawn(cluster, ringData)'
    BY <1>2 DEF ConsoleInv, Drawn, indexOf
  <1>9. QuietInv'
    <2>1. CASE OnlyKeysArrive(i) \/ RefreshFails(i)
      BY <2>1 DEF OnlyKeysArrive, RefreshFails, QuietInv
    <2>2. CASE KeysArrive(i)
      <3> SUFFICES ASSUME ~spoiled PROVE InFlight' = {} /\ Recent(asked)' /\ clusterKeys' >= asked
        BY <1>2, <2>2 DEF KeysArrive, QuietInv
      <3>1. OnlyRefresh(i)
        BY <1>2 DEF ConsoleInv, QuietInv, OnlyRefresh
      <3>2. /\ refresh[i].stage = "keys" /\ clusterKeys' = refresh[i].read
            /\ refresh'[i] = Idle
        BY <1>1, <2>2 DEF KeysArrive, KeysSet
      <3>3. clusterKeys' >= asked /\ Recent(asked)
        BY <3>1, <3>2 DEF OnlyRefresh
      <3>4. InFlight' = {}
        <4>1. InFlight' = {j \in Slots : Underway(refresh'[j])}
          BY <1>5, RefreshTypes DEF ConsoleTypeOK, InFlight, Underway
        <4>2. \A j \in Slots : Underway(refresh[j]) => j = i
          BY <3>1 DEF OnlyRefresh, InFlight, Underway
        <4>3. ~Underway(refresh'[i])
          BY <3>2, RefreshIs
        <4> QED  BY <1>4, <4>1, <4>2, <4>3
      <3> QED  BY <1>2, <3>3, <3>4 DEF Recent
    <2> QED  BY <2>1, <2>2
  <1> QED  BY <1>5, <1>6, <1>7, <1>8, <1>9 DEF ConsoleInv

(* The steps of the user and of the cluster.                               *)
LEMMA UserStep ==
    ASSUME ConsoleInv,
           \/ \E i \in Slots : WriteKey(i) \/ Chaos(i) \/ PostFails(i)
           \/ \E n \in NodeId : ClickNodeOnRing(n) \/ ClickNodeInExplorer(n)
           \/ \E modal \in {"explorer", "chaos"} : ToggleModal(modal)
           \/ CloseModal \/ SwitchView \/ ClusterChanges
           \/ UNCHANGED consoleVars
    PROVE  ConsoleInv'
  <1>1. ConsoleTypeOK /\ version \in Nat /\ refresh \in [Slots -> Refreshes]
    <2>1. ConsoleTypeOK
      BY DEF ConsoleInv
    <2> QED  BY <2>1, RefreshTypes, ConsoleAssumption DEF ConsoleTypeOK, Versions
  <1>2. CASE \E i \in Slots : WriteKey(i) \/ Chaos(i) \/ PostFails(i)
    <2>1. PICK i \in Slots : WriteKey(i) \/ Chaos(i) \/ PostFails(i)
      BY <1>2
    <2>2. /\ refresh[i] = Idle \/ refresh[i].stage = "post"
          /\ \/ refresh' = [refresh EXCEPT ![i] = Idle]
             \/ refresh' = [refresh EXCEPT ![i] = Posting(selectedNodeId)]
          /\ activeModal' \in {activeModal, "none"}
          /\ UNCHANGED <<version, ringData, cluster, clusterKeys, selectedNodeId, currentView,
                         asked, spoiled>>
      BY <2>1 DEF WriteKey, Chaos, PostFails, Post
    <2>3. ~Underway(refresh[i])
      BY <2>2, RefreshIs DEF Underway
    <2>4. selectedNodeId \in Selections
      BY <1>1 DEF ConsoleTypeOK
    <2>5. /\ refresh' \in [Slots -> Refreshes] /\ ~Underway(refresh'[i])
          /\ \A j \in Slots \ {i} : refresh'[j] = refresh[j]
      BY <1>1, <2>2, <2>4, RefreshIs
    <2>6. ConsoleTypeOK'
      BY <1>1, <2>2, <2>5 DEF ConsoleTypeOK, Refreshes
    <2>7. version' >= version
      BY <1>1, <2>2
    <2>8. Aside
      BY <2>2, <2>3, <2>5, <2>7 DEF Aside
    <2> QED  BY <2>6, <2>8, PictureStays
  <1>3. CASE \/ \E n \in NodeId : ClickNodeOnRing(n) \/ ClickNodeInExplorer(n)
             \/ \E modal \in {"explorer", "chaos"} : ToggleModal(modal)
             \/ CloseModal \/ SwitchView
    <2>1. /\ UNCHANGED <<version, refresh, ringData, cluster, clusterKeys, asked, spoiled>>
          /\ selectedNodeId' = selectedNodeId \/ selectedNodeId' \in NodeId
          /\ activeModal' = activeModal \/ activeModal' \in {"none", "explorer", "chaos"}
          /\ currentView' = currentView \/ currentView' \in {"dashboard", "guide"}
      BY <1>3 DEF ClickNodeOnRing, ClickNodeInExplorer, Select, ToggleModal, CloseModal, SwitchView
    <2>2. ConsoleTypeOK'
      BY <1>1, <2>1 DEF ConsoleTypeOK, Selections
    <2>3. version' >= version
      BY <1>1, <2>1
    <2>4. Aside
      BY <2>1, <2>3 DEF Aside
    <2> QED  BY <2>2, <2>4, PictureStays
  <1>4. CASE ClusterChanges
    <2>1. ConsoleTypeOK'
      BY <1>1, <1>4, ConsoleAssumption DEF ConsoleTypeOK, ClusterChanges, Versions
    <2>2. version' >= version
      BY <1>1, <1>4 DEF ClusterChanges
    <2>3. Aside
      BY <1>4, <2>2 DEF ClusterChanges, Aside
    <2> QED  BY <2>1, <2>3, PictureStays
  <1>5. CASE UNCHANGED consoleVars
    <2>1. ConsoleTypeOK' /\ version' >= version
      BY <1>1, <1>5 DEF ConsoleTypeOK, consoleVars
    <2>2. Aside
      BY <1>5, <2>1 DEF consoleVars, Aside
    <2> QED  BY <2>1, <2>2, PictureStays
  <1> QED  BY <1>2, <1>3, <1>4, <1>5

LEMMA ConsoleStep == ConsoleInv /\ [ConsoleNext]_consoleVars => ConsoleInv'
  <1>1. ASSUME ConsoleInv, NEW i \in Slots, RefreshFromFeed(i) PROVE ConsoleInv'
    BY <1>1, StartStep, RefreshIs DEF RefreshFromFeed, Selections
  <1>2. ASSUME ConsoleInv, NEW i \in Slots, PostAnswered(i) PROVE ConsoleInv'
    <2>1. refresh[i] \in Refreshes
      BY <1>2, RefreshTypes DEF ConsoleInv
    <2>2. refresh[i].selected \in Selections /\ ~Underway(refresh[i])
      BY <1>2, <2>1, RefreshIs DEF PostAnswered, Underway
    <2> QED  BY <1>2, <2>2, StartStep DEF PostAnswered
  <1> QED  BY <1>1, <1>2, ArriveStep, LeaveStep, UserStep DEF ConsoleNext

LEMMA ConsoleInitially == ConsoleInit => ConsoleInv
  <1> SUFFICES ASSUME ConsoleInit PROVE ConsoleInv
    OBVIOUS
  <1>1. /\ refresh \in [Slots -> Refreshes]
        /\ \A i \in Slots : refresh[i].stage \notin {"fetch", "keys"}
    BY RefreshIs DEF ConsoleInit, Underway
  <1>2. ConsoleTypeOK
    <2>1. /\ version \in Versions /\ ringData \in 0 .. MaxVersion
          /\ clusterKeys \in 0 .. MaxVersion /\ asked \in 0 .. MaxVersion
      BY ConsoleAssumption DEF ConsoleInit, Versions
    <2>2. cluster \in Seq(NodeId) /\ IsInjective(cluster)
      BY DEF ConsoleInit, IsInjective
    <2>3. /\ selectedNodeId \in Selections /\ activeModal \in {"none", "explorer", "chaos"}
          /\ currentView \in {"dashboard", "guide"}
      BY DEF ConsoleInit, Selections
    <2>4. spoiled \in BOOLEAN
      BY DEF ConsoleInit
    <2> QED  BY <1>1, <2>1, <2>2, <2>3, <2>4 DEF ConsoleTypeOK, Refreshes
  <1>3. \A i \in Slots : refresh[i].stage = "fetch" => refresh[i].since <= version
    BY <1>1
  <1>4. asked <= version /\ InFlight = {} /\ QuietInv
    BY <1>1 DEF ConsoleInit, InFlight, QuietInv
  <1>5. cluster = <<>> /\ Drawn(cluster, ringData)
    BY DEF ConsoleInit, Drawn
  <1> QED  BY <1>2, <1>3, <1>4, <1>5 DEF ConsoleInv

(* Whatever answers overtake or fail: the nodes are drawn in the order of  *)
(* the ring that is drawn, and once all refreshes are answered the picture *)
(* is no older than the last of them, unless two overlapped or one failed. *)
THEOREM ConsoleCorrect ==
    ConsoleSpec => [](ConsoleTypeOK /\ DrawnInRingOrder /\ QuietPictureIsRecent)
  <1>1. ConsoleInv => DrawnInRingOrder
    <2> SUFFICES ASSUME ConsoleInv, NEW i \in DOMAIN cluster, NEW j \in DOMAIN cluster, i < j,
                        cluster[i] \in Members[ringData]
                 PROVE  /\ cluster[j] \in Members[ringData]
                        /\ RingPlace(cluster[i]) < RingPlace(cluster[j])
      BY DEF DrawnInRingOrder
    <2>1. /\ cluster \in Seq(NodeId) /\ cluster[i] \in NodeId /\ cluster[j] \in NodeId
          /\ cluster[i] # cluster[j]
      BY LenProperties DEF ConsoleInv, ConsoleTypeOK, IsInjective
    <2>2. indexOf(cluster[i], ringData) <= indexOf(cluster[j], ringData)
      BY DEF ConsoleInv, Drawn
    <2>3. \A n \in NodeId : RingPlace(n) \in Nat \ {0} /\ RingOrder[RingPlace(n)] = n
      <3> SUFFICES ASSUME NEW n \in NodeId
                   PROVE  RingPlace(n) \in Nat \ {0} /\ RingOrder[RingPlace(n)] = n
        OBVIOUS
      <3>1. DOMAIN RingOrder = 1 .. Len(RingOrder) /\ Len(RingOrder) \in Nat
        BY ConsoleAssumption, LenProperties
      <3>2. \E p \in DOMAIN RingOrder : RingOrder[p] = n
        BY ConsoleAssumption DEF Range
      <3>3. RingPlace(n) \in DOMAIN RingOrder /\ RingOrder[RingPlace(n)] = n
        BY <3>2 DEF RingPlace
      <3> QED  BY <3>1, <3>3
    <2>4. RingPlace(cluster[i]) # RingPlace(cluster[j])
      BY <2>1, <2>3
    <2>5. RingPlace(cluster[i]) \in Nat \ {0} /\ RingPlace(cluster[j]) \in Nat \ {0}
      BY <2>1, <2>3
    <2> QED  BY <2>2, <2>4, <2>5 DEF indexOf
  <1>2. ConsoleInv => QuietPictureIsRecent
    BY DEF ConsoleInv, QuietInv, QuietPictureIsRecent, OnlyRefresh, Recent
  <1>3. ConsoleInv => ConsoleTypeOK
    BY DEF ConsoleInv
  <1> QED  BY <1>1, <1>2, <1>3, ConsoleInitially, ConsoleStep, PTL DEF ConsoleSpec

-----------------------------------------------------------------------------
(* The dashboard as a whole: a step of it is a step of one part and leaves *)
(* the others as they are, so that each part behaves as it does alone.     *)
LEMMA PartsStep ==
    [DashboardNext]_dashboardVars =>
        /\ [Next]_vars /\ [RelayNext]_relayVars /\ [FeedNext]_feedVars
        /\ [ConsoleNext]_consoleVars /\ [ExplorerNext]_explorerVars
        /\ [StripNext]_stripVars /\ [ChatNext]_chatVars /\ [GuideNext]_guideVars
  <1> SUFFICES ASSUME [DashboardNext]_dashboardVars
               PROVE  /\ [Next]_vars /\ [RelayNext]_relayVars /\ [FeedNext]_feedVars
                      /\ [ConsoleNext]_consoleVars /\ [ExplorerNext]_explorerVars
                      /\ [StripNext]_stripVars /\ [ChatNext]_chatVars /\ [GuideNext]_guideVars
    OBVIOUS
  <1>1. CASE DashboardNext
    BY <1>1 DEF DashboardNext
  <1>2. CASE UNCHANGED dashboardVars
    BY <1>2 DEF dashboardVars
  <1> QED  BY <1>1, <1>2

(* A behaviour of the whole is one of every part, so that what is proved   *)
(* of a part holds in the whole.                                           *)
THEOREM PartsBehave ==
    DashboardSpec => /\ Spec /\ RelaySpec /\ FeedSpec /\ ConsoleSpec /\ ExplorerSpec
                     /\ StripSpec /\ ChatSpec /\ GuideSpec
  <1>1. DashboardInit => /\ Init /\ RelayInit /\ FeedInit /\ ConsoleInit /\ ExplorerInit
                         /\ StripInit /\ ChatInit /\ GuideInit
    BY DEF DashboardInit
  <1> QED
    BY <1>1, PartsStep, PTL
    DEF DashboardSpec, Spec, RelaySpec, FeedSpec, ConsoleSpec, ExplorerSpec, StripSpec,
        ChatSpec, GuideSpec

(* Every part has its types and keeps its promises in the whole, in all    *)
(* the behaviours that the run "dashboard" explores and for all constants. *)
THEOREM DashboardCorrect ==
    DashboardSpec =>
        /\ [](/\ DashboardTypeOK
              /\ WalksVisitMembersOnce /\ RemovalTakesAllTokens /\ PlacementFollowsMembers
              /\ ReplicasAreNeighbours /\ RepeatsWereForgotten
              /\ HeartbeatsOfOpenSockets /\ LiveMeansOpen /\ LogInOrder /\ WaitingMountsEnd
              /\ BackoffDoubles /\ DrawnInRingOrder /\ QuietPictureIsRecent
              /\ DetailOfSelectedNode /\ ValueOfSelectedKey
              /\ ResultOfShownRequest /\ BusyWhilePending
              /\ AnswersUnderQuestions /\ NoBlankAnswers /\ ThinkingWhileWaiting
              /\ GuideKeysUnique)
        /\ OnlyTheirKeysMove
  <1>1. /\ TypeOK /\ RelayTypeOK /\ FeedTypeOK /\ ConsoleTypeOK /\ ExplorerTypeOK
        /\ StripTypeOK /\ ChatTypeOK /\ GuideTypeOK
        => DashboardTypeOK
    BY DEF DashboardTypeOK
  <1> QED
    BY <1>1, PartsBehave, RemovalCorrect, WalksCorrect, PlacementCorrect, NeighboursCorrect,
       MovesCorrect, RelayCorrect, FeedCorrect, BackoffCorrect, ConsoleCorrect,
       ExplorerCorrect, StripCorrect, ChatCorrect, GuideCorrect, PTL
=============================================================================
