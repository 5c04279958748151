-------------------------------- MODULE Chat --------------------------------
(***************************************************************************)
(* The assistant's panel of the dashboard: web/src/components/AIChat.tsx.  *)
(*                                                                         *)
(* Nothing keeps the user from asking again while an answer is awaited, so *)
(* several calls of handleSend can be on their way, each with a place in   *)
(* the list to write to.  handleSend starts from the list as it was last   *)
(* rendered; what the calls before it set since then and React has not     *)
(* rendered yet is lost.                                                   *)
(*                                                                         *)
(* The node (internal/api/server.go, internal/genai) refuses a question,   *)
(* or answers with a stream that ends after one frame, or after none when  *)
(* the model fails.  A frame whose first bytes are cut from the rest on    *)
(* their way counts as none, too.                                          *)
(***************************************************************************)
EXTENDS Naturals, Sequences

CONSTANTS
    MaxQuestions    \* bound: questions asked

ASSUME ChatAssumption == MaxQuestions \in Nat

Questions == 1 .. MaxQuestions

(* An empty text, one of the assistant, and one that tells of a failure.   *)
Texts == {"", "text", "notice"}

VARIABLES
    isOpen,
    input,        \* whether the input has a text
    messages,     \* with the number of the question each belongs to
    rendered,     \* messages as of the last rendering
    isTyping,
    phase,        \* of each call of handleSend
    aiMsgIdx,     \* of each call: its place in messages, 0 before
    fullText,     \* of each call: whether the stream gave any text
    overlapped,   \* history: a question was asked while another was on its way
    overtaken     \* history: an update was lost to a question

chatVars == <<isOpen, input, messages, rendered, isTyping, phase, aiMsgIdx, fullText,
              overlapped, overtaken>>

Pending == {q \in Questions : phase[q] \in {"asked", "streaming"}}

Message(role, q, text) == [role |-> role, question |-> q, text |-> text]

-----------------------------------------------------------------------------
OpenOrClose ==
    /\ isOpen' = ~isOpen
    /\ UNCHANGED <<input, messages, rendered, isTyping, phase, aiMsgIdx, fullText,
                   overlapped, overtaken>>

TypeInput ==
    /\ isOpen
    /\ input' = ~input
    /\ UNCHANGED <<isOpen, messages, rendered, isTyping, phase, aiMsgIdx, fullText,
                   overlapped, overtaken>>

QuickAction ==
    /\ isOpen /\ messages = <<>> /\ ~input
    /\ input' = TRUE
    /\ UNCHANGED <<isOpen, messages, rendered, isTyping, phase, aiMsgIdx, fullText,
                   overlapped, overtaken>>

(* handleSend up to its fetch.  React renders at once what an event of the *)
(* user sets.                                                              *)
placeOfQuestion == Len(rendered) + 1

placeOfAnswer == Len(rendered) + 2

handleSend(q) ==
    /\ isOpen /\ input
    /\ phase[q] = "unasked" /\ \A p \in Questions : p < q => phase[p] # "unasked"
    /\ input' = FALSE
    /\ messages' = rendered \o <<Message("user", q, "text"), Message("ai", q, "")>>
    /\ rendered' = messages'
    /\ isTyping' = TRUE
    /\ aiMsgIdx' = [aiMsgIdx EXCEPT ![q] = placeOfAnswer]
    /\ phase' = [phase EXCEPT ![q] = "asked"]
    /\ overlapped' = (overlapped \/ Pending # {})
    /\ overtaken' = (overtaken \/ messages # rendered)
    /\ UNCHANGED <<isOpen, fullText>>

Answer(q, text) == messages' = [messages EXCEPT ![aiMsgIdx[q]] = Message("ai", q, text)]

(* "finally" ends the waiting for every call.                              *)
Finish(q) ==
    /\ phase' = [phase EXCEPT ![q] = "done"]
    /\ isTyping' = FALSE
    /\ UNCHANGED <<isOpen, input, rendered, aiMsgIdx, fullText, overlapped, overtaken>>

(* The status is good, and the stream begins.                              *)
typingStops == FALSE

typingGoesOn == isTyping

Respond(q) ==
    /\ phase[q] = "asked"
    /\ phase' = [phase EXCEPT ![q] = "streaming"]
    /\ isTyping' = typingGoesOn
    /\ UNCHANGED <<isOpen, input, messages, rendered, aiMsgIdx, fullText, overlapped,
                   overtaken>>

(* Any other status, 429 among them.                                       *)
Refuse(q) ==
    /\ phase[q] = "asked"
    /\ Answer(q, "notice")
    /\ Finish(q)

(* The text of a frame, at its place.                                      *)
FrameArrives(q) ==
    /\ phase[q] = "streaming" /\ ~fullText[q]
    /\ fullText' = [fullText EXCEPT ![q] = TRUE]
    /\ Answer(q, "text")
    /\ UNCHANGED <<isOpen, input, rendered, isTyping, phase, aiMsgIdx, overlapped, overtaken>>

leftBlank(q) == UNCHANGED messages

fallback(q) == IF fullText[q] THEN UNCHANGED messages ELSE Answer(q, "notice")

StreamEnds(q) ==
    /\ phase[q] = "streaming"
    /\ fallback(q)
    /\ Finish(q)

(* The fetch or a read of the stream throws: the text gives way to the     *)
(* error.                                                                  *)
NetworkError(q) ==
    /\ phase[q] \in {"asked", "streaming"}
    /\ Answer(q, "notice")
    /\ Finish(q)

Render ==
    /\ rendered # messages
    /\ rendered' = messages
    /\ UNCHANGED <<isOpen, input, messages, isTyping, phase, aiMsgIdx, fullText,
                   overlapped, overtaken>>

ChatInit ==
    /\ isOpen = FALSE /\ input = FALSE
    /\ messages = <<>> /\ rendered = <<>>
    /\ isTyping = FALSE
    /\ phase = [q \in Questions |-> "unasked"]
    /\ aiMsgIdx = [q \in Questions |-> 0]
    /\ fullText = [q \in Questions |-> FALSE]
    /\ overlapped = FALSE /\ overtaken = FALSE

ChatNext ==
    \/ OpenOrClose \/ TypeInput \/ QuickAction \/ Render
    \/ \E q \in Questions :
          \/ handleSend(q) \/ Respond(q) \/ Refuse(q) \/ FrameArrives(q) \/ StreamEnds(q)
          \/ NetworkError(q)

ChatSpec == ChatInit /\ [][ChatNext]_chatVars
-----------------------------------------------------------------------------
(* What the panel shows of a message.                                      *)
ShownText(m) ==
    IF m.text # "" THEN m.text
    ELSE IF m.role = "ai" /\ isTyping THEN "thinking" ELSE "empty response"

MessageType == [role : {"user", "ai"}, question : Questions, text : Texts]

ChatTypeOK ==
    /\ isOpen \in BOOLEAN /\ input \in BOOLEAN /\ isTyping \in BOOLEAN
    /\ messages \in Seq(MessageType) /\ rendered \in Seq(MessageType)
    /\ phase \in [Questions -> {"unasked", "asked", "streaming", "done"}]
    /\ aiMsgIdx \in [Questions -> Nat] /\ fullText \in [Questions -> BOOLEAN]
    /\ overlapped \in BOOLEAN /\ overtaken \in BOOLEAN

(* However many questions are asked before the first answer comes, and in  *)
(* whatever order the answers come or fail: questions and answers take     *)
(* turns, and every answer stands under its own question.                  *)
AnswersUnderQuestions ==
    \A i \in DOMAIN messages :
        /\ messages[i].role = IF i % 2 = 1 THEN "user" ELSE "ai"
        /\ messages[i].question = (i + 1) \div 2

(* "Stream ended with no content -- show a fallback instead of blank": the *)
(* answer of a call that is over has a text, unless an update was lost.    *)
NoBlankAnswers ==
    ~overtaken => \A q \in Questions :
                      phase[q] = "done" => messages[aiMsgIdx[q]].text # ""

(* A question that waits for its answer does not look like one that got an *)
(* empty one, unless two of them waited at a time (the first that is       *)
(* answered then ends the waiting of the other).                           *)
ThinkingWhileWaiting ==
    ~overlapped => \A q \in Pending : ShownText(messages[aiMsgIdx[q]]) # "empty response"
=============================================================================
