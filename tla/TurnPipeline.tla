---------------------------- MODULE TurnPipeline ----------------------------
(***************************************************************************)
(* One voice turn of xiaozhi-cloud, from the transcription to the last     *)
(* message on the WebSocket: _process_turn (main.py) consuming             *)
(* generate_response_stream (services/runtime.py).                         *)
(*                                                                         *)
(* Three coroutines share two unbounded queues.  The LLM task cuts the     *)
(* token stream into sentences (sentenceQ), the TTS task turns sentences   *)
(* into events (eventsQ), and the main coroutine, the only one that talks  *)
(* to the device, drains eventsQ.  0 in sentenceQ and the event "none" in  *)
(* eventsQ are the sentinels.  A put on an unbounded queue never suspends, *)
(* so what a coroutine does between two suspensions is one step here; the  *)
(* frames of a sentence are one step each.                                 *)
(*                                                                         *)
(* Sentences are the numbers 1, 2, ... in the order they are cut.          *)
(***************************************************************************)
EXTENDS Integers, Sequences, History

CONSTANTS
  MaxIterations,   \* MAX_TOOL_ITERATIONS, the cap of the tool loop
  MaxSentences,    \* bound: sentences the model speaks in one hop
  MaxFrames        \* bound: Opus frames of one attempt at a sentence

ASSUME PipelineAssumption ==
  /\ MaxIterations \in Nat \ {0}
  /\ MaxSentences \in Nat \ {0}
  /\ MaxFrames \in Nat

VARIABLES
  main,        \* where the main coroutine is
  iteration,   \* hops of the tool loop already done
  llm,         \* the LLM task of the current hop
  tts,         \* the TTS task of the current hop, or of the capped reply
  sentenceQ,   \* sentence_q: LLM task -> TTS task
  eventsQ,     \* events_q (events_cap at the cap): TTS task -> main coroutine
  frameIndex,  \* frame_index_ref
  history,     \* session.conversation_history
  saved,       \* its copy in Redis
  wire,        \* what the device has been sent in this turn
  connected,   \* the device's end of the WebSocket
  abandoned    \* the generator was dropped inside its consumer loop

vars == <<main, iteration, llm, tts, sentenceQ, eventsQ, frameIndex,
          history, saved, wire, connected, abandoned>>

Message(kind, n, i) == [kind |-> kind, n |-> n, i |-> i]
Signal(kind) == Message(kind, 0, 0)
Turn(role) == [role |-> role]

AtCap == iteration = MaxIterations

Init ==
  /\ main = "transcribe"
  /\ iteration = 0
  /\ llm = [st |-> "idle", text |-> FALSE, tools |-> FALSE,
            residual |-> FALSE, queued |-> 0]
  /\ tts = [st |-> "idle", s |-> 0, attempt |-> 0, frames |-> 0]
  /\ sentenceQ = << >> /\ eventsQ = << >> /\ frameIndex = 0
  /\ history = << >> /\ saved = << >>
  /\ wire = << >> /\ connected = TRUE /\ abandoned = FALSE

(***************************************************************************)
(* The LLM task.                                                           *)
(***************************************************************************)

(* Put the next n sentences on sentence_q, tts_start on events_q before    *)
(* the first sentence of the hop, and then the sentinel if there is one.   *)
Enqueue(n, sentinel) ==
  /\ sentenceQ' = sentenceQ \o [i \in 1 .. n |-> llm.queued + i] \o sentinel
  /\ eventsQ' = IF n > 0 /\ llm.queued = 0
                THEN Append(eventsQ, Signal("tts_start")) ELSE eventsQ

(* A piece of content ends n sentences and leaves a residue in the buffer  *)
(* or not.  Without a terminator the residue only grows.                   *)
LlmContent ==
  /\ llm.st = "streaming"
  /\ \E n \in 0 .. MaxSentences, residue \in BOOLEAN :
       /\ n > 0 \/ residue
       /\ llm.queued + n + (IF residue THEN 1 ELSE 0) <= MaxSentences
       /\ Enqueue(n, << >>)
       /\ llm' = [llm EXCEPT !.text = TRUE, !.residual = residue, !.queued = @ + n]
  /\ UNCHANGED <<main, iteration, tts, frameIndex, history, saved, wire, connected, abandoned>>

LlmToolDelta ==
  /\ llm.st = "streaming" /\ ~llm.tools
  /\ llm' = [llm EXCEPT !.tools = TRUE]
  /\ UNCHANGED <<main, iteration, tts, sentenceQ, eventsQ, frameIndex, history, saved,
                 wire, connected, abandoned>>

(* Mutation: the sentinel goes out before the residue. *)
LlmEndFlushesLate ==
  /\ llm.st = "streaming"
  /\ LET n == IF llm.residual THEN 1 ELSE 0
     IN  /\ sentenceQ' = sentenceQ \o <<0>> \o [i \in 1 .. n |-> llm.queued + i]
         /\ llm' = [llm EXCEPT !.st = "done", !.residual = FALSE, !.queued = @ + n]
  /\ UNCHANGED <<main, iteration, tts, eventsQ, frameIndex, history, saved, wire,
                 connected, abandoned>>

(* The stream ends: the residue is the last sentence, then the sentinel.   *)
LlmEnd ==
  /\ llm.st = "streaming"
  /\ LET n == IF llm.residual THEN 1 ELSE 0
     IN  /\ Enqueue(n, <<0>>)
         /\ llm' = [llm EXCEPT !.st = "done", !.residual = FALSE, !.queued = @ + n]
  /\ UNCHANGED <<main, iteration, tts, frameIndex, history, saved, wire, connected, abandoned>>

(* Mutation: the failing task leaves the TTS task waiting. *)
LlmRaiseWithoutSentinel ==
  /\ llm.st = "streaming"
  /\ \E how \in {"failed", "cancelled"} :
       /\ how = "cancelled" => abandoned
       /\ llm' = [llm EXCEPT !.st = how]
  /\ UNCHANGED <<main, iteration, tts, sentenceQ, eventsQ, frameIndex, history, saved,
                 wire, connected, abandoned>>

(* The stream fails, or the task is cancelled: the sentinel all the same.  *)
LlmRaise ==
  /\ llm.st = "streaming"
  /\ \E how \in {"failed", "cancelled"} :
       /\ how = "cancelled" => abandoned
       /\ llm' = [llm EXCEPT !.st = how]
  /\ Enqueue(0, <<0>>)
  /\ UNCHANGED <<main, iteration, tts, frameIndex, history, saved, wire, connected, abandoned>>

(* The type of the hop, once the stream has ended.                         *)
Verdict ==
  CASE llm.text -> "content"
    [] ~llm.text /\ llm.tools -> "tool_calls"
    [] OTHER -> "empty"

(***************************************************************************)
(* The TTS task.                                                           *)
(***************************************************************************)
TtsTake ==
  /\ tts.st = "waiting" /\ sentenceQ # << >>
  /\ sentenceQ' = Tail(sentenceQ)
  /\ IF Head(sentenceQ) = 0
     THEN /\ tts' = [tts EXCEPT !.st = "done"]
          /\ eventsQ' = Append(eventsQ, Signal("none"))
     ELSE /\ tts' = [st |-> "speaking", s |-> Head(sentenceQ), attempt |-> 1, frames |-> 0]
          /\ eventsQ' = Append(eventsQ, Message("sentence", Head(sentenceQ), 0))
  /\ UNCHANGED <<main, iteration, llm, frameIndex, history, saved, wire, connected, abandoned>>

TtsFrame ==
  /\ tts.st = "speaking" /\ tts.frames < MaxFrames
  /\ eventsQ' = Append(eventsQ, Message("frame", tts.s, frameIndex))
  /\ frameIndex' = frameIndex + 1
  /\ tts' = [tts EXCEPT !.frames = @ + 1]
  /\ UNCHANGED <<main, iteration, llm, sentenceQ, history, saved, wire, connected, abandoned>>

(* The sentence is spoken.  The task of the capped reply has just the one. *)
TtsSpoken ==
  /\ tts.st = "speaking"
  /\ IF AtCap
     THEN /\ tts' = [tts EXCEPT !.st = "done"]
          /\ eventsQ' = Append(eventsQ, Signal("none"))
     ELSE /\ tts' = [tts EXCEPT !.st = "waiting"]
          /\ UNCHANGED eventsQ
  /\ UNCHANGED <<main, iteration, llm, sentenceQ, frameIndex, history, saved, wire,
                 connected, abandoned>>

(* Mutations: no bound on the retries; the retry numbers its frames anew. *)
TtsFaultRetriesForever ==
  /\ tts.st = "speaking"
  /\ tts' = [tts EXCEPT !.attempt = @ + 1, !.frames = 0]
  /\ UNCHANGED <<main, iteration, llm, sentenceQ, eventsQ, frameIndex, history, saved, wire,
                 connected, abandoned>>

TtsFaultRestartsIndex ==
  /\ tts.st = "speaking" /\ tts.attempt = 1
  /\ tts' = [tts EXCEPT !.attempt = 2, !.frames = 0]
  /\ frameIndex' = 0
  /\ UNCHANGED <<main, iteration, llm, sentenceQ, eventsQ, history, saved, wire,
                 connected, abandoned>>

(* The provider or the encoder fails: one retry, from the sentence's first *)
(* frame.  When the retry fails too, _tts_task puts its sentinel on the    *)
(* way out (finally); _tts_cap, which has no finally, does not.            *)
TtsFault ==
  /\ tts.st = "speaking"
  /\ IF tts.attempt = 1
     THEN /\ tts' = [tts EXCEPT !.attempt = 2, !.frames = 0]
          /\ UNCHANGED eventsQ
     ELSE /\ tts' = [tts EXCEPT !.st = "failed"]
          /\ eventsQ' = IF AtCap THEN eventsQ ELSE Append(eventsQ, Signal("none"))
  /\ UNCHANGED <<main, iteration, llm, sentenceQ, frameIndex, history, saved, wire,
                 connected, abandoned>>

TtsCancelled ==
  /\ tts.st \in {"waiting", "speaking"} /\ abandoned
  /\ tts' = [tts EXCEPT !.st = "cancelled"]
  /\ eventsQ' = IF AtCap THEN eventsQ ELSE Append(eventsQ, Signal("none"))
  /\ UNCHANGED <<main, iteration, llm, sentenceQ, frameIndex, history, saved, wire,
                 connected, abandoned>>

(***************************************************************************)
(* The main coroutine.                                                     *)
(***************************************************************************)

(* Send m to the device and go on to next.  To a device that is gone the   *)
(* message is lost, or the send raises WebSocketDisconnect: the turn goes  *)
(* to its recovery and drops the generator, which cancels both tasks if it *)
(* is suspended inside its consumer loop (guarded).                        *)
Deliver(m, next, guarded) ==
  \/ /\ connected
     /\ wire' = Append(wire, m) /\ main' = next /\ UNCHANGED abandoned
  \/ /\ ~connected
     /\ main' = next /\ UNCHANGED <<wire, abandoned>>
  \/ /\ ~connected
     /\ main' = "recover" /\ abandoned' = guarded /\ UNCHANGED wire

(* store.save: Redis takes the session as h, or the call raises.           *)
Save(h, next) ==
  \/ saved' = h /\ main' = next
  \/ saved' = saved /\ main' = "error"

Transcribe ==
  /\ main = "transcribe"
  /\ \/ /\ history' = AddMessage(history, Turn("user"))
        /\ Save(history', "sendStt")
     \/ main' = "error" /\ UNCHANGED <<history, saved>>
  /\ UNCHANGED <<iteration, llm, tts, sentenceQ, eventsQ, frameIndex, wire, connected, abandoned>>

SendTranscript ==
  /\ \/ main = "sendStt" /\ Deliver(Signal("stt"), "sendStart", FALSE)
     \/ main = "sendStart" /\ Deliver(Signal("start"), "hop", FALSE)
  /\ UNCHANGED <<iteration, llm, tts, sentenceQ, eventsQ, frameIndex, history, saved, connected>>

StartHop ==
  /\ main = "hop" /\ ~AtCap
  /\ main' = "consume"
  /\ llm' = [st |-> "streaming", text |-> FALSE, tools |-> FALSE,
             residual |-> FALSE, queued |-> 0]
  /\ tts' = [st |-> "waiting", s |-> 0, attempt |-> 0, frames |-> 0]
  /\ sentenceQ' = << >> /\ eventsQ' = << >> /\ frameIndex' = 0
  /\ UNCHANGED <<iteration, history, saved, wire, connected, abandoned>>

Consume ==
  /\ main = "consume" /\ eventsQ # << >>
  /\ eventsQ' = Tail(eventsQ)
  /\ CASE Head(eventsQ).kind = "none" -> main' = "gather" /\ UNCHANGED <<wire, abandoned>>
       [] Head(eventsQ).kind = "tts_start" -> UNCHANGED <<main, wire, abandoned>>
       [] OTHER -> Deliver(Head(eventsQ), "consume", TRUE)
  /\ UNCHANGED <<iteration, llm, tts, sentenceQ, frameIndex, history, saved, connected>>

(* Mutation: gather(..., return_exceptions=True). *)
GatherIgnoresFailures ==
  /\ main = "gather" /\ llm.st \in {"done", "failed"}
  /\ main' = CASE Verdict = "content" -> "remember"
               [] Verdict = "tool_calls" -> "thinking"
               [] OTHER -> "error"
  /\ UNCHANGED <<iteration, llm, tts, sentenceQ, eventsQ, frameIndex, history, saved, wire,
                 connected, abandoned>>

(* gather raises as soon as one of the tasks has; an orphan goes on.       *)
Gather ==
  /\ main = "gather"
  /\ \/ "failed" \in {llm.st, tts.st} /\ main' = "error"
     \/ /\ llm.st = "done" /\ tts.st = "done"
        /\ main' = CASE Verdict = "content" -> "remember"
                     [] Verdict = "tool_calls" -> "thinking"
                     [] OTHER -> "error"
  /\ UNCHANGED <<iteration, llm, tts, sentenceQ, eventsQ, frameIndex, history, saved, wire,
                 connected, abandoned>>

SendThinking ==
  /\ main = "thinking" /\ Deliver(Signal("thinking"), "tools", FALSE)
  /\ UNCHANGED <<iteration, llm, tts, sentenceQ, eventsQ, frameIndex, history, saved, connected>>

(* The assistant's calls and their results join the history, then the next *)
(* hop.  call_tool reports its failures as results.  One call stands for   *)
(* all of them: ConversationHistory has the general case.                  *)
RunTools ==
  /\ main = "tools"
  /\ history' = AddMessage(AddMessage(history, Turn("calls")), Turn("tool"))
  /\ Save(history', "hop")
  /\ iteration' = IF main' = "hop" THEN iteration + 1 ELSE iteration
  /\ UNCHANGED <<llm, tts, sentenceQ, eventsQ, frameIndex, wire, connected, abandoned>>

(* The cap: one plain reply, spoken whole as a single sentence.            *)
CapReply ==
  /\ main = "hop" /\ AtCap
  /\ \/ main' = "error" /\ UNCHANGED <<llm, tts, eventsQ, frameIndex>>
     \/ /\ main' = "capSay"
        /\ llm' = [llm EXCEPT !.text = TRUE, !.queued = 1]
        /\ tts' = [st |-> "speaking", s |-> 1, attempt |-> 1, frames |-> 0]
        /\ eventsQ' = << >> /\ frameIndex' = 0
  /\ UNCHANGED <<iteration, sentenceQ, history, saved, wire, connected, abandoned>>

CapSay ==
  /\ main = "capSay" /\ Deliver(Message("sentence", 1, 0), "capConsume", FALSE)
  /\ UNCHANGED <<iteration, llm, tts, sentenceQ, eventsQ, frameIndex, history, saved, connected>>

CapConsume ==
  /\ main = "capConsume" /\ eventsQ # << >>
  /\ eventsQ' = Tail(eventsQ)
  /\ IF Head(eventsQ).kind = "none"
     THEN main' = "remember" /\ UNCHANGED <<wire, abandoned>>
     ELSE Deliver(Head(eventsQ), "capConsume", TRUE)
  /\ UNCHANGED <<iteration, llm, tts, sentenceQ, frameIndex, history, saved, connected>>

(* Mutation: tts_stop is yielded without the save before it. *)
RememberWithoutSave ==
  /\ main = "remember" /\ main' = "stop"
  /\ history' = AddMessage(history, Turn("assistant"))
  /\ UNCHANGED <<iteration, llm, tts, sentenceQ, eventsQ, frameIndex, saved, wire,
                 connected, abandoned>>

Remember ==
  /\ main = "remember"
  /\ history' = AddMessage(history, Turn("assistant"))
  /\ Save(history', "stop")
  /\ UNCHANGED <<iteration, llm, tts, sentenceQ, eventsQ, frameIndex, wire, connected, abandoned>>

SendStop ==
  /\ main = "stop" /\ Deliver(Signal("stop"), "finish", FALSE)
  /\ UNCHANGED <<iteration, llm, tts, sentenceQ, eventsQ, frameIndex, history, saved, connected>>

(* The transition after the last event, and the close on a farewell.       *)
Finish ==
  /\ main = "finish" /\ Save(history, "ended")
  /\ UNCHANGED <<iteration, llm, tts, sentenceQ, eventsQ, frameIndex, history, wire,
                 connected, abandoned>>

(* The handler of every other exception tells the device, if it can; both  *)
(* handlers then go back to READY, and an error of that save ends the      *)
(* connection.                                                             *)
SendError ==
  /\ main = "error"
  /\ main' = "recover"
  /\ wire' = IF connected THEN Append(wire, Signal("fail")) ELSE wire
  /\ UNCHANGED <<iteration, llm, tts, sentenceQ, eventsQ, frameIndex, history, saved,
                 connected, abandoned>>

Recover ==
  /\ main = "recover" /\ main' = "ended"
  /\ saved' \in {history, saved}
  /\ UNCHANGED <<iteration, llm, tts, sentenceQ, eventsQ, frameIndex, history, wire,
                 connected, abandoned>>

Disconnect ==
  /\ connected /\ main # "ended"
  /\ connected' = FALSE
  /\ UNCHANGED <<main, iteration, llm, tts, sentenceQ, eventsQ, frameIndex, history, saved,
                 wire, abandoned>>

LlmStep == LlmContent \/ LlmToolDelta \/ LlmEnd \/ LlmRaise

TtsStep == TtsTake \/ TtsFrame \/ TtsSpoken \/ TtsFault \/ TtsCancelled

MainStep ==
  \/ Transcribe \/ SendTranscript \/ StartHop \/ Consume \/ Gather
  \/ SendThinking \/ RunTools \/ CapReply \/ CapSay \/ CapConsume
  \/ Remember \/ SendStop \/ Finish \/ SendError \/ Recover

Next == LlmStep \/ TtsStep \/ MainStep \/ Disconnect

(* Each coroutine runs when it can (the event loop is fair); the provider's *)
(* streams end or fail.  The device need not do anything.                  *)
Fairness == WF_vars(LlmStep) /\ WF_vars(TtsStep) /\ WF_vars(MainStep)

Spec == Init /\ [][Next]_vars /\ Fairness

-----------------------------------------------------------------------------
(* Type invariant of one turn: the values of the queues, tasks and phases. *)
TypeOK ==
  /\ main \in {"transcribe", "sendStt", "sendStart", "hop", "consume", "gather", "thinking",
               "tools", "capSay", "capConsume", "remember", "stop", "finish", "error",
               "recover", "ended"}
  /\ iteration \in 0 .. MaxIterations
  /\ llm \in [st : {"idle", "streaming", "done", "failed", "cancelled"}, text : BOOLEAN,
              tools : BOOLEAN, residual : BOOLEAN, queued : 0 .. MaxSentences]
  /\ tts \in [st : {"idle", "waiting", "speaking", "done", "failed", "cancelled"},
              s : 0 .. MaxSentences, attempt : 0 .. 2, frames : 0 .. MaxFrames]
  /\ sentenceQ \in Seq(0 .. MaxSentences)
  /\ \A j \in DOMAIN eventsQ : eventsQ[j].kind \in {"tts_start", "sentence", "frame", "none"}
  /\ frameIndex \in Nat
  /\ \A h \in {history, saved} : \A j \in DOMAIN h :
       h[j].role \in {"user", "calls", "tool", "assistant"}
  /\ connected \in BOOLEAN /\ abandoned \in BOOLEAN

(* What the device is sent in a turn, whatever fails in it, is a behaviour *)
(* of WireContract: sentences and frames in order and without a gap, also  *)
(* over retries, and nothing but one failure after the end.                *)
Contract == INSTANCE WireContract WITH wire <- wire
KeepsWireContract == Contract!Spec

Sent(kind) == {wire[j].n : j \in {k \in DOMAIN wire : wire[k].kind = kind}}
Replied(h) == \E j \in DOMAIN h : h[j].role = "assistant"

(* When the main coroutine leaves its consumer loop after a TTS task that  *)
(* did not fail, the LLM task has ended and every sentence it cut, also    *)
(* before a failure of the stream, has been announced to the device.       *)
SpeechIsDrained ==
  main = "gather" /\ tts.st = "done" =>
    /\ llm.st \in {"done", "failed"} /\ sentenceQ = << >>
    /\ connected => Sent("sentence") = 1 .. llm.queued

(* A reply enters the conversation history only if all of it was spoken:   *)
(* a reply whose speech failed is not what the model is told it said.      *)
OnlySpokenRepliesAreRemembered ==
  Replied(history) =>
    tts.st = "done" /\ (connected => Sent("sentence") = 1 .. llm.queued)

(* By the time the device sees the normal stop, the copy of the session in *)
(* Redis holds the reply: it is saved before tts_stop is yielded.          *)
StopComesAfterSave == Sent("stop") # {} => Replied(saved)

(* The one way a turn can block for ever: at the cap, both attempts to     *)
(* speak the reply have failed and nothing will ever arrive in events_cap. *)
CapHang == main = "capConsume" /\ tts.st = "failed" /\ eventsQ = << >>

(* Whatever fails, cancels or disconnects, the turn ends, so that the      *)
(* receive loop reads on, and no task of it goes on for ever, the orphan   *)
(* of a failed gather and the tasks of a dropped generator included.       *)
TasksQuiet == llm.st # "streaming" /\ tts.st \notin {"waiting", "speaking"}
TurnEndsUnlessCapHangs == <>((main = "ended" /\ TasksQuiet) \/ CapHang)

(* README.md: "Terminal TTS failures raise; the consumer unblocks via a    *)
(* try/finally sentinel and the outer handler sends tts_stop + error."     *)
TurnEnds == <>(main = "ended")
=============================================================================
