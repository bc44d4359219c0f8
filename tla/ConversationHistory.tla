------------------------- MODULE ConversationHistory -------------------------
(***************************************************************************)
(* The conversation history of one voice session over its turns: what      *)
(* transcribe_audio, generate_response_stream and the tool loop of         *)
(* services/runtime.py append to it, and what the cap of session/models.py *)
(* evicts from it.  A chat-completions API refuses a history in which a    *)
(* tool result does not follow the assistant message that made the call,   *)
(* or a call has no result, so eviction should not part the two.           *)
(*                                                                         *)
(* A message is [role, hop, call]: in an assistant message with calls,     *)
(* call is the number of its calls and hop its number in the session; a    *)
(* tool result names the hop it belongs to and which of its calls it       *)
(* answers.                                                                *)
(***************************************************************************)
EXTENDS Integers, Sequences, History

CONSTANTS
  MaxCalls,        \* the calls the model may make in one hop
  MaxMessages      \* bound: messages of the whole session

(* The code limits neither, so a hop may have more results than the list   *)
(* has room for.                                                           *)
ASSUME CallsAssumption ==
  /\ MaxCalls \in Nat \ {0}
  /\ MaxMessages \in Nat

VARIABLES
  history,     \* session.conversation_history
  inTurn,      \* a user turn is being answered
  hop,         \* the assistant message whose calls are being executed
  pending,     \* how many of them have no result yet
  log          \* every message ever appended

vars == <<history, inTurn, hop, pending, log>>

Message(role, number, call) == [role |-> role, hop |-> number, call |-> call]
Text(role) == Message(role, 0, 0)

Remember(m) ==
  /\ Len(log) < MaxMessages
  /\ history' = AddMessage(history, m)
  /\ log' = Append(log, m)

Init ==
  /\ history = << >> /\ log = << >>
  /\ inTurn = FALSE /\ hop = Text("calls") /\ pending = 0

(* transcribe_audio: the user's turn. *)
UserTurn ==
  /\ ~inTurn /\ inTurn' = TRUE
  /\ Remember(Text("user"))
  /\ UNCHANGED <<hop, pending>>

(* The model answers with calls: the assistant message goes in first.      *)
BeginHop ==
  /\ inTurn /\ pending = 0
  /\ \E k \in 1 .. MaxCalls :
       /\ hop' = Message("calls", Len(log) + 1, k)
       /\ pending' = k
  /\ Remember(hop')
  /\ UNCHANGED inTurn

(* Mutation: a failing call ends the loop over the calls. *)
ToolResultOrBreak ==
  /\ pending > 0
  /\ pending' \in {0, pending - 1}
  /\ Remember(Message("tool", hop.hop, hop.call - pending + 1))
  /\ UNCHANGED <<inTurn, hop>>

(* One call after the other; a call that fails has a result that says so.  *)
ToolResult ==
  /\ pending > 0
  /\ pending' = pending - 1
  /\ Remember(Message("tool", hop.hop, hop.call - pending + 1))
  /\ UNCHANGED <<inTurn, hop>>

(* The reply ends the turn ... *)
AssistantTurn ==
  /\ inTurn /\ pending = 0 /\ inTurn' = FALSE
  /\ Remember(Text("assistant"))
  /\ UNCHANGED <<hop, pending>>

(* ... or the turn fails and leaves the history as it is.                  *)
TurnFails ==
  /\ inTurn /\ pending = 0 /\ inTurn' = FALSE
  /\ UNCHANGED <<history, hop, pending, log>>

Next == UserTurn \/ BeginHop \/ ToolResult \/ AssistantTurn \/ TurnFails

Spec == Init /\ [][Next]_vars

-----------------------------------------------------------------------------
Messages ==
  [role : {"user", "assistant", "calls", "tool"}, hop : Nat, call : 0 .. MaxCalls]

(* Type invariant: the list of DeviceSession never exceeds its cap, also   *)
(* in the middle of a hop.                                                 *)
TypeOK ==
  /\ history \in Seq(Messages) /\ Len(history) <= MaxHistory
  /\ log \in Seq(Messages)
  /\ inTurn \in BOOLEAN
  /\ hop \in Messages /\ hop.role = "calls"
  /\ pending \in 0 .. hop.call

(* A result at i answers its call: c messages earlier is the assistant     *)
(* message of the same hop, and only results are in between.               *)
Answers(h, i) ==
  LET c == h[i].call
  IN  /\ 0 < c /\ c < i
      /\ h[i - c].role = "calls" /\ h[i - c].hop = h[i].hop /\ c <= h[i - c].call
      /\ \A d \in 1 .. c - 1 : h[i - d].role = "tool"

(* A result beyond the cap of its own hop: the first results have pushed   *)
(* their assistant message out of the list and gone with it, and the later *)
(* ones, appended to the emptied list, stand at its head.                  *)
Orphaned(h, i) ==
  /\ h[i].call > MaxHistory
  /\ \A j \in 1 .. i : h[j].role = "tool" /\ h[j].hop = h[i].hop

(* However the list is truncated, also in the middle of a hop, a result is *)
(* left without the assistant message that made its call only in a hop of  *)
(* more calls than the list has room for, and only past that many.         *)
EveryResultHasItsCall ==
  \A i \in 1 .. Len(history) :
    history[i].role = "tool" => Answers(history, i) \/ Orphaned(history, i)

(* The calls of an assistant message have their results right after it, in *)
(* the order of the calls, unless their hop is the one being executed.     *)
EveryCallIsAnswered ==
  \A j \in 1 .. Len(history) : history[j].role = "calls" =>
    LET answered == history[j].call - (IF history[j] = hop THEN pending ELSE 0)
    IN  /\ j + answered <= Len(history)
        /\ \A c \in 1 .. answered :
             history[j + c] = Message("tool", history[j].hop, c)

(* What the list holds is the end of the conversation, without a gap, and  *)
(* of the last MaxHistory messages none but tool results is missing.       *)
EvictsOnlyTheOldest ==
  LET kept == Len(history)
  IN  /\ kept <= Len(log)
      /\ history = SubSeq(log, Len(log) - kept + 1, Len(log))
      /\ \A j \in 1 .. Len(log) - kept :
           j > Len(log) - MaxHistory => log[j].role = "tool"
=============================================================================
