---------------------------- MODULE VoiceSession ----------------------------
(***************************************************************************)
(* The WebSocket session of one device with xiaozhi-cloud: the receive     *)
(* loop xiaozhi_v1, the silence check and the frame of _process_turn       *)
(* (main.py), the control messages of services/runtime.py, the phase and   *)
(* the audio buffer of DeviceSession (session/models.py) and its copy in   *)
(* Redis (session/store.py).  What a turn says is TurnPipeline's business. *)
(*                                                                         *)
(* One coroutine serves the session: while it is in a turn nothing is      *)
(* received, and what the device sends waits in the socket.  Any save may  *)
(* raise.  Only a WebSocketDisconnect is caught outside of a turn: every   *)
(* other exception ends the connection.                                    *)
(*                                                                         *)
(* External: a send to a device that has left raises; a session the server *)
(* has closed receives nothing but the disconnect.                         *)
(***************************************************************************)
EXTENDS Naturals, Sequences

CONSTANTS
  CheckInterval,   \* ENERGY_CHECK_INTERVAL, frames between silence checks
  MaxMessages,     \* bound: messages the device sends
  MaxWaiting,      \* bound: messages waiting in the socket
  MaxFaults        \* bound: saves that raise

ASSUME VoiceAssumption ==
  /\ CheckInterval \in Nat \ {0}
  /\ MaxMessages \in Nat /\ MaxWaiting \in Nat \ {0} /\ MaxFaults \in Nat

VARIABLES
  pc,          \* where the coroutine is
  phase,       \* session.phase
  mode,        \* session.listen_mode
  frames,      \* session.audio_frames
  analyzed,    \* session.audio_analyzed_offset
  speech,      \* session.speech_detected
  since,       \* frames_since_energy_check
  stored,      \* the phase and the frame count in Redis
  open,        \* the server's end of the socket
  inbox,       \* what the device has sent and nobody has received
  left,        \* the device has left
  sent,        \* history: messages the device has sent
  asked,       \* history: listening periods the device has begun
  heard,       \* history: those the server has begun
  faults       \* history: saves that raised

vars == <<pc, phase, mode, frames, analyzed, speech, since, stored, open,
          inbox, left, sent, asked, heard, faults>>
device == <<left, sent, asked>>
buffer == <<frames, analyzed, speech>>

Modes == {"none", "auto", "manual"}     \* realtime is treated as auto

Init ==
  /\ pc = "loop" /\ phase = "ready" /\ mode = "none"
  /\ frames = << >> /\ analyzed = 0 /\ speech = FALSE /\ since = 0
  /\ stored = [phase |-> "ready", frames |-> 0]
  /\ open = TRUE /\ inbox = << >> /\ left = FALSE
  /\ sent = 0 /\ asked = 0 /\ heard = 0 /\ faults = 0

(***************************************************************************)
(* The device.  It may send anything at any time; a frame belongs to the   *)
(* listening period the device last asked for.                             *)
(***************************************************************************)
Sends(m) ==
  /\ ~left /\ open
  /\ Len(inbox) < MaxWaiting /\ sent < MaxMessages /\ sent' = sent + 1
  /\ inbox' = Append(inbox, m)
  /\ UNCHANGED <<pc, phase, mode, buffer, since, stored, open, left, heard, faults>>

DeviceListens ==
  /\ \E state \in {"start", "detect"}, m \in Modes : Sends([kind |-> state, mode |-> m])
  /\ asked' = asked + 1

(* ignored: a second hello, or bytes that are no frame.  refused: a type   *)
(* or a session id that raises.                                            *)
DeviceSends ==
  /\ \/ \E k \in {"stop", "abort", "ignored", "refused"} : Sends([kind |-> k])
     \/ \E v \in BOOLEAN : Sends([kind |-> "audio", voiced |-> v, period |-> asked])
  /\ UNCHANGED asked

DeviceLeaves ==
  /\ ~left /\ left' = TRUE
  /\ UNCHANGED <<pc, phase, mode, buffer, since, stored, open, inbox, sent, asked,
                 heard, faults>>

(***************************************************************************)
(* Saving, and the audio buffer.                                           *)
(***************************************************************************)

(* store.save of the session as it is then, with its phase and n frames:   *)
(* the coroutine goes on at next, or the save raises and it does at failed. *)
Save(n, next, failed) ==
  \/ /\ stored' = [phase |-> phase', frames |-> n]
     /\ pc' = next /\ UNCHANGED faults
  \/ /\ faults < MaxFaults /\ faults' = faults + 1
     /\ pc' = failed /\ UNCHANGED stored

(* Mutation: the offset survives. *)
ResetAudioKeepsOffset ==
  frames' = << >> /\ speech' = FALSE /\ UNCHANGED analyzed

ResetAudio == frames' = << >> /\ analyzed' = 0 /\ speech' = FALSE

(***************************************************************************)
(* The receive loop.                                                       *)
(***************************************************************************)
Received(kind) ==
  /\ pc = "loop" /\ open /\ inbox # << >> /\ Head(inbox).kind = kind
  /\ inbox' = Tail(inbox)
  /\ UNCHANGED <<open, device>>

NewMode(m) == IF m.kind = "detect" /\ m.mode = "none" THEN mode ELSE m.mode

(* Mutation: the audio of the last period stays in the buffer. *)
ReceiveListenKeepsAudio(kind) ==
  /\ Received(kind)
  /\ mode' = NewMode(Head(inbox)) /\ phase' = "listening" /\ heard' = heard + 1
  /\ Save(Len(frames), "loop", "dead")
  /\ UNCHANGED <<since, buffer>>

(* listen start and listen detect: a mode that is left out clears the mode *)
(* of the session, or keeps it.                                            *)
ReceiveListen(kind) ==
  /\ Received(kind)
  /\ mode' = NewMode(Head(inbox)) /\ phase' = "listening" /\ heard' = heard + 1
  /\ ResetAudio
  /\ Save(0, "loop", "dead")
  /\ UNCHANGED since

ReceiveStop ==
  /\ Received("stop")
  /\ IF phase = "listening"
     THEN phase' = "processing" /\ Save(Len(frames), "turn", "dead")
     ELSE pc' = "dead" /\ UNCHANGED <<phase, stored, faults>>
  /\ UNCHANGED <<mode, buffer, since, heard>>

(* Saved first, then reset: Redis keeps the count of the frames dropped. *)
ReceiveAbort ==
  /\ Received("abort")
  /\ phase' = "interrupted" /\ Save(Len(frames), "loop", "dead")
  /\ IF pc' = "loop" THEN ResetAudio ELSE UNCHANGED buffer
  /\ UNCHANGED <<mode, since, heard>>

ReceiveIgnored ==
  /\ Received("ignored")
  /\ UNCHANGED <<pc, phase, mode, buffer, since, stored, heard, faults>>

ReceiveRefused ==
  /\ Received("refused") /\ pc' = "dead"
  /\ UNCHANGED <<phase, mode, buffer, since, stored, heard, faults>>

(* A frame is kept while listening, and dropped in every other phase.      *)
ReceiveAudio ==
  /\ Received("audio")
  /\ UNCHANGED <<phase, mode, analyzed, speech, heard>>
  /\ IF phase = "listening"
     THEN LET due == since + 1 >= CheckInterval
          IN  /\ frames' = Append(frames, Head(inbox))
              /\ Save(Len(frames'), IF due THEN "check" ELSE "loop", "dead")
              /\ since' = IF pc' = "check" THEN 0
                          ELSE IF pc' = "loop" THEN since + 1 ELSE since
     ELSE UNCHANGED <<pc, frames, since, stored, faults>>

(* What was sent before the disconnect may be lost with it. *)
ReceiveDisconnect ==
  /\ pc = "loop" /\ (left \/ ~open)
  /\ pc' = "gone"
  /\ UNCHANGED <<phase, mode, buffer, since, stored, open, inbox, device, heard, faults>>

(***************************************************************************)
(* _check_silence_and_maybe_process.                                       *)
(***************************************************************************)
Check ==
  /\ pc = "check"
  /\ UNCHANGED <<mode, frames, since, open, inbox, device, heard>>

(* A manual period is not checked, nor one with no new audio or still in   *)
(* its grace period; audio that cannot be decoded is left for later.       *)
CheckSkips ==
  /\ Check /\ pc' = "loop"
  /\ UNCHANGED <<phase, analyzed, speech, stored, faults>>

Fresh == {i \in analyzed + 1 .. Len(frames) : frames[i].voiced}

CheckHears ==
  /\ Check /\ mode # "manual" /\ analyzed < Len(frames)
  /\ Fresh # {}
  /\ analyzed' = Len(frames) /\ speech' = TRUE /\ pc' = "loop"
  /\ UNCHANGED <<phase, stored, faults>>

(* No speech in the new audio: once there was some, and for long enough,   *)
(* the period is over.                                                     *)
CheckSilence ==
  /\ Check /\ mode # "manual" /\ analyzed < Len(frames)
  /\ Fresh = {}
  /\ analyzed' = Len(frames) /\ UNCHANGED speech
  /\ \/ pc' = "loop" /\ UNCHANGED <<phase, stored, faults>>
     \/ /\ speech /\ phase' = "processing"
        /\ Save(Len(frames), "turn", "dead")

(***************************************************************************)
(* _process_turn.  It is called in phase processing.                       *)
(***************************************************************************)
InTurn(at) ==
  /\ pc = at
  /\ UNCHANGED <<mode, since, inbox, device, heard>>

TurnIsEmpty ==
  /\ InTurn("turn") /\ frames = << >>
  /\ phase' = "ready" /\ Save(Len(frames), "loop", "failed")
  /\ UNCHANGED <<buffer, open>>

(* The audio is decoded, which may raise, and the reply begins.            *)
TurnBegins ==
  /\ InTurn("turn") /\ frames # << >>
  /\ \/ phase' = "responding" /\ Save(Len(frames), "reply", "failed")
     \/ pc' = "failed" /\ UNCHANGED <<phase, stored, faults>>
  /\ UNCHANGED <<buffer, open>>

(* Transcription and reply, to the end, to a WebSocketDisconnect of a send *)
(* to a device that has left, or to another exception.                     *)
Reply ==
  /\ InTurn("reply")
  /\ \/ pc' \in {"ending", "farewell", "failed"}
     \/ left /\ pc' = "parting"
  /\ UNCHANGED <<phase, buffer, open, stored, faults>>

(* A transcript with a farewell ends the session.  Closing the socket of a *)
(* device that has left may raise.                                         *)
Farewell ==
  /\ InTurn("farewell")
  /\ phase' = "closed"
  /\ \/ Save(Len(frames), "loop", "failed") /\ open' = (pc' = "failed")
     \/ /\ left /\ UNCHANGED <<open, faults>>
        /\ stored' = [phase |-> "closed", frames |-> Len(frames)]
        /\ pc' \in {"parting", "failed"}
  /\ UNCHANGED buffer

(* Back to ready; the buffer is cleared after the save, which leaves its   *)
(* size in Redis. *)
BackToReady(at, failed) ==
  /\ InTurn(at)
  /\ phase' = "ready" /\ Save(Len(frames), "loop", failed)
  /\ IF pc' = "loop" THEN ResetAudio ELSE UNCHANGED buffer
  /\ UNCHANGED open

(* The end of the try block: what this save raises is a failed turn. *)
EndTurn == BackToReady("ending", "failed")

(* except WebSocketDisconnect: nothing catches what this save raises. *)
Part == BackToReady("parting", "dead")

(* Mutation: the handler tells the device and leaves the phase alone. *)
RecoverWithoutPhase ==
  /\ InTurn("failed") /\ pc' = "loop"
  /\ ResetAudio
  /\ UNCHANGED <<phase, stored, open, faults>>

(* Mutation: the phase is set in memory only. *)
RecoverWithoutSave ==
  /\ InTurn("failed") /\ pc' = "loop" /\ phase' = "ready"
  /\ ResetAudio
  /\ UNCHANGED <<stored, open, faults>>

(* except Exception: tell the device if it is there, and the same. *)
Recover == BackToReady("failed", "dead")

Next ==
  \/ DeviceListens \/ DeviceSends \/ DeviceLeaves
  \/ ReceiveListen("start") \/ ReceiveListen("detect") \/ ReceiveStop \/ ReceiveAbort
  \/ ReceiveIgnored \/ ReceiveRefused \/ ReceiveAudio \/ ReceiveDisconnect
  \/ CheckSkips \/ CheckHears \/ CheckSilence
  \/ TurnIsEmpty \/ TurnBegins \/ Reply
  \/ Farewell \/ EndTurn \/ Part \/ Recover

Spec == Init /\ [][Next]_vars

-----------------------------------------------------------------------------
Phases == {"ready", "listening", "processing", "responding", "interrupted", "closed"}
Frames == [kind : {"audio"}, voiced : BOOLEAN, period : Nat]
Signals == [kind : {"stop", "abort", "ignored", "refused"}]
Listens == [kind : {"start", "detect"}, mode : Modes]

(* Type invariant; the silence check never looks past the buffer.          *)
TypeOK ==
  /\ pc \in {"loop", "check", "turn", "reply", "ending", "farewell", "parting",
             "failed", "dead", "gone"}
  /\ phase \in Phases /\ mode \in Modes
  /\ frames \in Seq(Frames) /\ analyzed \in 0 .. Len(frames)
  /\ speech \in BOOLEAN /\ since \in 0 .. CheckInterval - 1
  /\ stored \in [phase : Phases, frames : Nat]
  /\ open \in BOOLEAN /\ left \in BOOLEAN
  /\ inbox \in Seq(Frames \cup Signals \cup Listens)
  /\ sent \in 0 .. MaxMessages /\ faults \in 0 .. MaxFaults
  /\ asked \in Nat /\ heard \in 0 .. asked

(* A turn is made of what the device sent in one listening period: neither *)
(* the rest of an earlier one nor what was sent while a reply or an abort  *)
(* was under way is in the buffer, and the speech whose silence ends the   *)
(* period was heard in it.                                                 *)
FramesAreOfThisPeriod == \A i \in 1 .. Len(frames) : frames[i].period = heard
SpeechIsOfThisPeriod == speech => \E i \in 1 .. analyzed : frames[i].voiced
TurnHearsOnePeriod == FramesAreOfThisPeriod /\ SpeechIsOfThisPeriod

(* However a turn ends, with a reply, with nothing to say, with an error   *)
(* or without the device, the loop goes on in a phase in which the device  *)
(* can be heard again, or is done with.                                    *)
LoopIsNeverInATurn ==
  /\ pc \in {"loop", "gone"} => phase \notin {"processing", "responding"}
  /\ pc = "loop" /\ open => phase # "closed"

(* Whenever the loop waits for the device the phase in Redis is that of    *)
(* the session, whichever saves raised.                                    *)
RedisKnowsThePhase == pc \in {"loop", "gone"} => stored.phase = phase

=============================================================================
