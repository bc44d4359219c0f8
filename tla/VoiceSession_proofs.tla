--------------------------- MODULE VoiceSession_proofs ---------------------------
(***************************************************************************)
(* Proofs about VoiceSession, for any number of messages, of saves that    *)
(* raise and of frames between two silence checks.                         *)
(***************************************************************************)
EXTENDS VoiceSession, TLAPS

Messages == Frames \cup Signals \cup Listens
Begins(m) == m.kind \in {"start", "detect"}

(* The messages in a box begin the periods after first, up to last, and a  *)
(* frame belongs to the last period begun before it: begun[i] is the       *)
(* period after i messages.                                                *)
Counts(box, first, last, begun) ==
  /\ begun[0] = first /\ begun[Len(box)] = last
  /\ \A i \in 0 .. Len(box) : begun[i] <= last
  /\ \A i \in 1 .. Len(box) :
       /\ Begins(box[i]) => begun[i] = begun[i - 1] + 1
       /\ ~Begins(box[i]) => begun[i] = begun[i - 1]
       /\ box[i].kind = "audio" => box[i].period = begun[i]
InOrder(box, first, last) ==
  \E begun \in [0 .. Len(box) -> Nat] : Counts(box, first, last, begun)

(* What waits in the socket begins the periods the server has not begun.   *)
PeriodsAreInOrder == InOrder(inbox, heard, asked)

(* What the coroutine knows while it is not in its loop.                   *)
PlaceFitsPhase == pc = "check" => phase = "listening" /\ stored.phase = "listening"

Inv ==
  /\ TypeOK /\ PeriodsAreInOrder /\ FramesAreOfThisPeriod /\ SpeechIsOfThisPeriod
  /\ PlaceFitsPhase /\ LoopIsNeverInATurn /\ RedisKnowsThePhase

LEMMA InitInv == Init => Inv
<1> SUFFICES ASSUME Init PROVE Inv
  OBVIOUS
<1>1. TypeOK
  <2>1. stored \in [phase : Phases, frames : Nat] BY DEF Init, Phases
  <2>2. since \in 0 .. CheckInterval - 1 BY VoiceAssumption DEF Init
  <2>3. frames \in Seq(Frames) /\ analyzed \in 0 .. Len(frames) BY DEF Init
  <2>4. inbox \in Seq(Frames \cup Signals \cup Listens) BY DEF Init
  <2>5. sent \in 0 .. MaxMessages /\ faults \in 0 .. MaxFaults BY VoiceAssumption DEF Init
  <2>6. asked \in Nat /\ heard \in 0 .. asked BY DEF Init
  <2> QED BY <2>1, <2>2, <2>3, <2>4, <2>5, <2>6 DEF Init, TypeOK, Phases, Modes
<1>2. PeriodsAreInOrder
  <2>1. Len(inbox) = 0 /\ heard = 0 /\ asked = 0 BY DEF Init
  <2>2. [i \in 0 .. 0 |-> 0] \in [0 .. Len(inbox) -> Nat] BY <2>1
  <2>3. Counts(inbox, heard, asked, [i \in 0 .. 0 |-> 0]) BY <2>1 DEF Counts
  <2> QED BY <2>2, <2>3 DEF PeriodsAreInOrder, InOrder
<1> QED
  BY <1>1, <1>2 DEF Init, Inv, FramesAreOfThisPeriod, SpeechIsOfThisPeriod, PlaceFitsPhase,
     LoopIsNeverInATurn, RedisKnowsThePhase

(***************************************************************************)
(* The socket: a message is added at one end and taken from the other.     *)
(***************************************************************************)
LEMMA AddedInOrder ==
  ASSUME NEW box \in Seq(Messages), NEW first \in Nat, NEW last \in Nat, NEW next \in Nat,
         NEW m \in Messages, InOrder(box, first, last),
         Begins(m) => next = last + 1, ~Begins(m) => next = last,
         m.kind = "audio" => m.period = last
  PROVE  InOrder(Append(box, m), first, next)
<1>1. PICK begun \in [0 .. Len(box) -> Nat] : Counts(box, first, last, begun)
  BY DEF InOrder
<1> DEFINE n == Len(box)
           longer == Append(box, m)
           after == [i \in 0 .. n + 1 |-> IF i = n + 1 THEN next ELSE begun[i]]
<1>2. n \in Nat /\ Len(longer) = n + 1 OBVIOUS
<1>3. \A i \in 1 .. n : longer[i] = box[i] OBVIOUS
<1>4. longer[n + 1] = m OBVIOUS
<1>5. /\ after \in [0 .. n + 1 -> Nat] /\ after[n + 1] = next
      /\ \A i \in 0 .. n : after[i] = begun[i]
  BY <1>1, <1>2
<1> HIDE DEF n, longer, after
<1>6. /\ begun[0] = first /\ begun[n] = last /\ last <= next
      /\ \A i \in 0 .. n : begun[i] <= last
      /\ \A i \in 1 .. n :
           /\ Begins(box[i]) => begun[i] = begun[i - 1] + 1
           /\ ~Begins(box[i]) => begun[i] = begun[i - 1]
           /\ box[i].kind = "audio" => box[i].period = begun[i]
  BY <1>1 DEF Counts, n
<1>7. after[0] = first BY <1>2, <1>5, <1>6
<1>8. \A i \in 0 .. n + 1 : after[i] <= next
  BY <1>1, <1>2, <1>5, <1>6 DEF n
<1>9. ASSUME NEW i \in 1 .. n + 1
      PROVE  /\ Begins(longer[i]) => after[i] = after[i - 1] + 1
             /\ ~Begins(longer[i]) => after[i] = after[i - 1]
             /\ longer[i].kind = "audio" => longer[i].period = after[i]
  <2>1. CASE i \in 1 .. n
    <3>1. after[i] = begun[i] /\ after[i - 1] = begun[i - 1] BY <1>2, <1>5, <2>1
    <3> QED BY <1>3, <1>6, <2>1, <3>1
  <2>2. CASE i = n + 1
    <3>1. after[i] = next /\ after[i - 1] = last BY <1>2, <1>5, <1>6, <2>2
    <3>2. m.kind = "audio" => ~Begins(m) BY DEF Begins
    <3> QED BY <1>4, <2>2, <3>1, <3>2
  <2> QED BY <1>2, <2>1, <2>2
<1>10. Counts(longer, first, next, after)
  BY <1>2, <1>5, <1>7, <1>8, <1>9 DEF Counts
<1> QED BY <1>2, <1>5, <1>10 DEF InOrder, longer

LEMMA TakenInOrder ==
  ASSUME NEW box \in Seq(Messages), box # << >>, NEW first \in Nat, NEW last \in Nat,
         NEW next \in Nat, InOrder(box, first, last),
         Begins(Head(box)) => next = first + 1, ~Begins(Head(box)) => next = first
  PROVE  /\ InOrder(Tail(box), next, last)
         /\ next <= last
         /\ Head(box).kind = "audio" => Head(box).period = next
<1>1. PICK begun \in [0 .. Len(box) -> Nat] : Counts(box, first, last, begun)
  BY DEF InOrder
<1> DEFINE n == Len(box)
           rest == Tail(box)
           after == [i \in 0 .. n - 1 |-> begun[i + 1]]
<1>2. n \in Nat /\ n >= 1 /\ Len(rest) = n - 1 OBVIOUS
<1>3. \A i \in 1 .. n - 1 : rest[i] = box[i + 1] OBVIOUS
<1>4. Head(box) = box[1] OBVIOUS
<1>5. /\ after \in [0 .. n - 1 -> Nat]
      /\ \A i \in 0 .. n - 1 : after[i] = begun[i + 1]
  BY <1>1, <1>2
<1> HIDE DEF n, rest, after
<1>6. /\ begun[0] = first /\ begun[n] = last
      /\ \A i \in 0 .. n : begun[i] <= last
      /\ \A i \in 1 .. n :
           /\ Begins(box[i]) => begun[i] = begun[i - 1] + 1
           /\ ~Begins(box[i]) => begun[i] = begun[i - 1]
           /\ box[i].kind = "audio" => box[i].period = begun[i]
  BY <1>1 DEF Counts, n
<1>7. /\ begun[1] = next /\ begun[1] <= last
      /\ box[1].kind = "audio" => box[1].period = begun[1]
  <2>1. 1 \in 1 .. n /\ 1 - 1 = 0 /\ 1 \in 0 .. n BY <1>2
  <2> QED BY <1>4, <1>6, <2>1
<1>8. after[0] = next /\ after[n - 1] = last BY <1>2, <1>5, <1>6, <1>7
<1>9. \A i \in 0 .. n - 1 : after[i] <= last
  <2>1. \A i \in 0 .. n - 1 : i + 1 \in 0 .. n BY <1>2
  <2> QED BY <1>5, <1>6, <2>1
<1>10. ASSUME NEW i \in 1 .. n - 1
       PROVE  /\ Begins(rest[i]) => after[i] = after[i - 1] + 1
              /\ ~Begins(rest[i]) => after[i] = after[i - 1]
              /\ rest[i].kind = "audio" => rest[i].period = after[i]
  <2>1. after[i] = begun[i + 1] /\ after[i - 1] = begun[i] BY <1>2, <1>5
  <2>2. i + 1 \in 1 .. n /\ (i + 1) - 1 = i BY <1>2
  <2> QED BY <1>3, <1>6, <2>1, <2>2
<1>11. Counts(rest, next, last, after)
  BY <1>2, <1>8, <1>9, <1>10 DEF Counts
<1> QED BY <1>2, <1>4, <1>5, <1>7, <1>11 DEF InOrder, rest

(***************************************************************************)
(* The device.                                                             *)
(***************************************************************************)
LEMMA SendingKeepsInv ==
  ASSUME Inv, NEW m \in Messages, Sends(m),
         Begins(m) => asked' = asked + 1, ~Begins(m) => asked' = asked,
         m.kind = "audio" => m.period = asked
  PROVE  Inv'
<1>1. /\ inbox \in Seq(Messages) /\ asked \in Nat /\ heard \in Nat /\ heard <= asked
      /\ asked' \in Nat /\ asked <= asked'
  BY DEF Inv, TypeOK, Messages
<1>2. inbox' = Append(inbox, m) /\ heard' = heard BY DEF Sends
<1>3. PeriodsAreInOrder'
  BY <1>1, <1>2, AddedInOrder DEF Inv, PeriodsAreInOrder
<1>4. inbox' \in Seq(Messages) BY <1>1, <1>2
<1>5. sent' \in 0 .. MaxMessages BY VoiceAssumption DEF Sends, Inv, TypeOK
<1>6. TypeOK' BY <1>1, <1>2, <1>4, <1>5 DEF Inv, TypeOK, Sends, buffer, Messages
<1> QED
  BY <1>3, <1>6 DEF Inv, Sends, buffer, FramesAreOfThisPeriod, SpeechIsOfThisPeriod, PlaceFitsPhase,
     LoopIsNeverInATurn, RedisKnowsThePhase

LEMMA DeviceKeepsInv == ASSUME Inv, DeviceListens \/ DeviceSends PROVE Inv'
<1>1. CASE DeviceListens
  <2>1. PICK state \in {"start", "detect"}, mm \in Modes : Sends([kind |-> state, mode |-> mm])
    BY <1>1 DEF DeviceListens
  <2> DEFINE m == [kind |-> state, mode |-> mm]
  <2>2. m \in Messages /\ Begins(m) /\ m.kind # "audio" BY DEF Messages, Listens, Begins
  <2>3. Sends(m) /\ asked' = asked + 1 BY <1>1, <2>1 DEF DeviceListens
  <2> QED BY ONLY Inv, <2>2, <2>3, SendingKeepsInv
<1>2. CASE DeviceSends
  <2>1. asked' = asked BY <1>2 DEF DeviceSends
  <2>2. CASE \E k \in {"stop", "abort", "ignored", "refused"} : Sends([kind |-> k])
    <3>1. PICK k \in {"stop", "abort", "ignored", "refused"} : Sends([kind |-> k]) BY <2>2
    <3>2. [kind |-> k] \in Messages /\ ~Begins([kind |-> k]) /\ [kind |-> k].kind # "audio"
      BY DEF Messages, Signals, Begins
    <3> QED BY ONLY Inv, <2>1, <3>1, <3>2, SendingKeepsInv
  <2>3. CASE \E v \in BOOLEAN : Sends([kind |-> "audio", voiced |-> v, period |-> asked])
    <3>1. PICK v \in BOOLEAN : Sends([kind |-> "audio", voiced |-> v, period |-> asked])
      BY <2>3
    <3> DEFINE m == [kind |-> "audio", voiced |-> v, period |-> asked]
    <3>2. m \in Messages /\ ~Begins(m) /\ m.period = asked
      BY DEF Messages, Frames, Begins, Inv, TypeOK
    <3> QED BY ONLY Inv, <2>1, <3>1, <3>2, SendingKeepsInv
  <2> QED BY <1>2, <2>2, <2>3 DEF DeviceSends
<1> QED BY <1>1, <1>2

LEMMA LeavingKeepsInv == ASSUME Inv, DeviceLeaves PROVE Inv'
BY DEF DeviceLeaves, buffer, Inv, TypeOK, PeriodsAreInOrder, FramesAreOfThisPeriod,
   SpeechIsOfThisPeriod, PlaceFitsPhase, LoopIsNeverInATurn, RedisKnowsThePhase

(***************************************************************************)
(* A save writes the phase of the session, or raises.                      *)
(***************************************************************************)
Places == {"loop", "check", "turn", "reply", "ending", "farewell", "parting", "failed", "dead",
           "gone"}

LEMMA SaveIs ==
  ASSUME Inv, NEW n \in Nat, NEW next, NEW failed, phase' \in Phases, Save(n, next, failed)
  PROVE  /\ stored' \in [phase : Phases, frames : Nat] /\ faults' \in 0 .. MaxFaults
         /\ (pc' = next /\ stored'.phase = phase') \/ pc' = failed
<1>1. stored \in [phase : Phases, frames : Nat] /\ faults \in 0 .. MaxFaults /\ MaxFaults \in Nat
  BY VoiceAssumption DEF Inv, TypeOK
<1>2. CASE stored' = [phase |-> phase', frames |-> n] /\ pc' = next /\ UNCHANGED faults
  BY <1>1, <1>2
<1>3. CASE faults < MaxFaults /\ faults' = faults + 1 /\ pc' = failed /\ UNCHANGED stored
  BY <1>1, <1>3
<1> QED BY <1>2, <1>3 DEF Save

(* A buffer that is left alone or cleared keeps its type.                  *)
LEMMA BufferStays ==
  ASSUME Inv, \/ UNCHANGED buffer
              \/ frames' = << >> /\ analyzed' = 0 /\ speech' = FALSE
  PROVE  frames' \in Seq(Frames) /\ analyzed' \in 0 .. Len(frames') /\ speech' \in BOOLEAN
<1>1. CASE UNCHANGED buffer BY <1>1 DEF Inv, TypeOK, buffer
<1>2. CASE frames' = << >> /\ analyzed' = 0 /\ speech' = FALSE
  <2>1. << >> \in Seq(Frames) /\ 0 \in 0 .. Len(<< >>) OBVIOUS
  <2> QED BY <1>2, <2>1
<1> QED BY <1>1, <1>2

(***************************************************************************)
(* The receive loop.                                                       *)
(***************************************************************************)
(* What is received, and that the rest stays in order.                     *)
LEMMA ReceivedIs ==
  ASSUME Inv, NEW kind, Received(kind)
  PROVE  /\ inbox' \in Seq(Messages) /\ UNCHANGED <<open, device>>
         /\ kind \in {"start", "detect"} =>
              /\ Head(inbox).mode \in Modes
              /\ heard' = heard + 1 => PeriodsAreInOrder' /\ heard' \in 0 .. asked
         /\ kind \notin {"start", "detect"} => (heard' = heard => PeriodsAreInOrder')
         /\ kind = "audio" => Head(inbox) \in Frames /\ Head(inbox).period = heard
<1>1. /\ inbox \in Seq(Messages) /\ inbox # << >> /\ asked \in Nat /\ heard \in Nat
      /\ inbox' = Tail(inbox) /\ asked' = asked /\ Head(inbox).kind = kind
  BY DEF Inv, TypeOK, Messages, Received, device
<1>2. Head(inbox) \in Messages /\ inbox' \in Seq(Messages) BY <1>1
<1>3. InOrder(inbox, heard, asked) BY DEF Inv, PeriodsAreInOrder
<1>4. ASSUME kind \in {"start", "detect"}, heard' = heard + 1
      PROVE  PeriodsAreInOrder' /\ heard' \in 0 .. asked
  <2>1. Begins(Head(inbox)) /\ heard' \in Nat BY <1>1, <1>4 DEF Begins
  <2>2. InOrder(Tail(inbox), heard', asked) /\ heard' <= asked
    BY <1>1, <1>3, <1>4, <2>1, TakenInOrder
  <2> QED BY <1>1, <2>1, <2>2 DEF PeriodsAreInOrder
<1>5. ASSUME kind \notin {"start", "detect"}
      PROVE  /\ heard' = heard => PeriodsAreInOrder'
             /\ kind = "audio" => Head(inbox).period = heard
  <2>1. ~Begins(Head(inbox)) BY <1>1, <1>5 DEF Begins
  <2>2. /\ InOrder(Tail(inbox), heard, asked)
        /\ Head(inbox).kind = "audio" => Head(inbox).period = heard
    BY <1>1, <1>3, <2>1, TakenInOrder
  <2> QED BY <1>1, <2>2 DEF PeriodsAreInOrder
<1>6. kind \in {"start", "detect"} => Head(inbox).mode \in Modes
  BY <1>1, <1>2 DEF Messages, Frames, Signals, Listens
<1>7. kind = "audio" => Head(inbox) \in Frames
  BY <1>1, <1>2 DEF Messages, Signals, Listens
<1> QED BY <1>2, <1>4, <1>5, <1>6, <1>7 DEF Received

LEMMA ListenKeepsInv ==
  ASSUME Inv, NEW kind \in {"start", "detect"}, ReceiveListen(kind)
  PROVE  Inv'
<1>1. /\ inbox' \in Seq(Messages) /\ UNCHANGED <<open, device>>
      /\ Head(inbox).mode \in Modes /\ PeriodsAreInOrder' /\ heard' \in 0 .. asked
  BY ReceivedIs DEF ReceiveListen
<1>2. mode' \in Modes BY <1>1 DEF ReceiveListen, NewMode, Inv, TypeOK
<1>3. frames' = << >> /\ analyzed' = 0 /\ speech' = FALSE BY DEF ReceiveListen, ResetAudio
<1>4. phase' = "listening" /\ phase' \in Phases /\ UNCHANGED since
  BY DEF ReceiveListen, Phases
<1>5. /\ stored' \in [phase : Phases, frames : Nat] /\ faults' \in 0 .. MaxFaults
      /\ (pc' = "loop" /\ stored'.phase = phase') \/ pc' = "dead"
  BY <1>4, SaveIs DEF ReceiveListen
<1>6. frames' \in Seq(Frames) /\ analyzed' \in 0 .. Len(frames') BY <1>3
<1>7. TypeOK'
  BY <1>1, <1>2, <1>3, <1>4, <1>5, <1>6 DEF Inv, TypeOK, device, Messages
<1> QED
  BY <1>1, <1>3, <1>4, <1>5, <1>7 DEF Inv, FramesAreOfThisPeriod, SpeechIsOfThisPeriod,
     PlaceFitsPhase, LoopIsNeverInATurn, RedisKnowsThePhase

LEMMA StopKeepsInv == ASSUME Inv, ReceiveStop PROVE Inv'
<1>1. /\ inbox' \in Seq(Messages) /\ UNCHANGED <<open, device, heard, buffer>> /\ PeriodsAreInOrder'
  BY ReceivedIs DEF ReceiveStop
<1>2. TypeOK'
  BY <1>1, VoiceAssumption DEF Inv, TypeOK, ReceiveStop, Save, device, buffer, Messages, Phases
<1> QED
  BY <1>1, <1>2 DEF Inv, ReceiveStop, Save, Received, buffer, FramesAreOfThisPeriod,
     SpeechIsOfThisPeriod, PlaceFitsPhase, LoopIsNeverInATurn, RedisKnowsThePhase

LEMMA AbortKeepsInv == ASSUME Inv, ReceiveAbort PROVE Inv'
<1>1. inbox' \in Seq(Messages) /\ UNCHANGED <<open, device, heard>> /\ PeriodsAreInOrder'
  BY ReceivedIs DEF ReceiveAbort
<1>2. \/ UNCHANGED buffer
      \/ frames' = << >> /\ analyzed' = 0 /\ speech' = FALSE
  BY DEF ReceiveAbort, ResetAudio
<1>3. phase' = "interrupted" /\ phase' \in Phases /\ UNCHANGED <<mode, since>>
  BY DEF ReceiveAbort, Phases
<1>4. /\ stored' \in [phase : Phases, frames : Nat] /\ faults' \in 0 .. MaxFaults
      /\ (pc' = "loop" /\ stored'.phase = phase') \/ pc' = "dead"
  <2>1. Len(frames) \in Nat BY DEF Inv, TypeOK
  <2> QED BY <1>3, <2>1, SaveIs DEF ReceiveAbort
<1>5. frames' \in Seq(Frames) /\ analyzed' \in 0 .. Len(frames') /\ speech' \in BOOLEAN
  BY <1>2, BufferStays
<1>6. TypeOK'
  BY <1>1, <1>3, <1>4, <1>5 DEF Inv, TypeOK, device, Messages
<1> QED
  BY <1>1, <1>2, <1>3, <1>4, <1>6 DEF Inv, buffer, FramesAreOfThisPeriod, SpeechIsOfThisPeriod,
     PlaceFitsPhase, LoopIsNeverInATurn, RedisKnowsThePhase

LEMMA OtherKeepsInv == ASSUME Inv, ReceiveIgnored \/ ReceiveRefused PROVE Inv'
<1>1. /\ inbox' \in Seq(Messages) /\ UNCHANGED <<open, device, heard, buffer>> /\ PeriodsAreInOrder'
  BY ReceivedIs DEF ReceiveIgnored, ReceiveRefused
<1>2. TypeOK'
  BY <1>1 DEF Inv, TypeOK, ReceiveIgnored, ReceiveRefused, device, buffer, Messages
<1> QED
  BY <1>1, <1>2 DEF Inv, ReceiveIgnored, ReceiveRefused, Received, buffer, FramesAreOfThisPeriod,
     SpeechIsOfThisPeriod, PlaceFitsPhase, LoopIsNeverInATurn, RedisKnowsThePhase

LEMMA AudioKeepsInv == ASSUME Inv, ReceiveAudio PROVE Inv'
<1>1. /\ inbox' \in Seq(Messages) /\ UNCHANGED <<open, device, heard>> /\ PeriodsAreInOrder'
      /\ Head(inbox) \in Frames /\ Head(inbox).period = heard
  BY ReceivedIs DEF ReceiveAudio
<1>2. /\ frames \in Seq(Frames) /\ Len(frames) \in Nat /\ analyzed \in 0 .. Len(frames)
      /\ since \in 0 .. CheckInterval - 1 /\ CheckInterval \in Nat \ {0}
  BY VoiceAssumption DEF Inv, TypeOK
<1>3. CASE phase = "listening"
  <2>1. frames' = Append(frames, Head(inbox)) BY <1>3 DEF ReceiveAudio
  <2>2. /\ frames' \in Seq(Frames) /\ Len(frames') = Len(frames) + 1
        /\ frames'[Len(frames) + 1] = Head(inbox)
        /\ \A i \in 1 .. Len(frames) : frames'[i] = frames[i]
    BY <1>1, <1>2, <2>1
  <2>3. since' \in 0 .. CheckInterval - 1
    BY <1>2, <1>3 DEF ReceiveAudio, Save
  <2>4. TypeOK'
    BY <1>1, <1>2, <1>3, <2>2, <2>3, VoiceAssumption
       DEF Inv, TypeOK, ReceiveAudio, Save, device, Messages
  <2>5. FramesAreOfThisPeriod'
    BY <1>1, <1>2, <2>2 DEF Inv, FramesAreOfThisPeriod
  <2>6. SpeechIsOfThisPeriod'
    <3>1. analyzed' = analyzed /\ speech' = speech BY DEF ReceiveAudio
    <3>2. \A i \in 1 .. analyzed : frames'[i] = frames[i] BY <1>2, <2>2
    <3> QED BY <3>1, <3>2 DEF Inv, SpeechIsOfThisPeriod
  <2> QED
    BY <1>1, <1>3, <2>4, <2>5, <2>6 DEF Inv, ReceiveAudio, Save, Received, PlaceFitsPhase,
       LoopIsNeverInATurn, RedisKnowsThePhase
<1>4. CASE phase # "listening"
  <2>1. UNCHANGED <<pc, phase, mode, buffer, since, stored, faults>>
    BY <1>4 DEF ReceiveAudio, buffer
  <2>2. TypeOK' BY <1>1, <2>1 DEF Inv, TypeOK, device, buffer, Messages
  <2> QED
    BY <1>1, <2>1, <2>2 DEF Inv, buffer, FramesAreOfThisPeriod, SpeechIsOfThisPeriod, PlaceFitsPhase,
       LoopIsNeverInATurn, RedisKnowsThePhase
<1> QED BY <1>3, <1>4

LEMMA DisconnectKeepsInv == ASSUME Inv, ReceiveDisconnect PROVE Inv'
BY DEF ReceiveDisconnect, device, buffer, Inv, TypeOK, PeriodsAreInOrder, FramesAreOfThisPeriod,
   SpeechIsOfThisPeriod, PlaceFitsPhase, LoopIsNeverInATurn, RedisKnowsThePhase

(***************************************************************************)
(* The silence check.                                                      *)
(***************************************************************************)
LEMMA CheckKeepsInv == ASSUME Inv, CheckSkips \/ CheckHears \/ CheckSilence PROVE Inv'
<1>1. /\ pc = "check" /\ UNCHANGED <<mode, frames, since, open, inbox, device, heard>>
      /\ phase = "listening" /\ stored.phase = "listening"
  BY DEF CheckSkips, CheckHears, CheckSilence, Check, Inv, PlaceFitsPhase
<1>2. frames \in Seq(Frames) /\ Len(frames) \in Nat /\ analyzed \in 0 .. Len(frames)
  BY DEF Inv, TypeOK
<1>3. analyzed' \in {analyzed, Len(frames)} /\ analyzed' >= analyzed
  BY <1>2 DEF CheckSkips, CheckHears, CheckSilence
<1>4. /\ pc' \in {"loop", "turn", "dead"} /\ phase' \in {"listening", "processing"}
      /\ stored' \in [phase : Phases, frames : Nat] /\ faults' \in 0 .. MaxFaults
      /\ pc' = "loop" => phase' = "listening" /\ stored'.phase = "listening"
  <2>1. CASE pc' = "loop" /\ UNCHANGED <<phase, stored, faults>>
    BY <1>1, <2>1 DEF Inv, TypeOK
  <2>2. CASE phase' = "processing" /\ Save(Len(frames), "turn", "dead")
    <3>1. phase' \in Phases BY <2>2 DEF Phases
    <3> QED BY <1>2, <2>2, <3>1, SaveIs
  <2> QED BY <2>1, <2>2 DEF CheckSkips, CheckHears, CheckSilence
<1>5. TypeOK'
  <2>1. speech' \in BOOLEAN BY DEF CheckSkips, CheckHears, CheckSilence, Inv, TypeOK
  <2> QED BY <1>1, <1>2, <1>3, <1>4, <2>1 DEF Inv, TypeOK, device, Phases
<1>6. SpeechIsOfThisPeriod'
  <2>1. CASE speech' = speech
    BY <1>1, <1>2, <1>3, <2>1 DEF Inv, SpeechIsOfThisPeriod
  <2>2. CASE CheckHears
    <3>1. analyzed' = Len(frames) /\ \E i \in analyzed + 1 .. Len(frames) : frames[i].voiced
      BY <2>2 DEF CheckHears, Fresh
    <3>2. \E i \in 1 .. analyzed' : frames'[i].voiced BY <1>1, <1>2, <3>1
    <3> QED BY <3>2 DEF SpeechIsOfThisPeriod
  <2> QED BY <2>1, <2>2 DEF CheckSkips, CheckSilence
<1>7. FramesAreOfThisPeriod' /\ PeriodsAreInOrder'
  BY <1>1 DEF Inv, FramesAreOfThisPeriod, PeriodsAreInOrder, device
<1> QED
  BY <1>1, <1>4, <1>5, <1>6, <1>7 DEF Inv, PlaceFitsPhase, LoopIsNeverInATurn, RedisKnowsThePhase

(***************************************************************************)
(* The turn.                                                               *)
(***************************************************************************)
(* What a turn leaves to show, when its buffer is as it was or cleared.    *)
LEMMA TurnSuffices ==
  ASSUME Inv, UNCHANGED <<mode, since, inbox, device, heard>>,
         \/ UNCHANGED buffer
         \/ frames' = << >> /\ analyzed' = 0 /\ speech' = FALSE,
         pc' \in Places \ {"check", "gone"}, phase' \in Phases, open' \in BOOLEAN,
         stored' \in [phase : Phases, frames : Nat], faults' \in 0 .. MaxFaults,
         pc' = "loop" => /\ phase' \in {"ready", "closed"} /\ stored'.phase = phase'
                         /\ open' => phase' = "ready"
  PROVE  Inv'
<1>1. frames' \in Seq(Frames) /\ analyzed' \in 0 .. Len(frames') /\ speech' \in BOOLEAN
  BY BufferStays
<1>2. TypeOK' BY <1>1 DEF Inv, TypeOK, device, Places
<1>3. FramesAreOfThisPeriod' /\ SpeechIsOfThisPeriod' /\ PeriodsAreInOrder'
  BY DEF Inv, FramesAreOfThisPeriod, SpeechIsOfThisPeriod, PeriodsAreInOrder, device, buffer
<1> QED BY <1>2, <1>3 DEF Inv, Places, PlaceFitsPhase, LoopIsNeverInATurn, RedisKnowsThePhase

LEMMA TurnKeepsInv ==
  ASSUME Inv, TurnIsEmpty \/ TurnBegins \/ Reply \/ Farewell PROVE Inv'
<1>1. UNCHANGED <<mode, since, inbox, device, heard, buffer>>
  BY DEF TurnIsEmpty, TurnBegins, Reply, Farewell, InTurn
<1>2. /\ Len(frames) \in Nat /\ phase \in Phases /\ open \in BOOLEAN
      /\ stored \in [phase : Phases, frames : Nat] /\ faults \in 0 .. MaxFaults
  BY DEF Inv, TypeOK
<1>3. {"ready", "responding", "closed"} \subseteq Phases BY DEF Phases
<1>4. CASE TurnIsEmpty
  <2>1. phase' = "ready" /\ UNCHANGED open BY <1>4 DEF TurnIsEmpty
  <2>2. /\ stored' \in [phase : Phases, frames : Nat] /\ faults' \in 0 .. MaxFaults
        /\ (pc' = "loop" /\ stored'.phase = phase') \/ pc' = "failed"
    BY <1>2, <1>3, <1>4, <2>1, SaveIs DEF TurnIsEmpty
  <2> QED BY <1>1, <1>2, <1>3, <2>1, <2>2, TurnSuffices DEF Places
<1>5. CASE TurnBegins
  <2>1. UNCHANGED open /\ phase' \in Phases BY <1>2, <1>3, <1>5 DEF TurnBegins
  <2>2. /\ stored' \in [phase : Phases, frames : Nat] /\ faults' \in 0 .. MaxFaults
        /\ pc' \in {"reply", "failed"}
    BY <1>2, <1>5, <2>1, SaveIs DEF TurnBegins
  <2> QED BY <1>1, <1>2, <2>1, <2>2, TurnSuffices DEF Places
<1>6. CASE Reply
  <2>1. /\ pc' \in {"ending", "farewell", "failed", "parting"}
        /\ UNCHANGED <<phase, open, stored, faults>>
    BY <1>6 DEF Reply
  <2> QED BY <1>1, <1>2, <2>1, TurnSuffices DEF Places
<1>7. CASE Farewell
  <2>1. phase' = "closed" BY <1>7 DEF Farewell
  <2>2. CASE Save(Len(frames), "loop", "failed") /\ open' = (pc' = "failed")
    <3>1. /\ stored' \in [phase : Phases, frames : Nat] /\ faults' \in 0 .. MaxFaults
          /\ (pc' = "loop" /\ stored'.phase = phase') \/ pc' = "failed"
      BY <1>2, <1>3, <2>1, <2>2, SaveIs
    <3>2. open' \in BOOLEAN /\ (pc' = "loop" => ~open') BY <2>2
    <3> QED BY <1>1, <1>3, <2>1, <3>1, <3>2, TurnSuffices DEF Places
  <2>3. CASE /\ UNCHANGED <<open, faults>>
             /\ stored' = [phase |-> "closed", frames |-> Len(frames)]
             /\ pc' \in {"parting", "failed"}
    <3>1. stored' \in [phase : Phases, frames : Nat] BY <1>2, <1>3, <2>3
    <3> QED BY <1>1, <1>2, <1>3, <2>1, <2>3, <3>1, TurnSuffices DEF Places
  <2> QED BY <1>7, <2>2, <2>3 DEF Farewell
<1> QED BY <1>4, <1>5, <1>6, <1>7

LEMMA BackToReadyKeepsInv ==
  ASSUME Inv, NEW at, NEW failed \in {"failed", "dead"}, BackToReady(at, failed)
  PROVE  Inv'
<1>1. UNCHANGED <<mode, since, inbox, device, heard, open>>
  BY DEF BackToReady, InTurn
<1>2. \/ UNCHANGED buffer
      \/ frames' = << >> /\ analyzed' = 0 /\ speech' = FALSE
  BY DEF BackToReady, ResetAudio
<1>3. Len(frames) \in Nat /\ open \in BOOLEAN BY DEF Inv, TypeOK
<1>4. phase' = "ready" /\ phase' \in Phases BY DEF BackToReady, Phases
<1>5. /\ stored' \in [phase : Phases, frames : Nat] /\ faults' \in 0 .. MaxFaults
      /\ (pc' = "loop" /\ stored'.phase = phase') \/ pc' = failed
  BY <1>3, <1>4, SaveIs DEF BackToReady
<1> QED BY <1>1, <1>2, <1>3, <1>4, <1>5, TurnSuffices DEF Places

LEMMA NextKeepsInv == Inv /\ [Next]_vars => Inv'
<1> SUFFICES ASSUME Inv, [Next]_vars PROVE Inv'
  OBVIOUS
<1>1. CASE EndTurn \/ Part \/ Recover
  BY <1>1, BackToReadyKeepsInv DEF EndTurn, Part, Recover
<1>2. CASE UNCHANGED vars
  BY <1>2 DEF vars, device, buffer, Inv, TypeOK, PeriodsAreInOrder, FramesAreOfThisPeriod,
     SpeechIsOfThisPeriod, PlaceFitsPhase, LoopIsNeverInATurn, RedisKnowsThePhase
<1> QED
  BY <1>1, <1>2, DeviceKeepsInv, LeavingKeepsInv, ListenKeepsInv, StopKeepsInv, AbortKeepsInv,
     OtherKeepsInv, AudioKeepsInv, DisconnectKeepsInv, CheckKeepsInv, TurnKeepsInv DEF Next

LEMMA InvHolds == Spec => []Inv
BY InitInv, NextKeepsInv, PTL DEF Spec

(* Type correctness: the silence check never looks past the buffer, and    *)
(* the server begins no period that the device has not asked for.          *)
THEOREM TypeCorrect == Spec => []TypeOK
<1>1. Inv => TypeOK BY DEF Inv
<1> QED BY <1>1, InvHolds, PTL

(* Whatever the device sends while the server is deaf, and whichever saves *)
(* raise, a turn is made of the frames of one listening period, and the    *)
(* speech whose silence ends a period was heard in that period.            *)
THEOREM OnePeriodPerTurn == Spec => []TurnHearsOnePeriod
<1>1. Inv => TurnHearsOnePeriod BY DEF Inv, TurnHearsOnePeriod
<1> QED BY <1>1, InvHolds, PTL

(* However a turn ends, the loop goes on in a phase in which the device    *)
(* can be heard, or is done with.                                          *)
THEOREM NeverDeafInTheLoop == Spec => []LoopIsNeverInATurn
<1>1. Inv => LoopIsNeverInATurn BY DEF Inv
<1> QED BY <1>1, InvHolds, PTL

(* Whichever saves raise, Redis has the phase whenever the loop waits.     *)
THEOREM RedisAgrees == Spec => []RedisKnowsThePhase
<1>1. Inv => RedisKnowsThePhase BY DEF Inv
<1> QED BY <1>1, InvHolds, PTL
==================================================================================
