---------------------------- MODULE WireContract ----------------------------
(***************************************************************************)
(* What a device may be sent in one voice turn, as a specification of the  *)
(* message sequence alone: the order the code itself keeps to, by          *)
(* _process_turn of main.py and the events of services/runtime.py.  It is  *)
(* not the "Wire contract" of apps/xiaozhi-cloud/README.md, which the code *)
(* breaks in two places: the start follows the transcript at once, not the *)
(* first sentence, so that a turn that fails early has been started; and a *)
(* failing stop may follow the normal one, when the save behind that has   *)
(* raised.  A message is [kind, n, i]: sentence n, frame i.                *)
(***************************************************************************)
EXTENDS Naturals, Sequences, FiniteSets

VARIABLE wire

Kinds(w) == {w[j].kind : j \in DOMAIN w}
Number(w, kind) == Cardinality({j \in DOMAIN w : w[j].kind = kind})

Started(w) == "start" \in Kinds(w)
Over(w) == Kinds(w) \cap {"stop", "fail"} # {}

(***************************************************************************)
(* The transcript comes first and the start right after it, once.  Tool    *)
(* notices come before the first sentence.  Sentences come in order; a     *)
(* frame belongs to the sentence announced last, and frames are numbered   *)
(* without a gap across the turn.  After a stop nothing is said of the     *)
(* turn but a failure, when the save behind the normal stop has raised,    *)
(* and after a failure nothing at all.                                     *)
(***************************************************************************)
Allowed(w, m) ==
  CASE m.kind = "stt"      -> w = << >>
    [] m.kind = "start"    -> w # << >> /\ w[Len(w)].kind = "stt"
    [] m.kind = "thinking" -> Started(w) /\ ~Over(w) /\ Number(w, "sentence") = 0
    [] m.kind = "sentence" -> Started(w) /\ ~Over(w) /\ m.n = Number(w, "sentence") + 1
    [] m.kind = "frame"    -> /\ Started(w) /\ ~Over(w)
                              /\ m.n > 0 /\ m.n = Number(w, "sentence")
                              /\ m.i = Number(w, "frame")
    [] m.kind = "stop"     -> Started(w) /\ ~Over(w) /\ Number(w, "sentence") > 0
    [] m.kind = "fail"     -> (w = << >> \/ Started(w)) /\ "fail" \notin Kinds(w)
    [] OTHER               -> FALSE

Init == wire = << >>

Send ==
  /\ Len(wire') = Len(wire) + 1
  /\ SubSeq(wire', 1, Len(wire)) = wire
  /\ Allowed(wire, wire'[Len(wire')])

Spec == Init /\ [][Send]_wire
=============================================================================
