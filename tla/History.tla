------------------------------ MODULE History ------------------------------
(***************************************************************************)
(* The message list a voice session keeps (DeviceSession in                *)
(* apps/xiaozhi-cloud/src/session/models.py) and the two operations on it. *)
(* A message is a record with at least the field "role"; what else it      *)
(* carries is the business of the modules that use this one.               *)
(***************************************************************************)
LOCAL INSTANCE Integers
LOCAL INSTANCE Sequences

CONSTANT MaxHistory      \* the cap of the list (20 in the code)

ASSUME MaxHistoryAssumption == MaxHistory \in Nat \ {0}

(***************************************************************************)
(* _safe_truncate: the last MaxHistory messages, less the tool results at  *)
(* their head, whose assistant message the slice has just cut off.         *)
(***************************************************************************)
(* Mutation: the slice from the wrong end. *)
FirstMessages(h) == IF Len(h) > MaxHistory THEN SubSeq(h, 1, MaxHistory) ELSE h

LastMessages(h) ==
  IF Len(h) > MaxHistory THEN SubSeq(h, Len(h) - MaxHistory + 1, Len(h)) ELSE h

NonTool(h) == {i \in 1 .. Len(h) : h[i].role # "tool"}

(* Mutation: the plain slice, with whatever is at its head. *)
KeepLeadingTools(h) == h

DropLeadingTools(h) ==
  LET first == CHOOSE i \in NonTool(h) : \A j \in NonTool(h) : i <= j
  IN  IF NonTool(h) = {} THEN << >> ELSE SubSeq(h, first, Len(h))

SafeTruncate(h) == DropLeadingTools(LastMessages(h))

(***************************************************************************)
(* add_turn and add_message: append, and truncate only past the cap.       *)
(***************************************************************************)
(* Mutation: one message too many. *)
AddMessageLate(h, m) ==
  LET longer == Append(h, m)
  IN  IF Len(longer) > MaxHistory + 1 THEN SafeTruncate(longer) ELSE longer

AddMessage(h, m) ==
  LET longer == Append(h, m)
  IN  IF Len(longer) > MaxHistory THEN SafeTruncate(longer) ELSE longer
=============================================================================
