------------------------------ MODULE Delivery ------------------------------
(***************************************************************************)
(* What a tool call promises about the changes it orders, whatever it does *)
(* in between.  A call has one run, or one for each device of a bulk       *)
(* control, and each run orders some changes.  They take effect in their   *)
(* order, none twice and none left out on the way; a run is a success only *)
(* when all have; after a failure at most one more arrives, the one whose  *)
(* answer got lost; and a call is answered when every run has a verdict.   *)
(***************************************************************************)
EXTENDS Naturals, Sequences

VARIABLES
  orders,     \* for each run, the changes it is to make
  received,   \* for each run, the changes that took effect
  verdict,    \* for each run: "open", "success" or "failed"
  stray,      \* for each run: the change that may still arrive is on its way
  answered    \* the client has its answer

vars == <<orders, received, verdict, stray, answered>>

Init ==
  /\ orders = << >> /\ received = << >> /\ verdict = << >> /\ stray = << >>
  /\ answered = FALSE

Complete(i) == received[i] = orders[i]
NextReceived(i) ==
  /\ ~Complete(i)
  /\ received' = [received EXCEPT ![i] = Append(@, orders[i][Len(@) + 1])]

Accept ==
  /\ ~answered /\ orders = << >> /\ orders' # << >>
  /\ received' = [i \in DOMAIN orders' |-> << >>]
  /\ verdict' = [i \in DOMAIN orders' |-> "open"]
  /\ stray' = [i \in DOMAIN orders' |-> FALSE]
  /\ UNCHANGED answered

(* The run gets on: perhaps a change takes effect, perhaps it was the last. *)
Advance(i) ==
  /\ verdict[i] = "open"
  /\ NextReceived(i) \/ UNCHANGED received
  /\ \/ UNCHANGED verdict
     \/ Complete(i)' /\ verdict' = [verdict EXCEPT ![i] = "success"]
  /\ UNCHANGED <<orders, stray, answered>>

Fail(i) ==
  /\ verdict[i] = "open" /\ verdict' = [verdict EXCEPT ![i] = "failed"]
  /\ \/ UNCHANGED stray
     \/ ~Complete(i) /\ stray' = [stray EXCEPT ![i] = TRUE]
  /\ UNCHANGED <<orders, received, answered>>

Arrive(i) ==
  /\ stray[i] /\ stray' = [stray EXCEPT ![i] = FALSE]
  /\ NextReceived(i)
  /\ UNCHANGED <<orders, verdict, answered>>

(* A call that is refused has no run. *)
Answer ==
  /\ ~answered /\ answered' = TRUE
  /\ \A i \in DOMAIN verdict : verdict[i] # "open"
  /\ UNCHANGED <<orders, received, verdict, stray>>

Next ==
  \/ Accept \/ Answer
  \/ \E i \in DOMAIN verdict : Advance(i) \/ Fail(i) \/ Arrive(i)

Spec == Init /\ [][Next]_vars
=============================================================================
