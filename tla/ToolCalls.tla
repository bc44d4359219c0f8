------------------------------ MODULE ToolCalls ------------------------------
(***************************************************************************)
(* A tool call of a gateway client: ToolRegistryService and                *)
(* ToolExecutorService carrying out the plans of ToolPlans against the     *)
(* IoT cloud.  Every handler awaits its steps one stage after the other;   *)
(* the bulk control does so for up to ChunkSize devices at a time          *)
(* (Promise.allSettled) and reports on each.                               *)
(*                                                                         *)
(* External: the cloud and Redis.  A request may be refused; or it may be  *)
(* carried out or not, early or late, while its response is lost.          *)
(***************************************************************************)
EXTENDS ToolPlans

CONSTANTS
  ChunkSize,     \* devices a bulk control works on at once (10)
  MaxRefs,       \* bound: devices of a bulk control (50)
  MaxOptional,   \* bound: optional parameters of a call that a handler branches on
  NoTool

ASSUME ToolCallsAssumption ==
  /\ ChunkSize \in Nat \ {0} /\ MaxRefs \in Nat \ {0} /\ MaxOptional \in Nat
  /\ NoTool \notin Tools

VARIABLES
  tool,       \* the tool called
  runs,       \* what is left of the plan of each run, and how it stands
  results,    \* the outcomes collected so far, in the order of the devices
  answer,     \* what the client is told: "none", "ok", "error", "deferred"
  orders,     \* history: the changes each run is to make
  received,   \* the changes of each run that took effect in the cloud
  stray,      \* a change without a response, which may yet take effect
  read,       \* history: the inventories read for the answer
  stored      \* the inventories whose references Redis was asked to store

vars == <<tool, runs, results, answer, orders, received, stray, read, stored>>

Init ==
  /\ tool = NoTool /\ answer = "none"
  /\ runs = << >> /\ results = << >> /\ orders = << >> /\ received = << >> /\ stray = << >>
  /\ read = {} /\ stored = {}

(***************************************************************************)
(* The call.                                                               *)
(***************************************************************************)
(* What a client may give, and what the device it names may belong to.     *)
Givens(t) ==
  LET definition == ALL_TOOL_DEFINITIONS[t]
  IN  {definition.required \cup some \cup place :
         some \in {S \in SUBSET definition.optional : Cardinality(S) <= MaxOptional},
         place \in SUBSET {"located", "grouped"}}

Plans(t) == {toolHandlers(given)[t] : given \in Givens(t)}

(* The changes a plan makes, in its order.                                 *)
ChangingStages(plan) == {k \in DOMAIN plan : \E s \in plan[k] : Changes(s.request)}
ChangesOf(plan) ==
  LET Nth(j) == CHOOSE k \in ChangingStages(plan) :
                  j = Cardinality({m \in ChangingStages(plan) : m <= k})
  IN  [j \in 1 .. Cardinality(ChangingStages(plan)) |->
         (CHOOSE s \in plan[Nth(j)] : TRUE).request]

NoRun == UNCHANGED <<runs, results, orders, received, stray, read, stored>>

(* executeTool with a delay or a time: the scheduler answers.              *)
Defer(t) ==
  /\ tool = NoTool /\ tool' = t
  /\ isSchedulable(t)
  /\ answer' = "deferred" /\ NoRun

(* No user in the context, or parameters the handler refuses.              *)
Refuse(t) ==
  /\ tool = NoTool /\ tool' = t
  /\ answer' = "error" /\ NoRun

(* Mutation: all devices are run at once.                                  *)
CallUnchunked(t) ==
  /\ tool = NoTool /\ tool' = t
  /\ \E plan \in Plans(t) : \E n \in 1 .. (IF t = "control_devices_bulk" THEN MaxRefs ELSE 1) :
       /\ Head(plan) # {}
       /\ runs' = [i \in 1 .. n |-> [todo |-> plan, out |-> "running"]]
       /\ orders' = [i \in 1 .. n |-> ChangesOf(plan)]
       /\ received' = [i \in 1 .. n |-> << >>] /\ stray' = [i \in 1 .. n |-> << >>]
  /\ UNCHANGED <<results, answer, read, stored>>

Call(t) ==
  /\ tool = NoTool /\ tool' = t
  /\ \E plan \in Plans(t) : \E n \in 1 .. (IF t = "control_devices_bulk" THEN MaxRefs ELSE 1) :
       /\ Head(plan) # {}
       /\ runs' = [i \in 1 .. n |->
                     [todo |-> plan, out |-> IF i <= ChunkSize THEN "running" ELSE "waiting"]]
       /\ orders' = [i \in 1 .. n |-> ChangesOf(plan)]
       /\ received' = [i \in 1 .. n |-> << >>] /\ stray' = [i \in 1 .. n |-> << >>]
  /\ UNCHANGED <<results, answer, read, stored>>

(***************************************************************************)
(* A run.  Its open steps are those of its first stage.                    *)
(***************************************************************************)
Running(i) == runs[i].out = "running" /\ runs[i].todo # << >>
Open(i) == IF Running(i) THEN Head(runs[i].todo) ELSE {}

(* Step s is done with; after the last the run has succeeded.              *)
Done(i, s) ==
  LET stage == Head(runs[i].todo) \ {s}
      rest == Tail(runs[i].todo)
      todo == IF stage = {} THEN rest ELSE <<stage>> \o rest
  IN  runs' = [runs EXCEPT ![i] =
                 [todo |-> todo, out |-> IF todo = << >> THEN "success" ELSE "running"]]
Failed(i) == runs' = [runs EXCEPT ![i] = [todo |-> << >>, out |-> "failed"]]

(* The cloud has answered: what was asked for is read, or has changed.     *)
Respond(i, s) ==
  /\ s.kind \in {"must", "may"} /\ Done(i, s)
  /\ received' = IF Changes(s.request)
                 THEN [received EXCEPT ![i] = Append(@, s.request)] ELSE received
  /\ read' = read \cup {s.request}
  /\ UNCHANGED <<tool, results, answer, orders, stray, stored>>

(* Mutation: a command that fails is skipped, as an optional read is.      *)
MissSkips(i, s) ==
  /\ s.kind \in {"must", "may"} /\ Done(i, s)
  /\ UNCHANGED stray
  /\ UNCHANGED <<tool, results, answer, orders, received, read, stored>>

(* Mutation: a change that fails is asked for again at once.               *)
MissRetries(i, s) ==
  /\ s.kind \in {"must", "may"}
  /\ IF s.kind = "may" THEN Done(i, s)
     ELSE IF Changes(s.request) THEN UNCHANGED runs ELSE Failed(i)
  /\ \/ UNCHANGED stray
     \/ Changes(s.request) /\ stray' = [stray EXCEPT ![i] = <<s.request>>]
  /\ UNCHANGED <<tool, results, answer, orders, received, read, stored>>

(* It has not: the request failed, or only its response was lost.          *)
Miss(i, s) ==
  /\ s.kind \in {"must", "may"}
  /\ IF s.kind = "may" THEN Done(i, s) ELSE Failed(i)
  /\ \/ UNCHANGED stray
     \/ Changes(s.request) /\ stray' = [stray EXCEPT ![i] = <<s.request>>]
  /\ UNCHANGED <<tool, results, answer, orders, received, read, stored>>

Remember(i, s) ==
  /\ s.kind = "store" /\ Done(i, s)
  /\ stored' = stored \cup {s.request}
  /\ UNCHANGED <<tool, results, answer, orders, received, stray, read>>

(* Known to Redis; or looked up in the inventory, which is stored, whether *)
(* the reference is there or not; or the inventory could not be read.      *)
Lookup(i, s) ==
  /\ s.kind = "resolve"
  /\ \/ Done(i, s) /\ UNCHANGED stored
     \/ (Done(i, s) \/ Failed(i)) /\ stored' = stored \cup {s.request}
     \/ Failed(i) /\ UNCHANGED stored
  /\ UNCHANGED <<tool, results, answer, orders, received, stray, read>>

(* A change whose response was lost takes effect after all.                *)
Arrive(i) ==
  /\ stray[i] # << >> /\ stray' = [stray EXCEPT ![i] = << >>]
  /\ received' = [received EXCEPT ![i] = @ \o stray[i]]
  /\ UNCHANGED <<tool, runs, results, answer, orders, read, stored>>

(***************************************************************************)
(* The runs of a chunk have settled: their outcomes are appended in the    *)
(* order of the devices and the next chunk begins, or the call is answered *)
(* with what became of its run, or with the report on all devices.         *)
(***************************************************************************)
Chunk == {i \in DOMAIN runs : runs[i].out # "waiting" /\ i > Len(results)}
Settled == Chunk # {} /\ \A i \in Chunk : runs[i].out \in {"success", "failed"}

(* Mutation: chunks are cut one device apart, and one is never run.        *)
NextChunkSkips ==
  /\ Settled /\ Len(results) + Cardinality(Chunk) < Len(runs)
  /\ results' = results \o [k \in 1 .. Cardinality(Chunk) |-> runs[Len(results) + k].out]
  /\ runs' = [i \in DOMAIN runs |->
                IF i \in Len(results') + 2 .. Len(results') + 1 + ChunkSize
                THEN [runs[i] EXCEPT !.out = "running"] ELSE runs[i]]
  /\ UNCHANGED <<tool, answer, orders, received, stray, read, stored>>

NextChunk ==
  /\ Settled /\ Len(results) + Cardinality(Chunk) < Len(runs)
  /\ results' = results \o [k \in 1 .. Cardinality(Chunk) |-> runs[Len(results) + k].out]
  /\ runs' = [i \in DOMAIN runs |->
                IF i \in Len(results') + 1 .. Len(results') + ChunkSize
                THEN [runs[i] EXCEPT !.out = "running"] ELSE runs[i]]
  /\ UNCHANGED <<tool, answer, orders, received, stray, read, stored>>

(* Mutation: the report lists the devices that failed first.               *)
AnswerFailedFirst ==
  /\ Settled /\ Len(results) + Cardinality(Chunk) = Len(runs)
  /\ LET outs == [i \in DOMAIN runs |-> runs[i].out]
     IN  results' = SelectSeq(outs, LAMBDA o : o = "failed")
                      \o SelectSeq(outs, LAMBDA o : o = "success")
  /\ answer' = IF tool # "control_devices_bulk" /\ results' = <<"failed">>
               THEN "error" ELSE "ok"
  /\ UNCHANGED <<tool, runs, orders, received, stray, read, stored>>

Answer ==
  /\ answer = "none"
  /\ Settled /\ Len(results) + Cardinality(Chunk) = Len(runs)
  /\ results' = results \o [k \in 1 .. Cardinality(Chunk) |-> runs[Len(results) + k].out]
  /\ answer' = IF tool # "control_devices_bulk" /\ results' = <<"failed">>
               THEN "error" ELSE "ok"
  /\ UNCHANGED <<tool, runs, orders, received, stray, read, stored>>

-----------------------------------------------------------------------------
External(i) == \E s \in Open(i) : Respond(i, s) \/ Miss(i, s) \/ Lookup(i, s)
Gateway == NextChunk \/ Answer \/ \E i \in DOMAIN runs : \E s \in Open(i) : Remember(i, s)

Next ==
  \/ \E t \in Tools : Defer(t) \/ Refuse(t) \/ Call(t)
  \/ \E i \in DOMAIN runs : External(i) \/ Arrive(i)
  \/ Gateway

(* Fairness: the gateway's own steps are taken, and what it asks the cloud *)
(* or Redis is answered, with a response or an error.  No stray change     *)
(* need arrive.                                                            *)
Spec ==
  /\ Init /\ [][Next]_vars
  /\ WF_vars(Gateway) /\ WF_vars(\E i \in DOMAIN runs : External(i))

(* The same for a cloud that may accept a request and say nothing: only    *)
(* lookups and the queue, which is in Redis, are sure to be answered.      *)
Redis(i) ==
  \E s \in Open(i) :
    \/ Lookup(i, s)
    \/ s.request \in {listJobs, cancelJob} /\ (Respond(i, s) \/ Miss(i, s))

SilentCloudSpec ==
  /\ Init /\ [][Next]_vars
  /\ WF_vars(Gateway) /\ WF_vars(\E i \in DOMAIN runs : Redis(i))

-----------------------------------------------------------------------------
Outcomes == {"waiting", "running", "success", "failed"}

TypeOK ==
  /\ tool \in Tools \cup {NoTool}
  /\ answer \in {"none", "ok", "error", "deferred"}
  /\ \A i \in DOMAIN runs : runs[i].out \in Outcomes
  /\ Len(runs) <= MaxRefs /\ Len(results) <= Len(runs)
  /\ DOMAIN orders = DOMAIN runs /\ DOMAIN received = DOMAIN runs /\ DOMAIN stray = DOMAIN runs
  /\ \A i \in DOMAIN runs : Len(received[i]) + Len(stray[i]) <= Len(orders[i])
  /\ \A k \in DOMAIN results : results[k] \in {"success", "failed"}
  /\ stored \subseteq {listDevices, listLocations, listGroups}

(* What the client is told of a run, and until then what has become of it. *)
Verdict(i) ==
  IF i \in DOMAIN results THEN results[i]
  ELSE IF runs[i].out \in {"success", "failed"} THEN runs[i].out ELSE "open"

(* The changes of every call are delivered as Delivery promises: in order, *)
(* none left out, and reported, each device in its place, as they went.    *)
Promise == INSTANCE Delivery WITH
  orders <- orders, received <- received,
  verdict <- [i \in DOMAIN runs |-> Verdict(i)],
  stray <- [i \in DOMAIN runs |-> stray[i] # << >>],
  answered <- answer # "none"
ImplementsDelivery == Promise!Spec

(* A tool whose hint says it only reads changes nothing, and one that says *)
(* it destroys nothing deletes nothing, whatever it is given and in        *)
(* however many steps it fails.                                            *)
HintsAreTrue ==
  \A i \in DOMAIN received : \A k \in DOMAIN received[i] :
    /\ "readOnly" \notin Hints(tool)
    /\ "keeps" \in Hints(tool) => received[i][k].verb # "DELETE"

(* A successful answer shows references of the inventories it has read: by *)
(* then Redis was asked to store them, so that the next call finds them.   *)
ShownReferencesAreStored ==
  answer = "ok" => read \cap {listDevices, listLocations, listGroups} \subseteq stored

(* Never more devices at work than the description of the bulk control     *)
(* says, and none is passed over: those before the chunk are reported.     *)
OneChunkAtATime ==
  /\ Cardinality({i \in DOMAIN runs : runs[i].out = "running"}) <= ChunkSize
  /\ \A i \in DOMAIN runs : i <= Len(results) => runs[i].out \in {"success", "failed"}

(* Every call is answered, the bulk control after its last device; given    *)
(* that the cloud answers every request.                                   *)
EveryCallIsAnswered == (tool # NoTool) ~> (answer # "none")

(* AGENT.md:45 and 243 have a request of IotApiService time out after 30   *)
(* seconds: whatever the cloud does, no run of a handler waits for ever.   *)
RequestsTimeOut ==
  \A i \in 1 .. MaxRefs :
    (i \in DOMAIN runs /\ Running(i)) ~> (i \in DOMAIN runs /\ ~Running(i))
=============================================================================
