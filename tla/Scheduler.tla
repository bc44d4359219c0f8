------------------------------ MODULE Scheduler ------------------------------
(***************************************************************************)
(* Tool calls put off to a later time: SchedulerService, which adds them   *)
(* to a queue, lists them and cancels them, and SchedulerProcessor, which  *)
(* executes them (src/scheduler).                                          *)
(*                                                                         *)
(* External: the BullMQ queue in Redis.  It makes a delayed job waiting    *)
(* when its time has come, hands a waiting job to the worker under a lock, *)
(* gives one whose worker has died back, MaxStalled times, and forgets     *)
(* jobs a day after they ended.  The worker takes one job at a time, in    *)
(* the process that also serves the clients.                               *)
(***************************************************************************)
EXTENDS Naturals, FiniteSets

CONSTANTS
  Owners,        \* users, each with the project of the request
  Jobs,          \* ids of jobs
  NoJob,
  PendingPage,   \* jobs a listing reads of each pending state (51)
  EndedPage,     \* and of each state of ended jobs (21 and 11)
  MaxStalled,    \* times a job is given back (1, the queue's default)
  MaxCrashes     \* bound: crashes of the process

ASSUME SchedulerAssumption ==
  /\ NoJob \notin Jobs
  /\ {PendingPage, EndedPage} \subseteq Nat \ {0} /\ {MaxStalled, MaxCrashes} \subseteq Nat

VARIABLES
  state,     \* of each job in the queue; "none" before it is scheduled
  owner,     \* whose job it is, of each one scheduled
  stalls,    \* times its worker has died
  worker,    \* the job being executed
  up,        \* the process is running
  request,   \* the listing or the cancelling being served
  starts,    \* history: executions begun of each job
  told,      \* history: jobs a client was told are cancelled
  crashes    \* history

jobVars == <<state, owner, stalls, starts>>
vars == <<state, owner, stalls, worker, up, request, starts, told, crashes>>

Pending == {"delayed", "waiting"}
Ended == {"completed", "failed"}
In(states) == {j \in Jobs : state[j] \in states}

(* A request: where it stands, for whom, and what it has found so far.     *)
Idle == [at |-> "idle"]
Listing(for, known, unread, found, full) ==
  [at |-> "list", for |-> for, known |-> known, unread |-> unread,
   found |-> found, full |-> full]
Cancelling(at, for, job) == [at |-> at, for |-> for, job |-> job]

Init ==
  /\ state = [j \in Jobs |-> "none"] /\ owner = << >>
  /\ stalls = [j \in Jobs |-> 0] /\ starts = [j \in Jobs |-> 0]
  /\ worker = NoJob /\ up = TRUE /\ request = Idle /\ told = {} /\ crashes = 0

Becomes(j, s) == state' = [state EXCEPT ![j] = s]

(***************************************************************************)
(* schedule.  Both times given or none, or a time that cannot be read, has *)
(* passed or lies too far ahead: the call is refused and nothing changes.  *)
(***************************************************************************)
Schedule(o, j) ==
  /\ up /\ state[j] = "none" /\ Becomes(j, "delayed")
  /\ owner' = [k \in DOMAIN owner \cup {j} |-> IF k = j THEN o ELSE owner[k]]
  /\ UNCHANGED <<stalls, starts, worker, up, request, told, crashes>>

(***************************************************************************)
(* The queue and the worker.                                               *)
(***************************************************************************)
Due(j) ==
  /\ state[j] = "delayed" /\ Becomes(j, "waiting")
  /\ UNCHANGED <<owner, stalls, starts, worker, up, request, told, crashes>>

Take(j) ==
  /\ up /\ worker = NoJob /\ state[j] = "waiting"
  /\ worker' = j /\ Becomes(j, "active")
  /\ starts' = [starts EXCEPT ![j] = @ + 1]
  /\ UNCHANGED <<owner, stalls, up, request, told, crashes>>

(* process: the tool's answer is the result of the job, an error as well.  *)
Process ==
  /\ worker # NoJob /\ worker' = NoJob /\ Becomes(worker, "completed")
  /\ UNCHANGED <<owner, stalls, starts, up, request, told, crashes>>

(* Mutation: a job is given back however often its worker has died.        *)
StallForever(j) ==
  /\ up /\ state[j] = "active" /\ worker # j
  /\ Becomes(j, "waiting") /\ UNCHANGED stalls
  /\ UNCHANGED <<owner, starts, worker, up, request, told, crashes>>

(* Mutation: a job given back often enough is left as it is.               *)
StallLeaves(j) ==
  /\ up /\ state[j] = "active" /\ worker # j /\ stalls[j] < MaxStalled
  /\ stalls' = [stalls EXCEPT ![j] = @ + 1] /\ Becomes(j, "waiting")
  /\ UNCHANGED <<owner, starts, worker, up, request, told, crashes>>

(* The lock of a dead worker has run out.                                  *)
Stall(j) ==
  /\ up /\ state[j] = "active" /\ worker # j
  /\ stalls' = [stalls EXCEPT ![j] = @ + 1]
  /\ Becomes(j, IF stalls[j] < MaxStalled THEN "waiting" ELSE "failed")
  /\ UNCHANGED <<owner, starts, worker, up, request, told, crashes>>

(* Kept for a day.                                                         *)
Forget(j) ==
  /\ state[j] \in Ended /\ Becomes(j, "gone")
  /\ UNCHANGED <<owner, stalls, starts, worker, up, request, told, crashes>>

Crash ==
  /\ up /\ crashes < MaxCrashes /\ crashes' = crashes + 1
  /\ up' = FALSE /\ worker' = NoJob /\ request' = Idle
  /\ UNCHANGED <<jobVars, told>>

Restart ==
  /\ ~up /\ up' = TRUE
  /\ UNCHANGED <<jobVars, worker, request, told, crashes>>

(***************************************************************************)
(* listJobs: three reads at once, each a page of the queue of all users;   *)
(* the user's own jobs are picked, and each is asked for its state.  A     *)
(* read is of ids first and then of the jobs: one that was removed between *)
(* is an entry without data, whose owner cannot be asked for.              *)
(***************************************************************************)
Reads == {Pending, {"completed"}, {"failed"}}
PageSize(s) == IF s \in Pending THEN PendingPage ELSE EndedPage

List(o) ==
  /\ up /\ request = Idle
  /\ request' = Listing(o, {j \in In(Pending) : owner[j] = o}, Reads, {}, FALSE)
  /\ UNCHANGED <<jobVars, worker, up, told, crashes>>

(* The pages of the states read: all that is there, or as much as fits.    *)
Pages(states) ==
  {page \in SUBSET In(states) :
     \A s \in states :
       Cardinality(page \cap In({s})) =
         IF Cardinality(In({s})) > PageSize(s) THEN PageSize(s) ELSE Cardinality(In({s}))}

(* Mutation: of the pending jobs only the delayed ones are read.           *)
ReadDelayed(states) ==
  /\ request.at = "list" /\ states \in request.unread
  /\ \E page \in Pages(states \ {"waiting"}) :
       request' = Listing(request.for, request.known, request.unread \ {states},
                          request.found \cup page, request.full \/ page # In(states \ {"waiting"}))
  /\ UNCHANGED <<jobVars, worker, up, told, crashes>>

Read(states) ==
  /\ request.at = "list" /\ states \in request.unread
  /\ \E page \in Pages(states) :
       request' = Listing(request.for, request.known, request.unread \ {states},
                          request.found \cup page, request.full \/ page # In(states))
  /\ UNCHANGED <<jobVars, worker, up, told, crashes>>

(* The states are read one after the other, while the jobs get on.         *)
Own(jobs) == {j \in jobs : owner[j] = request.for}
ListStates ==
  /\ request.at = "list" /\ request.unread = {}
  /\ request' = [request EXCEPT !.at = "listed", !.found = Own(@)]
  /\ UNCHANGED <<jobVars, worker, up, told, crashes>>

(* Somebody's job was listed, and gone before it was read: an error.       *)
ListFails ==
  /\ request.at = "list" /\ request.unread = {}
  /\ request.found \cap In({"gone"}) # {} /\ request' = Idle
  /\ UNCHANGED <<jobVars, worker, up, told, crashes>>

(***************************************************************************)
(* cancelJob: find the job, look at its state, remove it.                  *)
(***************************************************************************)
Find(o, j) ==
  /\ up /\ request = Idle
  /\ state[j] \notin {"none", "gone"} /\ owner[j] = o
  /\ request' = Cancelling("look", o, j)
  /\ UNCHANGED <<jobVars, worker, up, told, crashes>>

Look ==
  /\ request.at = "look"
  /\ request' = IF state[request.job] \in Pending THEN [request EXCEPT !.at = "remove"] ELSE Idle
  /\ UNCHANGED <<jobVars, worker, up, told, crashes>>

(* Mutation: the job is marked for the worker to skip; one that is taken   *)
(* already is not touched, and the client is told all the same.            *)
RemoveIfPending ==
  /\ request.at = "remove" /\ request' = Idle
  /\ told' = told \cup {request.job}
  /\ IF state[request.job] \in Pending \cup Ended THEN Becomes(request.job, "gone")
     ELSE UNCHANGED state
  /\ UNCHANGED <<owner, stalls, starts, worker, up, crashes>>

(* Mutation: the job is removed from under its worker.                     *)
RemoveLocked ==
  /\ request.at = "remove" /\ request' = Idle
  /\ Becomes(request.job, "gone") /\ told' = told \cup {request.job}
  /\ UNCHANGED <<owner, stalls, starts, worker, up, crashes>>

(* The queue refuses to remove a job that is locked, by its worker or, for *)
(* a while, by a dead one.  Any other job goes, also one that has ended.   *)
Remove ==
  /\ request.at = "remove" /\ request' = Idle
  /\ \/ /\ worker # request.job
        /\ Becomes(request.job, "gone") /\ told' = told \cup {request.job}
     \/ state[request.job] = "active" /\ UNCHANGED <<state, told>>
  /\ UNCHANGED <<owner, stalls, starts, worker, up, crashes>>

Reply ==
  /\ request.at = "listed" /\ request' = Idle
  /\ UNCHANGED <<jobVars, worker, up, told, crashes>>

-----------------------------------------------------------------------------
Queue(j) == Due(j) \/ Take(j) \/ Stall(j)

Next ==
  \/ \E j \in Jobs : Queue(j) \/ Forget(j) \/ \E o \in Owners : Schedule(o, j)
  \/ Process \/ Crash \/ Restart
  \/ \E o \in Owners : List(o) \/ \E j \in Jobs : Find(o, j)
  \/ \E states \in Reads : Read(states)
  \/ ListStates \/ ListFails \/ Reply \/ Look \/ Remove

(* Fairness: time passes and the queue hands out every job, a tool call is *)
(* answered in the end, a process that died is started again.  Waiting     *)
(* jobs are taken in turn, so none is passed over for ever.  Nobody need   *)
(* schedule, list or cancel.                                               *)
Spec ==
  /\ Init /\ [][Next]_vars
  /\ \A j \in Jobs : WF_vars(Due(j)) /\ SF_vars(Take(j)) /\ SF_vars(Stall(j))
  /\ WF_vars(Process) /\ WF_vars(Restart)

-----------------------------------------------------------------------------
(* Type invariant: the worker's job is active and nobody else's.           *)
TypeOK ==
  /\ state \in [Jobs -> {"none", "gone", "active"} \cup Pending \cup Ended]
  /\ owner \in [Jobs \ In({"none"}) -> Owners]
  /\ stalls \in [Jobs -> 0 .. MaxStalled + 1] /\ starts \in [Jobs -> Nat]
  /\ worker \in Jobs \cup {NoJob}
  /\ worker # NoJob => up /\ state[worker] = "active"
  /\ up \in BOOLEAN /\ told \subseteq Jobs /\ crashes \in 0 .. MaxCrashes
  /\ request.at \in {"idle", "list", "listed", "look", "remove"}

(* What a client was told is cancelled does not begin afterwards, however  *)
(* the cancelling met the worker, a stall or a crash.  (That it has not    *)
(* begun before is not so: the job may run between the look and the        *)
(* removal.)  Nor is it at work when the client is told so.                *)
CancelledNeverBegins ==
  [][\A j \in told' : worker' # j /\ (j \in told => starts'[j] = starts[j])]_vars

(* attempts: 1.  No job runs more often than the queue gives it back.      *)
RunsAreBounded == \A j \in Jobs : starts[j] <= 1 + MaxStalled

(* A job is executed again only when the process died on it, and no crash  *)
(* makes more than one job run again.  <<j, n>>: the n-th time job j is    *)
(* executed again.                                                         *)
Reruns == {r \in Jobs \X (1 .. MaxStalled) : r[2] < starts[r[1]]}
RerunsAreCrashes == RunsAreBounded /\ Cardinality(Reruns) <= crashes

(* A job of the user that was pending when a listing began and has not     *)
(* been taken since is in the answer, unless the page was full: pages are  *)
(* cut before the jobs of other users are left out.                        *)
PendingJobsAreListed ==
  request.at = "listed" =>
    \A j \in request.known :
      state[j] \in Pending /\ starts[j] = 0 => j \in request.found \/ request.full

(* Every job is executed to its end, given up after its worker has died    *)
(* too often, or removed; it is never left behind, whatever crashes.       *)
EveryJobSettles == \A j \in Jobs : (state[j] # "none") ~> (state[j] \in Ended \cup {"gone"})
=============================================================================
