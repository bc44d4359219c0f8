-------------------------- MODULE Scheduler_proofs --------------------------
(***************************************************************************)
(* Proofs about Scheduler, for any users and jobs, any sizes of a page and *)
(* any number of crashes.  The invariants that a reader cares about are    *)
(* not inductive by themselves; what they need besides are the fields of a *)
(* request, how often a job has run in each of its states, and that what   *)
(* is being looked for, listed or was cancelled has been scheduled.        *)
(***************************************************************************)
EXTENDS Scheduler, TLAPS, FiniteSetTheorems

Listings ==
  [at : {"list", "listed"}, for : Owners, known : SUBSET Jobs, unread : SUBSET Reads,
   found : SUBSET Jobs, full : BOOLEAN]
Cancellings == [at : {"look", "remove"}, for : Owners, job : Jobs]

RequestOK == request \in {Idle} \cup Listings \cup Cancellings

(* How often a job has run, in each of its states.                         *)
Counted(j) ==
  /\ state[j] \in {"none", "delayed"} => stalls[j] = 0 /\ starts[j] = 0
  /\ state[j] = "waiting" => starts[j] = stalls[j] /\ stalls[j] <= MaxStalled
  /\ state[j] = "active" => starts[j] = stalls[j] + 1 /\ stalls[j] <= MaxStalled
  /\ starts[j] <= MaxStalled + 1
Counts == \A j \in Jobs : Counted(j)

(* A job that a client was told is cancelled has left the queue for good.  *)
ToldAreGone == \A j \in told : state[j] = "gone"

(* The job being cancelled was found in the queue.                         *)
ChosenIsScheduled == request \in Cancellings => state[request.job] # "none"

(* What is known of a listing: a pending job of its user has been found,   *)
(* the page was full, or the pending jobs are still to be read.            *)
Accounted(j) ==
  /\ state[j] # "none" /\ owner[j] = request.for
  /\ state[j] \in Pending /\ starts[j] = 0 =>
       Pending \in request.unread \/ j \in request.found \/ request.full
KnownAreAccounted ==
  request \in Listings =>
    /\ \A j \in request.known : Accounted(j)
    /\ request.at = "listed" => request.unread = {}

Inv ==
  /\ TypeOK /\ RequestOK /\ Counts /\ ToldAreGone /\ ChosenIsScheduled /\ KnownAreAccounted

LEMMA InitInv == Init => Inv
BY SchedulerAssumption DEF Init, Inv, TypeOK, RequestOK, Counts, Counted, ToldAreGone,
  ChosenIsScheduled, KnownAreAccounted, Idle, In, Listings, Cancellings

LEMMA ScheduleKeepsInv ==
  ASSUME Inv, NEW o \in Owners, NEW j \in Jobs, Schedule(o, j)
  PROVE  Inv'
<1>1. TypeOK'
  BY DEF Schedule, Becomes, Inv, TypeOK, In, Pending
<1>2. RequestOK'
  BY DEF Schedule, Inv, RequestOK
<1>3. Counts'
  BY DEF Schedule, Becomes, Inv, Counts, Counted
<1>4. ToldAreGone'
  BY DEF Schedule, Becomes, Inv, ToldAreGone
<1>5. ChosenIsScheduled'
  BY DEF Schedule, Becomes, Inv, ChosenIsScheduled
<1>6. KnownAreAccounted'
  BY DEF Schedule, Becomes, Inv, TypeOK, KnownAreAccounted, Accounted, In, Listings
<1> QED BY <1>1, <1>2, <1>3, <1>4, <1>5, <1>6 DEF Inv

LEMMA DueKeepsInv ==
  ASSUME Inv, NEW j \in Jobs, Due(j)
  PROVE  Inv'
<1>1. TypeOK'
  BY DEF Due, Becomes, Inv, TypeOK, In, Pending
<1>2. RequestOK'
  BY DEF Due, Inv, RequestOK
<1>3. Counts'
  BY SchedulerAssumption DEF Due, Becomes, Inv, Counts, Counted
<1>4. ToldAreGone'
  BY DEF Due, Becomes, Inv, ToldAreGone
<1>5. ChosenIsScheduled'
  BY DEF Due, Becomes, Inv, ChosenIsScheduled
<1>6. KnownAreAccounted'
  BY DEF Due, Becomes, Inv, KnownAreAccounted, Accounted, Pending
<1> QED BY <1>1, <1>2, <1>3, <1>4, <1>5, <1>6 DEF Inv

LEMMA TakeKeepsInv ==
  ASSUME Inv, NEW j \in Jobs, Take(j)
  PROVE  Inv'
<1>1. TypeOK'
  BY DEF Take, Becomes, Inv, TypeOK, In
<1>2. RequestOK'
  BY DEF Take, Inv, RequestOK
<1>3. Counts'
  BY SchedulerAssumption DEF Take, Becomes, Inv, TypeOK, Counts, Counted
<1>4. ToldAreGone'
  BY DEF Take, Becomes, Inv, ToldAreGone
<1>5. ChosenIsScheduled'
  BY DEF Take, Becomes, Inv, ChosenIsScheduled
<1>6. KnownAreAccounted'
  BY DEF Take, Becomes, Inv, TypeOK, KnownAreAccounted, Accounted
<1> QED BY <1>1, <1>2, <1>3, <1>4, <1>5, <1>6 DEF Inv

LEMMA ProcessKeepsInv ==
  ASSUME Inv, Process
  PROVE  Inv'
<1>1. TypeOK'
  BY DEF Process, Becomes, Inv, TypeOK, In, Ended
<1>2. RequestOK'
  BY DEF Process, Inv, RequestOK
<1>3. Counts'
  BY DEF Process, Becomes, Inv, Counts, Counted
<1>4. ToldAreGone'
  BY DEF Process, Becomes, Inv, TypeOK, ToldAreGone
<1>5. ChosenIsScheduled'
  BY DEF Process, Becomes, Inv, ChosenIsScheduled
<1>6. KnownAreAccounted'
  BY DEF Process, Becomes, Inv, KnownAreAccounted, Accounted, Pending
<1> QED BY <1>1, <1>2, <1>3, <1>4, <1>5, <1>6 DEF Inv

LEMMA StallKeepsInv ==
  ASSUME Inv, NEW j \in Jobs, Stall(j)
  PROVE  Inv'
<1>1. TypeOK'
  BY DEF Stall, Becomes, Inv, TypeOK, In, Pending, Ended, Counts, Counted
<1>2. RequestOK'
  BY DEF Stall, Inv, RequestOK
<1>3. Counts'
  BY SchedulerAssumption DEF Stall, Becomes, Inv, TypeOK, Counts, Counted
<1>4. ToldAreGone'
  BY DEF Stall, Becomes, Inv, ToldAreGone
<1>5. ChosenIsScheduled'
  BY DEF Stall, Becomes, Inv, ChosenIsScheduled
<1>6. KnownAreAccounted'
  BY DEF Stall, Becomes, Inv, TypeOK, KnownAreAccounted, Accounted, Counts, Counted
<1> QED BY <1>1, <1>2, <1>3, <1>4, <1>5, <1>6 DEF Inv

LEMMA ForgetKeepsInv ==
  ASSUME Inv, NEW j \in Jobs, Forget(j)
  PROVE  Inv'
<1>1. TypeOK'
  BY DEF Forget, Becomes, Inv, TypeOK, In, Ended
<1>2. RequestOK'
  BY DEF Forget, Inv, RequestOK
<1>3. Counts'
  BY DEF Forget, Becomes, Inv, Counts, Counted
<1>4. ToldAreGone'
  BY DEF Forget, Becomes, Inv, ToldAreGone
<1>5. ChosenIsScheduled'
  BY DEF Forget, Becomes, Inv, ChosenIsScheduled
<1>6. KnownAreAccounted'
  BY DEF Forget, Becomes, Inv, KnownAreAccounted, Accounted, Pending
<1> QED BY <1>1, <1>2, <1>3, <1>4, <1>5, <1>6 DEF Inv

LEMMA CrashKeepsInv ==
  ASSUME Inv, Crash
  PROVE  Inv'
<1>1. TypeOK'
  <2>1. crashes' \in 0 .. MaxCrashes
    BY SchedulerAssumption DEF Crash, Inv, TypeOK
  <2>2. request'.at = "idle" /\ worker' = NoJob /\ up' = FALSE
    BY DEF Crash, Idle
  <2> QED
    BY <2>1, <2>2 DEF Crash, jobVars, Inv, TypeOK, In
<1>2. RequestOK'
  BY DEF Crash, RequestOK
<1>3. Counts'
  BY DEF Crash, jobVars, Inv, Counts, Counted
<1>4. ToldAreGone'
  BY DEF Crash, jobVars, Inv, ToldAreGone
<1>5. ChosenIsScheduled'
  BY DEF Crash, ChosenIsScheduled, Idle, Cancellings
<1>6. KnownAreAccounted'
  BY DEF Crash, KnownAreAccounted, Idle, Listings
<1> QED BY <1>1, <1>2, <1>3, <1>4, <1>5, <1>6 DEF Inv

LEMMA RestartKeepsInv ==
  ASSUME Inv, Restart
  PROVE  Inv'
<1>1. TypeOK'
  BY DEF Restart, jobVars, Inv, TypeOK, In
<1>2. RequestOK'
  BY DEF Restart, Inv, RequestOK
<1>3. Counts'
  BY DEF Restart, jobVars, Inv, Counts, Counted
<1>4. ToldAreGone'
  BY DEF Restart, jobVars, Inv, ToldAreGone
<1>5. ChosenIsScheduled'
  BY DEF Restart, jobVars, Inv, ChosenIsScheduled
<1>6. KnownAreAccounted'
  BY DEF Restart, jobVars, Inv, KnownAreAccounted, Accounted
<1> QED BY <1>1, <1>2, <1>3, <1>4, <1>5, <1>6 DEF Inv

LEMMA ListKeepsInv ==
  ASSUME Inv, NEW o \in Owners, List(o)
  PROVE  Inv'
<1>1. TypeOK'
  BY DEF List, jobVars, Inv, TypeOK, In, Listing
<1>2. RequestOK'
  BY DEF List, RequestOK, In, Listings, Listing
<1>3. Counts'
  BY DEF List, jobVars, Inv, Counts, Counted
<1>4. ToldAreGone'
  BY DEF List, jobVars, Inv, ToldAreGone
<1>5. ChosenIsScheduled'
  BY DEF List, ChosenIsScheduled, Cancellings, Listing
<1>6. KnownAreAccounted'
  BY DEF List, jobVars, KnownAreAccounted, Accounted, In, Pending, Listing, Reads
<1> QED BY <1>1, <1>2, <1>3, <1>4, <1>5, <1>6 DEF Inv

LEMMA ReadKeepsInv ==
  ASSUME Inv, NEW states \in Reads, Read(states)
  PROVE  Inv'
<1>1. TypeOK'
  BY DEF Read, jobVars, Inv, TypeOK, In, Listing
<1>2. RequestOK'
  <2>1. request \in Listings
    BY DEF Inv, RequestOK, Read, Idle, Cancellings
  <2>2. PICK page \in Pages(states) :
          request' = Listing(request.for, request.known, request.unread \ {states},
                             request.found \cup page, request.full \/ page # In(states))
    BY DEF Read
  <2>3. page \in SUBSET Jobs
    BY DEF Pages, In
  <2>4. (request.full \/ page # In(states)) \in BOOLEAN
    BY <2>1
  <2> QED
    BY <2>1, <2>2, <2>3, <2>4 DEF RequestOK, Listings, Listing
<1>3. Counts'
  BY DEF Read, jobVars, Inv, Counts, Counted
<1>4. ToldAreGone'
  BY DEF Read, jobVars, Inv, ToldAreGone
<1>5. ChosenIsScheduled'
  BY DEF Read, ChosenIsScheduled, Cancellings, Listing
<1>6. KnownAreAccounted'
  <2>1. request \in Listings /\ request.at = "list" /\ states \in request.unread
    BY DEF Inv, RequestOK, Read, Idle, Cancellings
  <2>2. PICK page \in Pages(states) :
          request' = Listing(request.for, request.known, request.unread \ {states},
                             request.found \cup page, request.full \/ page # In(states))
    BY DEF Read
  <2>3. /\ request'.at = "list" /\ request'.for = request.for
        /\ request'.known = request.known /\ request'.unread = request.unread \ {states}
        /\ request'.found = request.found \cup page
        /\ request'.full <=> request.full \/ page # In(states)
    BY <2>2 DEF Listing
  <2>4. ASSUME NEW j \in request.known
        PROVE  Accounted(j)'
    <3>1. Accounted(j) /\ j \in Jobs
      BY <2>1 DEF Inv, KnownAreAccounted, Listings
    <3>2. state' = state /\ owner' = owner /\ starts' = starts
      BY DEF Read, jobVars
    <3>3. CASE states = Pending
      <4>1. CASE page = In(states)
        BY <2>3, <3>1, <3>2, <3>3, <4>1 DEF Accounted, In
      <4>2. CASE page # In(states)
        BY <2>3, <3>1, <3>2, <4>2 DEF Accounted
      <4> QED  BY <4>1, <4>2
    <3>4. CASE states # Pending
      BY <2>3, <3>1, <3>2, <3>4 DEF Accounted
    <3> QED  BY <3>3, <3>4
  <2> QED
    BY <2>3, <2>4 DEF KnownAreAccounted
<1> QED BY <1>1, <1>2, <1>3, <1>4, <1>5, <1>6 DEF Inv

LEMMA ListStatesKeepsInv ==
  ASSUME Inv, ListStates
  PROVE  Inv'
<1>1. TypeOK'
  BY DEF ListStates, jobVars, Inv, TypeOK, In
<1>2. RequestOK'
  <2>1. request \in Listings
    BY DEF ListStates, Inv, RequestOK, Idle, Cancellings
  <2>2. Own(request.found) \in SUBSET Jobs
    BY <2>1 DEF Own, Listings
  <2> QED BY <2>1, <2>2 DEF ListStates, RequestOK, Listings
<1>3. Counts'
  BY DEF ListStates, jobVars, Inv, Counts, Counted
<1>4. ToldAreGone'
  BY DEF ListStates, jobVars, Inv, ToldAreGone
<1>5. ChosenIsScheduled'
  BY DEF ListStates, ChosenIsScheduled, Cancellings
<1>6. KnownAreAccounted'
  <2>1. /\ request \in Listings /\ request.unread = {}
        /\ request' = [request EXCEPT !.at = "listed", !.found = Own(request.found)]
        /\ UNCHANGED <<state, owner, starts>>
    BY DEF ListStates, jobVars, Inv, RequestOK, Idle, Cancellings
  <2>2. ASSUME NEW j \in request.known PROVE Accounted(j)'
    BY <2>1, <2>2 DEF Inv, KnownAreAccounted, Accounted, Listings, Own
  <2> QED BY <2>1, <2>2 DEF KnownAreAccounted, Listings
<1> QED BY <1>1, <1>2, <1>3, <1>4, <1>5, <1>6 DEF Inv

LEMMA FindKeepsInv ==
  ASSUME Inv, NEW o \in Owners, NEW j \in Jobs, Find(o, j)
  PROVE  Inv'
<1>1. TypeOK'
  BY DEF Find, jobVars, Inv, TypeOK, In, Cancelling
<1>2. RequestOK'
  BY DEF Find, RequestOK, Cancellings, Cancelling
<1>3. Counts'
  BY DEF Find, jobVars, Inv, Counts, Counted
<1>4. ToldAreGone'
  BY DEF Find, jobVars, Inv, ToldAreGone
<1>5. ChosenIsScheduled'
  BY DEF Find, jobVars, ChosenIsScheduled, Cancelling
<1>6. KnownAreAccounted'
  BY DEF Find, KnownAreAccounted, Listings, Cancelling
<1> QED BY <1>1, <1>2, <1>3, <1>4, <1>5, <1>6 DEF Inv

LEMMA LookKeepsInv ==
  ASSUME Inv, Look
  PROVE  Inv'
<1>1. TypeOK'
  BY DEF Look, jobVars, Inv, TypeOK, In, Idle
<1>2. RequestOK'
  BY DEF Look, Inv, RequestOK, Idle, Listings, Cancellings
<1>3. Counts'
  BY DEF Look, jobVars, Inv, Counts, Counted
<1>4. ToldAreGone'
  BY DEF Look, jobVars, Inv, ToldAreGone
<1>5. ChosenIsScheduled'
  BY DEF Look, jobVars, ChosenIsScheduled, Pending, Idle, Cancellings
<1>6. KnownAreAccounted'
  BY DEF Look, KnownAreAccounted, Idle, Listings
<1> QED BY <1>1, <1>2, <1>3, <1>4, <1>5, <1>6 DEF Inv

LEMMA RemoveKeepsInv ==
  ASSUME Inv, Remove
  PROVE  Inv'
<1>1. TypeOK'
  BY DEF Remove, Becomes, Inv, TypeOK, RequestOK, In, Idle, Listings, Cancellings,
    ChosenIsScheduled
<1>2. RequestOK'
  BY DEF Remove, RequestOK
<1>3. Counts'
  BY DEF Remove, Becomes, Inv, TypeOK, Counts, Counted
<1>4. ToldAreGone'
  BY DEF Remove, Becomes, Inv, TypeOK, RequestOK, ToldAreGone, Idle, Listings, Cancellings
<1>5. ChosenIsScheduled'
  BY DEF Remove, ChosenIsScheduled, Idle, Cancellings
<1>6. KnownAreAccounted'
  BY DEF Remove, KnownAreAccounted, Idle, Listings
<1> QED BY <1>1, <1>2, <1>3, <1>4, <1>5, <1>6 DEF Inv

LEMMA AnswerKeepsInv ==
  ASSUME Inv, Reply \/ ListFails
  PROVE  Inv'
<1>1. TypeOK'
  <2>1. request' = Idle /\ UNCHANGED <<jobVars, worker, up, told, crashes>>
    BY DEF Reply, ListFails
  <2> QED BY <2>1 DEF jobVars, Inv, TypeOK, In, Idle
<1>2. RequestOK'
  BY DEF Reply, ListFails, RequestOK
<1>3. Counts'
  BY DEF Reply, ListFails, jobVars, Inv, Counts, Counted
<1>4. ToldAreGone'
  BY DEF Reply, ListFails, jobVars, Inv, ToldAreGone
<1>5. ChosenIsScheduled'
  BY DEF Reply, ListFails, ChosenIsScheduled, Idle, Cancellings
<1>6. KnownAreAccounted'
  BY DEF Reply, ListFails, KnownAreAccounted, Idle, Listings
<1> QED BY <1>1, <1>2, <1>3, <1>4, <1>5, <1>6 DEF Inv

(* Every step keeps the invariant.                                         *)
LEMMA NextKeepsInv == Inv /\ [Next]_vars => Inv'
<1> SUFFICES ASSUME Inv, [Next]_vars PROVE Inv'
  OBVIOUS
<1>1. ASSUME NEW o \in Owners, NEW j \in Jobs, Schedule(o, j) PROVE Inv'
  BY <1>1, ScheduleKeepsInv
<1>2. ASSUME NEW j \in Jobs, Queue(j) PROVE Inv'
  BY <1>2, DueKeepsInv, TakeKeepsInv, StallKeepsInv DEF Queue
<1>3. ASSUME NEW j \in Jobs, Forget(j) PROVE Inv'
  BY <1>3, ForgetKeepsInv
<1>4. CASE Process
  BY <1>4, ProcessKeepsInv
<1>5. CASE Crash \/ Restart
  BY <1>5, CrashKeepsInv, RestartKeepsInv
<1>6. ASSUME NEW o \in Owners, List(o) PROVE Inv'
  BY <1>6, ListKeepsInv
<1>7. ASSUME NEW states \in Reads, Read(states) PROVE Inv'
  BY <1>7, ReadKeepsInv
<1>8. CASE ListStates \/ ListFails \/ Reply
  BY <1>8, ListStatesKeepsInv, AnswerKeepsInv
<1>9. ASSUME NEW o \in Owners, NEW j \in Jobs, Find(o, j) PROVE Inv'
  BY <1>9, FindKeepsInv
<1>10. CASE Look \/ Remove
  BY <1>10, LookKeepsInv, RemoveKeepsInv
<1>11. CASE UNCHANGED vars
  BY <1>11 DEF vars, Inv, TypeOK, RequestOK, Counts, Counted, ToldAreGone, ChosenIsScheduled,
    KnownAreAccounted, Accounted, In
<1> QED
  BY <1>1, <1>2, <1>3, <1>4, <1>5, <1>6, <1>7, <1>8, <1>9, <1>10, <1>11 DEF Next

LEMMA InvHolds == Spec => []Inv
BY InitInv, NextKeepsInv, PTL DEF Spec

(* The job of the worker is active and the process is up; jobs, users and  *)
(* requests have their types, for any number of each.                      *)
THEOREM TypeCorrect == Spec => []TypeOK
BY InvHolds, PTL DEF Inv

(* No job begins more often than the queue gives it back, and once.        *)
THEOREM NoRunTooMany == Spec => []RunsAreBounded
<1>1. Inv => RunsAreBounded
  BY SchedulerAssumption DEF Inv, Counts, Counted, RunsAreBounded
<1> QED
  BY <1>1, InvHolds, PTL

(* A pending job is in every listing of its user that began after it was   *)
(* scheduled, unless the page was full.                                    *)
THEOREM NoPendingJobMissed == Spec => []PendingJobsAreListed
<1>1. Inv => PendingJobsAreListed
  <2> SUFFICES ASSUME Inv, request.at = "listed", NEW j \in request.known,
                      state[j] \in Pending, starts[j] = 0
               PROVE  j \in request.found \/ request.full
    BY DEF PendingJobsAreListed
  <2>1. request \in Listings
    BY DEF Inv, RequestOK, Idle, Cancellings
  <2>2. Accounted(j) /\ request.unread = {}
    BY <2>1 DEF Inv, KnownAreAccounted
  <2> QED
    BY <2>2 DEF Accounted
<1> QED
  BY <1>1, InvHolds, PTL

(* A job is not at work when a client is told that it is cancelled, and    *)
(* never begins afterwards.                                                *)
THEOREM CancelledStaysCancelled == Spec => CancelledNeverBegins
<1>1. ASSUME Inv, Inv', [Next]_vars
      PROVE  [\A j \in told' : worker' # j /\ (j \in told => starts'[j] = starts[j])]_vars
  <2>1. ASSUME NEW j \in told' PROVE worker' # j
    <3>1. state'[j] = "gone" /\ j \in Jobs
      BY <1>1, <2>1 DEF Inv, ToldAreGone, TypeOK
    <3>2. worker' # NoJob => state'[worker'] = "active"
      BY <1>1 DEF Inv, TypeOK
    <3> QED
      BY <3>1, <3>2, SchedulerAssumption
  <2>2. ASSUME NEW j \in told PROVE starts'[j] = starts[j]
    <3>1. state[j] = "gone" /\ j \in Jobs
      BY <1>1, <2>2 DEF Inv, ToldAreGone, TypeOK
    <3>2. ASSUME NEW k \in Jobs, Take(k) PROVE starts'[j] = starts[j]
      BY <1>1, <3>1, <3>2 DEF Take
    <3>3. CASE ~ \E k \in Jobs : Take(k)
      BY <1>1, <3>3 DEF Next, Queue, vars, jobVars, Schedule, Due, Process, Stall, Forget,
        Crash, Restart, List, Read, ListStates, ListFails, Find, Look, Remove, Reply
    <3> QED
      BY <3>2, <3>3
  <2> QED
    BY <2>1, <2>2
<1> QED
  BY <1>1, InvHolds, PTL DEF Spec, CancelledNeverBegins

-----------------------------------------------------------------------------
(***************************************************************************)
(* What crashes have cost: <<j, n>> with n > 0 is the n-th time that a     *)
(* worker died on job j, and <<j, 0>> that one has and the queue has not   *)
(* noticed yet.  Only a crash adds to it, and no more than one.            *)
(***************************************************************************)
Orphan(j) == state[j] = "active" /\ worker # j
Deaths ==
  {r \in Jobs \X (0 .. MaxStalled + 1) :
     IF r[2] = 0 THEN Orphan(r[1]) ELSE r[2] <= stalls[r[1]]}

DeathsAreCrashes ==
  /\ IsFiniteSet(Deaths) /\ Cardinality(Deaths) <= crashes
  /\ \A j \in Jobs : starts[j] <= stalls[j] + 1

LEMMA AtMostOneMore ==
  ASSUME NEW S, NEW T, NEW x, IsFiniteSet(S), T \subseteq S \cup {x}
  PROVE  /\ IsFiniteSet(T) /\ Cardinality(T) \in Nat /\ Cardinality(S) \in Nat
         /\ Cardinality(T) <= Cardinality(S) + 1
<1> DEFINE U == S \cup {x}
<1>1. Cardinality(S) \in Nat BY FS_CardinalityType
<1>2. IsFiniteSet(U) /\ Cardinality(U) = IF x \in S THEN Cardinality(S) ELSE Cardinality(S) + 1
  BY FS_AddElement
<1>3. T \in SUBSET U OBVIOUS
<1> HIDE DEF U
<1>4. IsFiniteSet(T) /\ Cardinality(T) <= Cardinality(U) BY <1>2, <1>3, FS_Subset
<1>5. Cardinality(T) \in Nat BY <1>4, FS_CardinalityType
<1> QED BY <1>1, <1>2, <1>4, <1>5

LEMMA InitDeaths == Init => DeathsAreCrashes
<1> SUFFICES ASSUME Init PROVE DeathsAreCrashes OBVIOUS
<1>1. Deaths = {} BY SchedulerAssumption DEF Init, Deaths, Orphan
<1>2. crashes = 0 /\ \A j \in Jobs : starts[j] <= stalls[j] + 1 BY DEF Init
<1> QED BY <1>1, <1>2, FS_EmptySet DEF DeathsAreCrashes

LEMMA FewerDeaths ==
  ASSUME DeathsAreCrashes, Deaths' \subseteq Deaths, crashes' = crashes, crashes \in Nat,
         \A j \in Jobs : starts'[j] <= stalls'[j] + 1
  PROVE  DeathsAreCrashes'
<1> DEFINE before == Deaths
           after == Deaths'
<1>1. IsFiniteSet(before) /\ Cardinality(before) <= crashes /\ after \in SUBSET before
  BY DEF DeathsAreCrashes
<1> HIDE DEF before, after
<1>2. IsFiniteSet(after) /\ Cardinality(after) <= Cardinality(before) BY <1>1, FS_Subset
<1>3. Cardinality(after) \in Nat /\ Cardinality(before) \in Nat BY <1>1, <1>2, FS_CardinalityType
<1>4. Cardinality(after) <= crashes' BY <1>1, <1>2, <1>3
<1> QED BY <1>2, <1>4 DEF DeathsAreCrashes, after

(* A crash leaves at most the job of its worker without one.               *)
LEMMA CrashAddsOneDeath == ASSUME Inv, DeathsAreCrashes, Crash PROVE DeathsAreCrashes'
<1> DEFINE before == Deaths
           after == Deaths'
<1>1. IsFiniteSet(before) /\ Cardinality(before) <= crashes BY DEF DeathsAreCrashes
<1>2. after \subseteq before \cup {<<worker, 0>>}
  BY DEF Crash, jobVars, Deaths, Orphan
<1>3. crashes' = crashes + 1 /\ crashes \in Nat /\ starts' = starts /\ stalls' = stalls
  BY SchedulerAssumption DEF Crash, jobVars, Inv, TypeOK
<1> HIDE DEF before, after
<1>6. /\ IsFiniteSet(after) /\ Cardinality(after) \in Nat /\ Cardinality(before) \in Nat
      /\ Cardinality(after) <= Cardinality(before) + 1
  BY <1>1, <1>2, AtMostOneMore
<1>8. Cardinality(after) <= crashes' BY <1>1, <1>3, <1>6
<1> QED BY <1>3, <1>6, <1>8 DEF DeathsAreCrashes, after

(* The queue notices a death: it is counted instead of pending.            *)
LEMMA StallCountsDeath ==
  ASSUME Inv, DeathsAreCrashes, NEW j \in Jobs, Stall(j) PROVE DeathsAreCrashes'
<1> DEFINE before == Deaths
           after == Deaths'
           old == <<j, 0>>
           new == <<j, stalls[j] + 1>>
<1>0. stalls \in [Jobs -> 0 .. MaxStalled + 1] /\ starts \in [Jobs -> Nat]
      /\ state \in [Jobs -> {"none", "gone", "active"} \cup Pending \cup Ended]
      /\ crashes \in Nat /\ MaxStalled \in Nat
  BY SchedulerAssumption DEF Inv, TypeOK
<1>1. IsFiniteSet(before) /\ Cardinality(before) <= crashes BY DEF DeathsAreCrashes
<1>2. state[j] = "active" /\ worker # j /\ stalls[j] <= MaxStalled
  BY DEF Stall, Inv, Counts, Counted
<1>3. /\ stalls' = [stalls EXCEPT ![j] = @ + 1] /\ starts' = starts /\ worker' = worker
      /\ crashes' = crashes /\ state'[j] # "active"
      /\ \A k \in Jobs : k # j => state'[k] = state[k]
  BY <1>0 DEF Stall, Becomes
<1>4. old \in before BY <1>0, <1>2 DEF Deaths, Orphan
<1>5. after \subseteq (before \ {old}) \cup {new}
  <2> SUFFICES ASSUME NEW r \in after PROVE r \in (before \ {old}) \cup {new} OBVIOUS
  <2>1. /\ r \in Jobs \X (0 .. MaxStalled + 1) /\ r = <<r[1], r[2]>>
        /\ IF r[2] = 0 THEN state'[r[1]] = "active" /\ worker' # r[1]
           ELSE r[2] <= stalls'[r[1]]
    BY DEF Deaths, Orphan
  <2>2. CASE r[1] = j
    <3>1. r[2] # 0 /\ r[2] \in 0 .. MaxStalled + 1 BY <1>3, <2>1, <2>2
    <3>2. r[2] <= stalls[j] + 1 BY <1>0, <1>3, <2>1, <2>2, <3>1
    <3>3. CASE r[2] = stalls[j] + 1 BY <2>1, <2>2, <3>3
    <3>4. CASE r[2] <= stalls[j]
      <4>1. r \in before BY <2>1, <2>2, <3>1, <3>4 DEF Deaths
      <4> QED BY <2>1, <3>1, <4>1
    <3> QED BY <1>0, <3>1, <3>2, <3>3, <3>4
  <2>3. CASE r[1] # j
    <3>1. stalls'[r[1]] = stalls[r[1]] /\ state'[r[1]] = state[r[1]]
      BY <1>0, <1>3, <2>1, <2>3
    <3>2. r \in before BY <1>3, <2>1, <3>1 DEF Deaths, Orphan
    <3> QED BY <2>1, <2>3, <3>2
  <2> QED BY <2>2, <2>3
<1>6. \A k \in Jobs : starts'[k] <= stalls'[k] + 1
  BY <1>0, <1>3 DEF DeathsAreCrashes
<1> HIDE DEF before, after, old, new
<1> DEFINE rest == before \ {old}
<1>7. IsFiniteSet(rest) /\ Cardinality(rest) = Cardinality(before) - 1
  BY <1>1, <1>4, FS_RemoveElement
<1> HIDE DEF rest
<1>8. after \subseteq rest \cup {new} BY <1>5 DEF rest
<1>10. /\ IsFiniteSet(after) /\ Cardinality(after) \in Nat /\ Cardinality(rest) \in Nat
       /\ Cardinality(after) <= Cardinality(rest) + 1
  BY <1>7, <1>8, AtMostOneMore
<1>11. Cardinality(before) \in Nat BY <1>1, FS_CardinalityType
<1>12. Cardinality(after) <= crashes'
  <2>1. crashes' = crashes BY <1>3
  <2> QED BY <1>0, <1>1, <1>7, <1>10, <1>11, <2>1
<1> QED BY <1>6, <1>10, <1>12 DEF DeathsAreCrashes, after

LEMMA NextKeepsDeaths ==
  ASSUME Inv, DeathsAreCrashes, [Next]_vars PROVE DeathsAreCrashes'
<1>0. /\ stalls \in [Jobs -> 0 .. MaxStalled + 1] /\ starts \in [Jobs -> Nat]
      /\ state \in [Jobs -> {"none", "gone", "active"} \cup Pending \cup Ended]
      /\ crashes \in Nat /\ MaxStalled \in Nat /\ NoJob \notin Jobs
      /\ worker \in Jobs \cup {NoJob}
      /\ \A j \in Jobs : starts[j] <= stalls[j] + 1
  BY SchedulerAssumption DEF Inv, TypeOK, DeathsAreCrashes
(* The other steps make no job an orphan.                                   *)
<1>1. ASSUME UNCHANGED <<stalls, crashes>>,
             \A j \in Jobs : starts'[j] = starts[j] \/ (state[j] = "waiting" /\ starts'[j] = starts[j] + 1),
             \A j \in Jobs : Orphan(j)' => Orphan(j)
      PROVE  DeathsAreCrashes'
  <2>1. Deaths' \subseteq Deaths BY <1>1 DEF Deaths, Orphan
  <2>2. ASSUME NEW j \in Jobs PROVE starts'[j] <= stalls'[j] + 1
    <3>1. state[j] = "waiting" => starts[j] = stalls[j] BY DEF Inv, Counts, Counted
    <3> QED BY <1>0, <1>1, <3>1
  <2> QED BY <1>0, <1>1, <2>1, <2>2, FewerDeaths
<1>2. ASSUME NEW j \in Jobs, Stall(j) PROVE DeathsAreCrashes' BY <1>2, StallCountsDeath
<1>3. CASE Crash BY <1>3, CrashAddsOneDeath
<1>4. ASSUME NEW j \in Jobs, Due(j) \/ Forget(j) \/ \E o \in Owners : Schedule(o, j)
      PROVE  DeathsAreCrashes'
  BY <1>0, <1>1, <1>4 DEF Due, Forget, Schedule, Becomes, Orphan
<1>5. ASSUME NEW j \in Jobs, Take(j) PROVE DeathsAreCrashes'
  BY <1>0, <1>1, <1>5 DEF Take, Becomes, Orphan
<1>6. CASE Process
  <2>1. worker \in Jobs BY <1>0, <1>6 DEF Process
  <2> QED BY <1>0, <1>1, <1>6, <2>1 DEF Process, Becomes, Orphan
<1>7. CASE Remove
  <2>1. worker' = worker /\ UNCHANGED <<stalls, crashes, starts>> BY <1>7 DEF Remove
  <2>2. \A j \in Jobs : state'[j] \in {state[j], "gone"} BY <1>0, <1>7 DEF Remove, Becomes
  <2> QED BY <1>0, <1>1, <2>1, <2>2 DEF Orphan
<1>8. CASE \/ Restart \/ \E o \in Owners : List(o) \/ \E j \in Jobs : Find(o, j)
           \/ \E states \in Reads : Read(states)
           \/ ListStates \/ ListFails \/ Reply \/ Look \/ UNCHANGED vars
  <2>1. UNCHANGED <<jobVars, worker, crashes>>
    BY <1>8 DEF Restart, List, Find, Read, ListStates, ListFails, Reply, Look, vars, jobVars
  <2> QED BY <1>1, <2>1 DEF jobVars, Orphan
<1> QED BY <1>2, <1>3, <1>4, <1>5, <1>6, <1>7, <1>8 DEF Next, Queue

(* A job is executed again only because the process died on it: however    *)
(* many jobs there are, they are executed again no more often, all told,   *)
(* than the process has crashed.                                           *)
THEOREM RerunsNeedCrashes == Spec => []RerunsAreCrashes
<1>1. Inv /\ DeathsAreCrashes => RerunsAreCrashes
  <2> SUFFICES ASSUME Inv, DeathsAreCrashes PROVE RerunsAreCrashes OBVIOUS
  <2>0. /\ stalls \in [Jobs -> 0 .. MaxStalled + 1] /\ starts \in [Jobs -> Nat]
        /\ crashes \in Nat /\ MaxStalled \in Nat
    BY SchedulerAssumption DEF Inv, TypeOK
  <2>1. RunsAreBounded BY SchedulerAssumption DEF Inv, Counts, Counted, RunsAreBounded
  <2>2. ASSUME NEW r \in Reruns PROVE r \in Deaths
    <3>1. r \in Jobs \X (1 .. MaxStalled) /\ r[2] < starts[r[1]] /\ starts[r[1]] <= stalls[r[1]] + 1
      BY DEF Reruns, DeathsAreCrashes
    <3>2. r[1] \in Jobs /\ r[2] \in 1 .. MaxStalled BY <3>1
    <3>3. r[2] <= stalls[r[1]] BY <2>0, <3>1, <3>2
    <3>4. r \in Jobs \X (0 .. MaxStalled + 1) /\ r[2] # 0 BY <2>0, <3>1, <3>2
    <3> QED BY <3>3, <3>4 DEF Deaths
  <2>3. IsFiniteSet(Deaths) /\ Cardinality(Deaths) <= crashes /\ Reruns \in SUBSET Deaths
    BY <2>2 DEF DeathsAreCrashes
  <2>4. IsFiniteSet(Reruns) /\ Cardinality(Reruns) <= Cardinality(Deaths) BY <2>3, FS_Subset
  <2>5. Cardinality(Reruns) \in Nat /\ Cardinality(Deaths) \in Nat
    BY <2>3, <2>4, FS_CardinalityType
  <2>6. Cardinality(Reruns) <= crashes BY <2>0, <2>3, <2>4, <2>5
  <2> QED BY <2>1, <2>6 DEF RerunsAreCrashes
<1>2. Init => DeathsAreCrashes BY InitDeaths
<1>3. Inv /\ DeathsAreCrashes /\ [Next]_vars => DeathsAreCrashes' BY NextKeepsDeaths
<1> QED BY <1>1, <1>2, <1>3, InvHolds, PTL DEF Spec
=============================================================================
