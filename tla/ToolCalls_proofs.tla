---------------------------- MODULE ToolCalls_proofs ----------------------------
(***************************************************************************)
(* Proofs about ToolCalls, for every tool, whatever it is given, for any   *)
(* number of devices and any size of a chunk.  Three things are shown      *)
(* first: what the plan of each handler is made of (which requests it may  *)
(* make, that it stores every inventory it reads, that a change is a stage *)
(* of its own); what a step leaves of a plan; and how the bulk control     *)
(* cuts the devices into chunks.  The invariant then relates what is left  *)
(* of the plan of a run to the changes it has yet to make.                 *)
(***************************************************************************)
EXTENDS ToolCalls, TLAPS, FiniteSetTheorems, SequenceTheorems

Over == {"success", "failed"}

(***************************************************************************)
(* What a tool may ask for.                                                *)
(***************************************************************************)
Lists == {listDevices, listLocations, listGroups}
Reads ==
  {fetchUser, listDevices, listLocations, listGroups, getDevice, getLocation, getGroup,
   getDeviceState, getLocationState, getDeviceStateByMac, listSmarts, getSmart,
   listSmartCmds, listJobs}
Writes ==
  {updateDevice, deleteDevice, activateSmart, cancelJob}
    \cup {controlDevice(command) : command \in ControlAttrs \cup {"command"}}

ReadsOf(t) == IF t = "control_devices_bulk" THEN Reads \ Lists ELSE Reads
WritesOf(t) ==
  IF "readOnly" \in Hints(t) THEN {}
  ELSE IF "keeps" \in Hints(t) THEN {updateDevice} ELSE Writes

(* The stages of its plans: reads and references together, or one change.  *)
Asking(R) ==
  {Must(r) : r \in R} \cup {May(r) : r \in R}
    \cup {Store(l) : l \in Lists} \cup {Resolve(l) : l \in Lists}
Stages(R, W) == (SUBSET Asking(R)) \cup {{Must(w)} : w \in W}

(* An inventory that is asked for is stored in a later stage.              *)
Asks(stage, L) == Must(L) \in stage \/ May(L) \in stage
Covered(todo) ==
  \A L \in Lists : \A k \in DOMAIN todo :
    Asks(todo[k], L) => \E m \in DOMAIN todo : k < m /\ Store(L) \in todo[m]

(* What is left of a plan makes the changes of "order" after the n-th, one *)
(* for one and in their order: "at" says in which stage.                   *)
Owes(todo, order, n) ==
  \E at \in [n + 1 .. Len(order) -> DOMAIN todo] :
    /\ \A j, k \in n + 1 .. Len(order) : j < k => at[j] < at[k]
    /\ \A j \in n + 1 .. Len(order) : todo[at[j]] = {Must(order[j])}
    /\ \A k \in ChangingStages(todo) : \E j \in n + 1 .. Len(order) : at[j] = k

-----------------------------------------------------------------------------
(***************************************************************************)
(* The plans.                                                              *)
(***************************************************************************)
(* No request is both a read and a change; inventories are reads.          *)
LEMMA ReadsAndWrites ==
  /\ Lists \subseteq Reads
  /\ \A r \in Reads : ~Changes(r)
  /\ \A w \in Writes : Changes(w)
  /\ \A L \in Lists : L \in Reads
<1>1. Lists \subseteq Reads BY DEF Lists, Reads
<1>2. \A r \in Reads : ~Changes(r)
  BY DEF Reads, Changes, fetchUser, listDevices, listLocations, listGroups, getDevice, getLocation,
    getGroup, getDeviceState, getLocationState, getDeviceStateByMac, listSmarts, getSmart,
    listSmartCmds, listJobs, Get, Request
<1>3. \A w \in Writes : Changes(w)
  BY DEF Writes, Changes, updateDevice, deleteDevice, activateSmart, cancelJob, controlDevice, Request
<1> QED BY <1>1, <1>2, <1>3

(* A stage of a plan that changes something is one request.                *)
LEMMA StageIs ==
  ASSUME NEW R \in SUBSET Reads, NEW W \in SUBSET Writes, NEW stage \in Stages(R, W),
         NEW s \in stage
  PROVE  /\ s.kind \in {"must", "may", "store", "resolve"}
         /\ s.kind \in {"must", "may"} => s.request \in R \cup W
         /\ s.kind \in {"store", "resolve"} => s.request \in Lists
         /\ s.kind = "may" => s.request \in R
         /\ Changes(s.request) => s.request \in W /\ stage = {Must(s.request)} /\ s = Must(s.request)
         /\ \A L \in Lists : (s = Store(L) <=> s.kind = "store" /\ s.request = L)
         /\ \A L \in Lists : s.kind \in {"must", "may"} /\ s.request = L => Asks(stage, L)
<1>1. CASE stage \in SUBSET Asking(R)
  <2>1. s \in Asking(R) BY <1>1
  <2>2. CASE \E r \in R : s = Must(r)
    BY <2>2, ReadsAndWrites DEF Must, Store, Asks
  <2>3. CASE \E r \in R : s = May(r)
    BY <2>3, ReadsAndWrites DEF May, Store, Asks
  <2>4. CASE \E l \in Lists : s = Store(l)
    BY <2>4, ReadsAndWrites DEF Store
  <2>5. CASE \E l \in Lists : s = Resolve(l)
    BY <2>5, ReadsAndWrites DEF Resolve, Store
  <2> QED BY <2>1, <2>2, <2>3, <2>4, <2>5 DEF Asking
<1>2. CASE \E w \in W : stage = {Must(w)}
  BY <1>2, ReadsAndWrites DEF Must, Store, Asks
<1>3. stage \in SUBSET Asking(R) \/ \E w \in W : stage = {Must(w)} BY DEF Stages
<1> QED BY <1>1, <1>2, <1>3

(* Plans of requests of R and W that store the inventories they read, but  *)
(* for those of O, which are to be stored yet.                             *)
Owing(R, W, O) ==
  {plan \in Seq(Stages(R, W)) :
     \A L \in Lists \ O : \A k \in DOMAIN plan :
       Asks(plan[k], L) => \E m \in DOMAIN plan : k < m /\ Store(L) \in plan[m]}
Good(R, W) == Owing(R, W, {})

(* What concatenation does.                                                *)
LEMMA CatIs ==
  ASSUME NEW S, NEW p \in Seq(S), NEW q \in Seq(S)
  PROVE  /\ p \o q \in Seq(S) /\ Len(p \o q) = Len(p) + Len(q)
         /\ Len(p) \in Nat /\ Len(q) \in Nat
         /\ DOMAIN p = 1 .. Len(p) /\ DOMAIN q = 1 .. Len(q)
         /\ DOMAIN (p \o q) = 1 .. Len(p) + Len(q)
         /\ \A k \in 1 .. Len(p) : (p \o q)[k] = p[k]
         /\ \A k \in 1 .. Len(q) : (p \o q)[Len(p) + k] = q[k]
OBVIOUS

(* What two plans owe, one after the other.                                *)
LEMMA OwingCat ==
  ASSUME NEW R, NEW W, NEW O, NEW p \in Owing(R, W, O), NEW q \in Owing(R, W, O)
  PROVE  p \o q \in Owing(R, W, O)
<1>1. p \in Seq(Stages(R, W)) /\ q \in Seq(Stages(R, W)) BY DEF Owing
<1>2. /\ p \o q \in Seq(Stages(R, W)) /\ Len(p \o q) = Len(p) + Len(q)
      /\ Len(p) \in Nat /\ Len(q) \in Nat
      /\ DOMAIN p = 1 .. Len(p) /\ DOMAIN q = 1 .. Len(q) /\ DOMAIN (p \o q) = 1 .. Len(p) + Len(q)
      /\ \A k \in 1 .. Len(p) : (p \o q)[k] = p[k]
      /\ \A k \in 1 .. Len(q) : (p \o q)[Len(p) + k] = q[k]
  BY <1>1, CatIs
<1>3. ASSUME NEW L \in Lists \ O, NEW k \in DOMAIN (p \o q), Asks((p \o q)[k], L)
      PROVE  \E m \in DOMAIN (p \o q) : k < m /\ Store(L) \in (p \o q)[m]
  <2>1. CASE k \in 1 .. Len(p)
    <3>1. PICK m \in DOMAIN p : k < m /\ Store(L) \in p[m]
      BY <1>2, <1>3, <2>1 DEF Owing
    <3> QED BY <1>2, <3>1
  <2>2. CASE k \in Len(p) + 1 .. Len(p) + Len(q)
    <3>1. k - Len(p) \in 1 .. Len(q) /\ (p \o q)[k] = q[k - Len(p)] BY <1>2, <2>2
    <3>2. PICK m \in DOMAIN q : k - Len(p) < m /\ Store(L) \in q[m]
      BY <1>2, <1>3, <3>1 DEF Owing
    <3>3. Len(p) + m \in 1 .. Len(p) + Len(q) /\ (p \o q)[Len(p) + m] = q[m] /\ k < Len(p) + m
      BY <1>2, <2>2, <3>2
    <3> QED BY <1>2, <3>2, <3>3
  <2> QED BY <1>2, <2>1, <2>2
<1> QED BY <1>2, <1>3 DEF Owing

(* A stage that asks for no inventory but those owed.                      *)
LEMMA OwingStage ==
  ASSUME NEW R, NEW W, NEW O, NEW stage \in Stages(R, W), \A L \in Lists \ O : ~Asks(stage, L)
  PROVE  <<stage>> \in Owing(R, W, O)
<1>1. <<stage>> \in Seq(Stages(R, W)) /\ DOMAIN <<stage>> = {1} /\ <<stage>>[1] = stage
  OBVIOUS
<1> QED BY <1>1 DEF Owing

(* Storing an inventory settles what is owed of it.                        *)
LEMMA OwingStore ==
  ASSUME NEW R, NEW W, NEW O, NEW L \in Lists, NEW p \in Owing(R, W, O)
  PROVE  p \o Then(Store(L)) \in Owing(R, W, O \ {L})
<1> DEFINE y == Then(Store(L))
<1>1. {Store(L)} \in Stages(R, W) BY DEF Stages, Asking
<1>2. y \in Seq(Stages(R, W)) /\ Len(y) = 1 /\ y[1] = {Store(L)} BY <1>1 DEF Then
<1>3. p \in Seq(Stages(R, W)) BY DEF Owing
<1>10. y \in Seq(Stages(R, W)) BY <1>2
<1> HIDE DEF y
<1>8. /\ p \o y \in Seq(Stages(R, W)) /\ DOMAIN (p \o y) = 1 .. Len(p) + Len(y) /\ Len(p) \in Nat
      /\ DOMAIN p = 1 .. Len(p) /\ \A k \in 1 .. Len(p) : (p \o y)[k] = p[k]
      /\ \A k \in 1 .. Len(y) : (p \o y)[Len(p) + k] = y[k]
  BY <1>3, <1>10, CatIs
<1> DEFINE z == p \o y
<1>9. z = p \o y OBVIOUS
<1> HIDE DEF z
<1>4. /\ z \in Seq(Stages(R, W)) /\ DOMAIN z = 1 .. Len(p) + 1 /\ Len(p) \in Nat
      /\ DOMAIN p = 1 .. Len(p) /\ \A k \in 1 .. Len(p) : z[k] = p[k]
      /\ \A k \in 1 .. Len(y) : z[Len(p) + k] = y[k]
  BY <1>2, <1>8, <1>9
<1>5. z[Len(p) + 1] = {Store(L)} BY <1>2, <1>4
<1>6. ASSUME NEW K \in Lists \ (O \ {L}), NEW k \in DOMAIN z, Asks(z[k], K)
      PROVE  \E m \in DOMAIN z : k < m /\ Store(K) \in z[m]
  <2>1. k # Len(p) + 1 BY <1>5, <1>6 DEF Asks, Must, May, Store
  <2>2. k \in 1 .. Len(p) /\ z[k] = p[k] BY <1>4, <1>6, <2>1
  <2>3. CASE K = L BY <1>4, <1>5, <2>2, <2>3
  <2>4. CASE K # L
    <3>1. PICK m \in DOMAIN p : k < m /\ Store(K) \in p[m]
      BY <1>4, <1>6, <2>2, <2>4 DEF Owing
    <3> QED BY <1>4, <3>1
  <2> QED BY <2>3, <2>4
<1>7. z \in Owing(R, W, O \ {L}) BY <1>4, <1>6 DEF Owing
<1> QED BY <1>7 DEF z, y

(* A plan that owes nothing may be said to owe anything.                   *)
LEMMA OwingMore ==
  ASSUME NEW R, NEW W, NEW O, NEW p \in Good(R, W)
  PROVE  p \in Owing(R, W, O)
BY DEF Good, Owing

(* One plan after another.                                                 *)
LEMMA GoodCat ==
  ASSUME NEW R, NEW W, NEW p \in Good(R, W), NEW q \in Good(R, W)
  PROVE  p \o q \in Good(R, W)
BY OwingCat DEF Good

(* A stage that asks for no inventory.                                     *)
LEMMA GoodStage ==
  ASSUME NEW R, NEW W, NEW stage \in Stages(R, W), \A L \in Lists : ~Asks(stage, L)
  PROVE  <<stage>> \in Good(R, W)
BY OwingStage DEF Good

LEMMA GoodEmpty == ASSUME NEW R, NEW W PROVE << >> \in Good(R, W)
BY DEF Good, Owing

(* What a plan that owes nothing is.                                       *)
LEMMA GoodIs ==
  ASSUME NEW R, NEW W, NEW p \in Good(R, W)
  PROVE  p \in Seq(Stages(R, W)) /\ Covered(p)
BY DEF Good, Owing, Covered

(* The requests that are not inventories.                                  *)
Others ==
  {fetchUser, getDevice, getLocation, getGroup, getDeviceState, getLocationState,
   getDeviceStateByMac, listSmarts, getSmart, listSmartCmds, listJobs}

(* They are reads, told from the inventories by their path.                *)
LEMMA OthersAre == Others \subseteq Reads \ Lists
<1>1. Others \subseteq Reads BY DEF Others, Reads
<1>2. \A r \in Others : r.path # <<"device", "userId">> /\ r.path # <<"location", "userId">>
                          /\ r.path # <<"group", "userId">>
  BY DEF Others, fetchUser, getDevice, getLocation, getGroup, getDeviceState, getLocationState,
    getDeviceStateByMac, listSmarts, getSmart, listSmartCmds, listJobs, Get, Request
<1>3. \A l \in Lists : l.path \in {<<"device", "userId">>, <<"location", "userId">>,
                                   <<"group", "userId">>}
  BY DEF Lists, listDevices, listLocations, listGroups, Get, Request
<1> QED BY <1>1, <1>2, <1>3

(* A single step: a read, a reference, a change.                           *)
LEMMA GoodSteps ==
  ASSUME NEW R, NEW W \in SUBSET Writes
  PROVE  /\ \A r \in R : r \notin Lists => Then(Must(r)) \in Good(R, W)
         /\ \A L \in Lists : Then(Resolve(L)) \in Good(R, W) /\ Then(Store(L)) \in Good(R, W)
         /\ \A w \in W : Then(Must(w)) \in Good(R, W)
<1>1. ASSUME NEW r \in R, r \notin Lists PROVE Then(Must(r)) \in Good(R, W)
  <2>1. {Must(r)} \in Stages(R, W) BY DEF Stages, Asking
  <2>2. \A L \in Lists : ~Asks({Must(r)}, L) BY <1>1 DEF Asks, Must, May
  <2> QED BY <2>1, <2>2, GoodStage DEF Then
<1>2. ASSUME NEW K \in Lists PROVE Then(Resolve(K)) \in Good(R, W)
  <2>1. {Resolve(K)} \in Stages(R, W) BY DEF Stages, Asking
  <2>2. \A L \in Lists : ~Asks({Resolve(K)}, L) BY DEF Asks, Must, May, Resolve
  <2> QED BY <2>1, <2>2, GoodStage DEF Then
<1>3. ASSUME NEW K \in Lists PROVE Then(Store(K)) \in Good(R, W)
  <2>1. {Store(K)} \in Stages(R, W) BY DEF Stages, Asking
  <2>2. \A L \in Lists : ~Asks({Store(K)}, L) BY DEF Asks, Must, May, Store
  <2> QED BY <2>1, <2>2, GoodStage DEF Then
<1>4. ASSUME NEW w \in W PROVE Then(Must(w)) \in Good(R, W)
  <2>1. {Must(w)} \in Stages(R, W) BY DEF Stages
  <2>2. w \notin Lists BY ReadsAndWrites
  <2>3. \A L \in Lists : ~Asks({Must(w)}, L) BY <2>2 DEF Asks, Must, May
  <2> QED BY <2>1, <2>3, GoodStage DEF Then
<1> QED BY <1>1, <1>2, <1>3, <1>4

(* The commands of a control call.                                         *)
LEMMA CommandsAre ==
  ASSUME NEW R, NEW W \in SUBSET Writes, \A a \in ControlAttrs : controlDevice(a) \in W, NEW given
  PROVE  Commands(given) \in Good(R, W)
<1> DEFINE C == buildControlCommands(given)
<1>1. C \in Seq(ControlAttrs)
  <2> DEFINE push(attr) == IF attr \in given THEN <<attr>> ELSE << >>
  <2>1. \A attr \in ControlAttrs : push(attr) \in Seq(ControlAttrs) OBVIOUS
  <2>2. /\ push("power") \in Seq(ControlAttrs) /\ push("mode") \in Seq(ControlAttrs)
        /\ push("temperature") \in Seq(ControlAttrs) /\ push("brightness") \in Seq(ControlAttrs)
        /\ push("kelvin") \in Seq(ControlAttrs) /\ push("color") \in Seq(ControlAttrs)
    BY <2>1 DEF ControlAttrs
  <2>3. C = push("power") \o push("mode") \o push("temperature")
              \o push("brightness") \o push("kelvin") \o push("color")
    BY DEF buildControlCommands
  <2> HIDE DEF push, C
  <2> QED BY <2>2, <2>3, CatIs
<1> HIDE DEF C
<1>2. /\ DOMAIN C = 1 .. Len(C) /\ Len(C) \in Nat
      /\ \A i \in 1 .. Len(C) : C[i] \in ControlAttrs BY <1>1
<1>3. Commands(given) = [i \in 1 .. Len(C) |-> {Must(controlDevice(C[i]))}]
  BY <1>2 DEF Commands, C
<1>4. \A i \in 1 .. Len(C) : {Must(controlDevice(C[i]))} \in Stages(R, W)
  BY <1>2 DEF Stages
<1>5. Commands(given) \in Seq(Stages(R, W)) /\ DOMAIN Commands(given) = 1 .. Len(C)
  BY <1>2, <1>3, <1>4
<1>6. ASSUME NEW L \in Lists, NEW k \in 1 .. Len(C) PROVE ~Asks(Commands(given)[k], L)
  <2>1. Commands(given)[k] = {Must(controlDevice(C[k]))} BY <1>3
  <2>2. controlDevice(C[k]) # L BY <1>2, ReadsAndWrites
  <2> QED BY <2>1, <2>2 DEF Asks, Must, May
<1> QED BY <1>5, <1>6 DEF Good, Owing

(* The helpers of the handlers.                                            *)
LEMMA HelpersAre ==
  ASSUME NEW W \in SUBSET Writes, NEW given
  PROVE  /\ getLocationRefByUuid \in Good(Reads, W) /\ getGroupRefByUuid \in Good(Reads, W)
         /\ resolveLocationUuidFromParams(given) \in Good(Reads, W)
         /\ resolveGroupUuidFromParams(given) \in Good(Reads, W)
         /\ resolveDeviceUuidFromParams(given) \in Good(Reads, W)
         /\ Refused \in Good(Reads, W)
         /\ DeviceDetails(given) \in Good(Reads, W)
<1>1. listDevices \in Lists /\ listLocations \in Lists /\ listGroups \in Lists BY DEF Lists
<1>2. ASSUME NEW L \in Lists PROVE Then(Must(L)) \o Then(Store(L)) \in Good(Reads, W)
  <2>1. Then(Must(L)) \in Owing(Reads, W, {L})
    <3>1. {Must(L)} \in Stages(Reads, W) BY ReadsAndWrites DEF Stages, Asking
    <3>2. \A K \in Lists \ {L} : ~Asks({Must(L)}, K) BY DEF Asks, Must, May
    <3> QED BY <3>1, <3>2, OwingStage DEF Then
  <2>2. Then(Must(L)) \o Then(Store(L)) \in Owing(Reads, W, {L} \ {L}) BY <2>1, OwingStore
  <2>3. {L} \ {L} = {} OBVIOUS
  <2> QED BY <2>2, <2>3 DEF Good
<1>3. getLocationRefByUuid \in Good(Reads, W) /\ getGroupRefByUuid \in Good(Reads, W)
  BY <1>1, <1>2 DEF getLocationRefByUuid, getGroupRefByUuid, StoreLocations, StoreGroups
<1>4. \A L \in Lists : Then(Resolve(L)) \in Good(Reads, W) BY GoodSteps
<1>5. /\ resolveLocationUuidFromParams(given) \in Good(Reads, W)
      /\ resolveGroupUuidFromParams(given) \in Good(Reads, W)
  BY <1>1, <1>4, GoodEmpty
     DEF resolveLocationUuidFromParams, resolveGroupUuidFromParams, ThenIf, ResolveLocation,
         ResolveGroup
<1>6. Refused \in Good(Reads, W)
  <2>1. {} \in Stages(Reads, W) BY DEF Stages
  <2>2. <<{}>> \in Good(Reads, W) BY <2>1, GoodStage DEF Asks
  <2> QED BY <2>2 DEF Refused
<1>7. resolveDeviceUuidFromParams(given) \in Good(Reads, W)
  BY <1>1, <1>4, <1>6, GoodEmpty DEF resolveDeviceUuidFromParams, ResolveDevice
<1>8. DeviceDetails(given) \in Good(Reads, W)
  <2> DEFINE labels == Only("located" \in given, May(getLocation))
                         \cup Only("grouped" \in given, May(getGroup)) \cup {May(getDeviceState)}
  <2>1. getDevice \in Reads \ Lists /\ {getLocation, getGroup, getDeviceState} \subseteq Reads \ Lists
    BY OthersAre DEF Others
  <2>2. labels \subseteq {May(getLocation), May(getGroup), May(getDeviceState)}
    BY DEF Only
  <2>3. Together(labels) = <<labels>> BY DEF Together
  <2> HIDE DEF labels
  <2>4. labels \in Stages(Reads, W) BY <2>1, <2>2 DEF Stages, Asking
  <2>5. \A L \in Lists : ~Asks(labels, L) BY <2>1, <2>2 DEF Asks, Must, May
  <2>6. Together(labels) \in Good(Reads, W) BY <2>3, <2>4, <2>5, GoodStage
  <2>7. Then(Must(getDevice)) \in Good(Reads, W) BY <2>1, GoodSteps
  <2>8. DeviceDetails(given)
          = Then(Must(getDevice)) \o Together(labels) \o getLocationRefByUuid \o getGroupRefByUuid
    BY DEF DeviceDetails, labels
  <2> QED BY <1>3, <2>6, <2>7, <2>8, GoodCat
<1> QED BY <1>3, <1>5, <1>6, <1>7, <1>8

(* The handlers that read.                                                 *)
LEMMA ReadersAre ==
  ASSUME NEW W \in SUBSET Writes, NEW given
  PROVE  /\ executeFetchUser(given) \in Good(Reads, W)
         /\ executeSearch(given) \in Good(Reads, W)
         /\ executeFetch(given) \in Good(Reads, W)
         /\ executeListDevices(given) \in Good(Reads, W)
         /\ executeListLocations(given) \in Good(Reads, W)
         /\ executeListGroups(given) \in Good(Reads, W)
         /\ executeGetDevice(given) \in Good(Reads, W)
         /\ executeGetDeviceState(given) \in Good(Reads, W)
         /\ executeGetLocationState(given) \in Good(Reads, W)
         /\ executeGetDeviceStateByMac(given) \in Good(Reads, W)
         /\ executeWidgetGetDevice(given) \in Good(Reads, W)
         /\ executeWidgetControlDevice(given) \in Good(Reads, W)
         /\ executeWidgetListDevices(given) \in Good(Reads, W)
         /\ executeListSmarts(given) \in Good(Reads, W)
         /\ executeGetSmart(given) \in Good(Reads, W)
         /\ executeListSmartCmds(given) \in Good(Reads, W)
         /\ executeListScheduledJobs(given) \in Good(Reads, W)
<1>1. listDevices \in Lists /\ listLocations \in Lists /\ listGroups \in Lists BY DEF Lists
<1>2. /\ Then(ResolveDevice) \in Good(Reads, W) /\ Then(ResolveLocation) \in Good(Reads, W)
      /\ Then(ResolveGroup) \in Good(Reads, W)
  BY <1>1, GoodSteps DEF ResolveDevice, ResolveLocation, ResolveGroup
<1>3. \A r \in Others : Then(Must(r)) \in Good(Reads, W)
  BY OthersAre, GoodSteps
<1>4. /\ Then(Must(fetchUser)) \in Good(Reads, W) /\ Then(Must(getDevice)) \in Good(Reads, W)
      /\ Then(Must(getLocation)) \in Good(Reads, W) /\ Then(Must(getGroup)) \in Good(Reads, W)
      /\ Then(Must(getDeviceState)) \in Good(Reads, W)
      /\ Then(Must(getLocationState)) \in Good(Reads, W)
      /\ Then(Must(getDeviceStateByMac)) \in Good(Reads, W)
      /\ Then(Must(listSmarts)) \in Good(Reads, W) /\ Then(Must(getSmart)) \in Good(Reads, W)
      /\ Then(Must(listSmartCmds)) \in Good(Reads, W) /\ Then(Must(listJobs)) \in Good(Reads, W)
  BY <1>3 DEF Others
<1>5. /\ executeFetchUser(given) \in Good(Reads, W) /\ executeListSmarts(given) \in Good(Reads, W)
      /\ executeGetSmart(given) \in Good(Reads, W) /\ executeListSmartCmds(given) \in Good(Reads, W)
      /\ executeListScheduledJobs(given) \in Good(Reads, W)
  BY <1>4 DEF executeFetchUser, executeListSmarts, executeGetSmart, executeListSmartCmds,
              executeListScheduledJobs
<1>6. /\ executeFetch(given) \in Good(Reads, W)
      /\ executeGetDeviceState(given) \in Good(Reads, W)
      /\ executeGetLocationState(given) \in Good(Reads, W)
      /\ executeGetDeviceStateByMac(given) \in Good(Reads, W)
  BY <1>2, <1>4, GoodCat, HelpersAre
     DEF executeFetch, executeGetDeviceState, executeGetLocationState, executeGetDeviceStateByMac
<1>7. /\ executeListLocations(given) \in Good(Reads, W)
      /\ executeListGroups(given) \in Good(Reads, W)
      /\ executeGetDevice(given) \in Good(Reads, W)
      /\ executeWidgetGetDevice(given) \in Good(Reads, W)
      /\ executeWidgetControlDevice(given) \in Good(Reads, W)
  BY <1>2, GoodCat, HelpersAre
     DEF executeListLocations, executeListGroups, executeGetDevice, executeWidgetGetDevice,
         executeWidgetControlDevice
<1>8. executeListDevices(given) \in Good(Reads, W)
  <2> DEFINE a == getLocationRefByUuid
             b == getGroupRefByUuid
             c == resolveLocationUuidFromParams(given)
             d == resolveGroupUuidFromParams(given)
             h == Then(Must(listDevices))
             O == {listDevices}
  <2>1. executeListDevices(given) = (h \o a \o b \o c \o d) \o Then(Store(listDevices))
    BY DEF executeListDevices, StoreDevices
  <2>2. h \in Owing(Reads, W, O)
    <3>1. {Must(listDevices)} \in Stages(Reads, W) BY <1>1, ReadsAndWrites DEF Stages, Asking
    <3>2. \A K \in Lists \ {listDevices} : ~Asks({Must(listDevices)}, K) BY DEF Asks, Must, May
    <3> QED BY <3>1, <3>2, OwingStage DEF Then
  <2>3. /\ a \in Owing(Reads, W, O) /\ b \in Owing(Reads, W, O) /\ c \in Owing(Reads, W, O)
        /\ d \in Owing(Reads, W, O)
    BY HelpersAre, OwingMore
  <2>4. h \o a \o b \o c \o d \in Owing(Reads, W, O)
    <3> HIDE DEF a, b, c, d, h, O
    <3> QED BY <2>2, <2>3, OwingCat
  <2>5. executeListDevices(given) \in Owing(Reads, W, O \ {listDevices})
    <3> HIDE DEF a, b, c, d, h, O
    <3> QED BY <1>1, <2>1, <2>4, OwingStore
  <2> QED BY <2>5 DEF Good
<1>9. executeWidgetListDevices(given) \in Good(Reads, W)
  <2> DEFINE labels == Only("locationRef" \in given, May(getLocation))
                         \cup Only("groupRef" \in given, May(getGroup))
  <2>1. {getLocation, getGroup} \subseteq Reads \ Lists BY OthersAre DEF Others
  <2>2. labels \subseteq {May(getLocation), May(getGroup)} BY DEF Only
  <2>3. executeWidgetListDevices(given) = executeListDevices(given) \o Together(labels)
    BY DEF executeWidgetListDevices
  <2> HIDE DEF labels
  <2>4. labels \in Stages(Reads, W) BY <2>1, <2>2 DEF Stages, Asking
  <2>5. \A L \in Lists : ~Asks(labels, L) BY <2>1, <2>2 DEF Asks, Must, May
  <2>6. Together(labels) \in Good(Reads, W) BY <2>4, <2>5, GoodStage, GoodEmpty DEF Together
  <2> QED BY <1>8, <2>3, <2>6, GoodCat
<1>10. executeSearch(given) \in Good(Reads, W)
  <2> DEFINE all == {Must(listDevices), Must(listLocations), Must(listGroups)}
             O == {listDevices, listLocations, listGroups}
  <2>1. executeSearch(given)
          = <<all>> \o Then(Store(listDevices)) \o Then(Store(listLocations))
              \o Then(Store(listGroups))
    BY DEF executeSearch, Together, StoreDevices, StoreLocations, StoreGroups
  <2>2. all \in Stages(Reads, W) BY <1>1, ReadsAndWrites DEF Stages, Asking
  <2>3. <<all>> \in Owing(Reads, W, O) BY <2>2, OwingStage DEF Lists
  <2> HIDE DEF all
  <2>4. <<all>> \o Then(Store(listDevices)) \in Owing(Reads, W, O \ {listDevices})
    BY <1>1, <2>3, OwingStore
  <2>5. <<all>> \o Then(Store(listDevices)) \o Then(Store(listLocations))
          \in Owing(Reads, W, (O \ {listDevices}) \ {listLocations})
    BY <1>1, <2>4, OwingStore
  <2>6. executeSearch(given)
          \in Owing(Reads, W, ((O \ {listDevices}) \ {listLocations}) \ {listGroups})
    BY <1>1, <2>1, <2>5, OwingStore
  <2>7. ((O \ {listDevices}) \ {listLocations}) \ {listGroups} = {} OBVIOUS
  <2> QED BY <2>6, <2>7 DEF Good
<1> QED BY <1>5, <1>6, <1>7, <1>8, <1>9, <1>10

(* The handlers that change something.                                     *)
LEMMA ChangersAre ==
  ASSUME NEW given
  PROVE  /\ executeUpdateDevice(given) \in Good(Reads, {updateDevice})
         /\ executeDeleteDevice(given) \in Good(Reads, Writes)
         /\ executeControlDeviceSimple(given) \in Good(Reads, Writes)
         /\ executeControlDevicesBulk(given) \in Good(Reads \ Lists, Writes)
         /\ executeActivateSmart(given) \in Good(Reads, Writes)
         /\ executeCancelScheduledJob(given) \in Good(Reads, Writes)
<1>1. listDevices \in Lists /\ listLocations \in Lists /\ listGroups \in Lists BY DEF Lists
<1>2. /\ updateDevice \in Writes /\ deleteDevice \in Writes /\ activateSmart \in Writes
      /\ cancelJob \in Writes /\ \A a \in ControlAttrs : controlDevice(a) \in Writes
  BY DEF Writes
<1>3. getDevice \in Reads \ Lists BY OthersAre DEF Others
<1>4. executeUpdateDevice(given) \in Good(Reads, {updateDevice})
  <2> DEFINE W == {updateDevice}
             a == ThenIf("locationRef" \in given, ResolveLocation)
             b == ThenIf("groupRef" \in given, ResolveGroup)
  <2>1. W \in SUBSET Writes BY <1>2
  <2>2. /\ Then(ResolveLocation) \in Good(Reads, W) /\ Then(ResolveGroup) \in Good(Reads, W)
        /\ Then(ResolveDevice) \in Good(Reads, W)
    <3> HIDE DEF W
    <3> QED BY <1>1, <2>1, GoodSteps DEF ResolveDevice, ResolveLocation, ResolveGroup
  <2>3. Then(Must(updateDevice)) \in Good(Reads, W) BY <2>1, GoodSteps
  <2>4. a \in Good(Reads, W) /\ b \in Good(Reads, W) BY <2>2, GoodEmpty DEF ThenIf
  <2>5. executeUpdateDevice(given) = a \o b \o Then(ResolveDevice) \o Then(Must(updateDevice))
    BY DEF executeUpdateDevice
  <2>6. a \o b \o Then(ResolveDevice) \o Then(Must(updateDevice)) \in Good(Reads, W)
    <3> HIDE DEF a, b, W
    <3> QED BY <2>2, <2>3, <2>4, GoodCat
  <2> QED BY <2>5, <2>6
<1>5. ASSUME NEW R, getDevice \in R
      PROVE  /\ Then(ResolveDevice) \in Good(R, Writes)
             /\ Then(Must(getDevice)) \in Good(R, Writes)
             /\ \A w \in Writes : Then(Must(w)) \in Good(R, Writes)
             /\ Commands(given) \in Good(R, Writes)
  BY <1>1, <1>2, <1>3, <1>5, GoodSteps, CommandsAre DEF ResolveDevice
<1>6. Refused \in Good(Reads, Writes) /\ Refused \in Good(Reads \ Lists, Writes)
  <2>1. {} \in Stages(Reads, Writes) /\ {} \in Stages(Reads \ Lists, Writes) BY DEF Stages
  <2> QED BY <2>1, GoodStage DEF Asks, Refused
<1>7. /\ executeDeleteDevice(given) \in Good(Reads, Writes)
      /\ executeActivateSmart(given) \in Good(Reads, Writes)
      /\ executeCancelScheduledJob(given) \in Good(Reads, Writes)
  BY <1>2, <1>3, <1>5, GoodCat
     DEF executeDeleteDevice, executeActivateSmart, executeCancelScheduledJob
<1>8. executeControlDeviceSimple(given) \in Good(Reads, Writes)
  BY <1>3, <1>5, <1>6, GoodCat DEF executeControlDeviceSimple
<1>9. executeControlDevicesBulk(given) \in Good(Reads \ Lists, Writes)
  <2> DEFINE R == Reads \ Lists
  <2>1. /\ Then(ResolveDevice) \in Good(R, Writes) /\ Then(Must(getDevice)) \in Good(R, Writes)
        /\ Commands(given) \in Good(R, Writes)
    <3>1. getDevice \in R BY <1>3
    <3> HIDE DEF R
    <3> QED BY <1>5, <3>1
  <2>2. Refused \in Good(R, Writes) BY <1>6
  <2> HIDE DEF R
  <2>3. executeControlDevicesBulk(given) \in Good(R, Writes)
    BY <2>1, <2>2, GoodCat DEF executeControlDevicesBulk
  <2> QED BY <2>3 DEF R
<1> QED BY <1>4, <1>7, <1>8, <1>9

Readers ==
  {"fetchUser", "search", "fetch", "list_devices", "list_locations", "list_groups", "get_device",
   "get_device_state", "get_location_state", "get_device_state_by_mac", "widget_list_devices",
   "widget_get_device", "widget_control_device", "interactive_device", "list_smarts", "get_smart",
   "list_smart_cmds", "list_scheduled_jobs"}
Changers ==
  {"delete_device", "control_device_simple", "control_devices_bulk", "activate_smart",
   "cancel_scheduled_job"}

(* The registry: which tools read, which keep, and which do neither.       *)
LEMMA ToolsAre ==
  /\ Tools = Readers \cup {"update_device"} \cup Changers
  /\ \A t \in Readers : Hints(t) = {"readOnly"}
  /\ Hints("update_device") = {"keeps"}
  /\ \A t \in Changers : "readOnly" \notin Hints(t) /\ "keeps" \notin Hints(t)
<1>1. Tools = Readers \cup {"update_device"} \cup Changers
  BY DEF Tools, ALL_TOOL_DEFINITIONS, Readers, Changers
<1>2. \A t \in Readers : Hints(t) = {"readOnly"}
  BY DEF Readers, Hints, ALL_TOOL_DEFINITIONS, ReadOnly, Tool, FETCH_USER_TOOL, SEARCH_TOOL,
    FETCH_TOOL, LIST_DEVICES_TOOL, LIST_LOCATIONS_TOOL, LIST_GROUPS_TOOL, GET_DEVICE_TOOL,
    GET_DEVICE_STATE_TOOL, GET_LOCATION_STATE_TOOL, GET_DEVICE_STATE_BY_MAC_TOOL,
    WIDGET_LIST_DEVICES_TOOL, WIDGET_GET_DEVICE_TOOL, WIDGET_CONTROL_DEVICE_TOOL,
    INTERACTIVE_DEVICE_TOOL, LIST_SMARTS_TOOL, GET_SMART_TOOL, LIST_SMART_CMDS_TOOL,
    LIST_SCHEDULED_JOBS_TOOL
<1>3. Hints("update_device") = {"keeps"}
  BY DEF Hints, ALL_TOOL_DEFINITIONS, Tool, UPDATE_DEVICE_TOOL
<1>4. \A t \in Changers : "readOnly" \notin Hints(t) /\ "keeps" \notin Hints(t)
  BY DEF Changers, Hints, ALL_TOOL_DEFINITIONS, Tool, DELETE_DEVICE_TOOL,
    CONTROL_DEVICE_SIMPLE_TOOL, CONTROL_DEVICES_BULK_TOOL, ACTIVATE_SMART_TOOL,
    CANCEL_SCHEDULED_JOB_TOOL
<1> QED BY <1>1, <1>2, <1>3, <1>4

(* What every tool may ask for, whatever it is given.                      *)
LEMMA PlansAre ==
  ASSUME NEW t \in Tools, NEW given
  PROVE  toolHandlers(given)[t] \in Good(ReadsOf(t), WritesOf(t))
<1>1. {} \in SUBSET Writes OBVIOUS
<1>2. CASE t \in Readers
  <2>1. ReadsOf(t) = Reads /\ WritesOf(t) = {} BY <1>2, ToolsAre DEF ReadsOf, WritesOf, Readers
  <2>2. toolHandlers(given)[t] \in Good(Reads, {})
    BY <1>1, <1>2, ReadersAre DEF Readers, toolHandlers
  <2> QED BY <2>1, <2>2
<1>3. CASE t = "update_device"
  <2>1. ReadsOf(t) = Reads /\ WritesOf(t) = {updateDevice} BY <1>3, ToolsAre DEF ReadsOf, WritesOf
  <2>2. toolHandlers(given)[t] = executeUpdateDevice(given) BY <1>3 DEF toolHandlers
  <2> QED BY <2>1, <2>2, ChangersAre
<1>4. CASE t \in Changers /\ t # "control_devices_bulk"
  <2>1. ReadsOf(t) = Reads /\ WritesOf(t) = Writes BY <1>4, ToolsAre DEF ReadsOf, WritesOf
  <2>2. toolHandlers(given)[t] \in Good(Reads, Writes)
    BY <1>4, ChangersAre DEF Changers, toolHandlers
  <2> QED BY <2>1, <2>2
<1>5. CASE t = "control_devices_bulk"
  <2>1. ReadsOf(t) = Reads \ Lists /\ WritesOf(t) = Writes
    BY <1>5, ToolsAre DEF ReadsOf, WritesOf, Changers
  <2>2. toolHandlers(given)[t] = executeControlDevicesBulk(given) BY <1>5 DEF toolHandlers
  <2> QED BY <2>1, <2>2, ChangersAre
<1> QED BY <1>2, <1>3, <1>4, <1>5, ToolsAre

(* No tool asks for anything else.                                         *)
LEMMA WritesOfIs ==
  ASSUME NEW t \in Tools
  PROVE  WritesOf(t) \in SUBSET Writes /\ ReadsOf(t) \in SUBSET Reads
<1>1. updateDevice \in Writes BY DEF Writes
<1> QED BY <1>1 DEF WritesOf, ReadsOf

(* A stage that changes something is one change.                           *)
LEMMA ChangingStageIs ==
  ASSUME NEW R \in SUBSET Reads, NEW W \in SUBSET Writes, NEW stage \in Stages(R, W)
  PROVE  (\E s \in stage : Changes(s.request)) <=> \E w \in W : stage = {Must(w)}
<1>1. ASSUME NEW s \in stage, Changes(s.request) PROVE \E w \in W : stage = {Must(w)}
  <2>1. s.request \in W /\ stage = {Must(s.request)} BY <1>1, StageIs
  <2> QED BY <2>1
<1>2. ASSUME NEW w \in W, stage = {Must(w)} PROVE \E s \in stage : Changes(s.request)
  BY <1>2, ReadsAndWrites DEF Must
<1> QED BY <1>1, <1>2

(* The n-th of the changing stages of a plan exists, and they are in order. *)
LEMMA ChangesAre ==
  ASSUME NEW R \in SUBSET Reads, NEW W \in SUBSET Writes, NEW plan \in Seq(Stages(R, W))
  PROVE  ChangesOf(plan) \in Seq(W) /\ Owes(plan, ChangesOf(plan), 0)
<1> DEFINE C == ChangingStages(plan)
           n == Cardinality(C)
           rank == [k \in C |-> Cardinality({m \in C : m <= k})]
           Nth(j) == CHOOSE k \in C : j = Cardinality({m \in C : m <= k})
           at == [j \in 1 .. n |-> Nth(j)]
<1>1. Len(plan) \in Nat /\ DOMAIN plan = 1 .. Len(plan) OBVIOUS
<1>2. C \subseteq 1 .. Len(plan) /\ C \in SUBSET Nat BY <1>1 DEF ChangingStages
<1>3. IsFiniteSet(C) /\ n \in Nat
  <2>1. IsFiniteSet(1 .. Len(plan)) BY <1>1, FS_Interval
  <2> HIDE DEF C
  <2> QED BY <1>2, <2>1, FS_Subset, FS_CardinalityType
<1>17. \A k \in C : k \in Nat BY <1>2
<1> HIDE DEF C
<1>4. \A k \in C : rank[k] \in 1 .. n
  <2> SUFFICES ASSUME NEW k \in C PROVE rank[k] \in 1 .. n
    OBVIOUS
  <2> DEFINE U == {m \in C : m <= k}
  <2>1. U \in SUBSET C /\ k \in U BY <1>2
  <2>2. rank[k] = Cardinality(U) OBVIOUS
  <2> HIDE DEF U, rank
  <2>3. IsFiniteSet(U) /\ Cardinality(U) <= n /\ Cardinality(U) \in Nat
    BY <1>3, <2>1, FS_Subset, FS_CardinalityType
  <2>4. Cardinality(U) # 0 BY <2>1, <2>3, FS_EmptySet
  <2> QED BY <1>3, <2>2, <2>3, <2>4
<1>5. \A k, l \in C : k < l => rank[k] < rank[l]
  <2> SUFFICES ASSUME NEW k \in C, NEW l \in C, k < l PROVE rank[k] < rank[l]
    OBVIOUS
  <2> DEFINE U == {m \in C : m <= k}
             V == {m \in C : m <= l}
  <2>1. U \in SUBSET V /\ l \in V /\ l \notin U BY <1>17
  <2>2. rank[k] = Cardinality(U) /\ rank[l] = Cardinality(V) OBVIOUS
  <2>3. V \in SUBSET C OBVIOUS
  <2>4. rank[k] \in Nat /\ rank[l] \in Nat BY <1>4
  <2> HIDE DEF U, V, rank
  <2>5. IsFiniteSet(V) BY <1>3, <2>3, FS_Subset
  <2>6. Cardinality(U) <= Cardinality(V) /\ Cardinality(U) # Cardinality(V)
    BY <2>1, <2>5, FS_Subset
  <2> QED BY <2>2, <2>4, <2>6
<1>6. \A j \in 1 .. n : \E k \in C : rank[k] = j
  <2>1. rank \in Injection(C, 1 .. n)
    <3>1. rank \in [C -> 1 .. n] BY <1>4
    <3>2. \A k, l \in C : rank[k] = rank[l] => k = l
      <4> HIDE DEF rank
      <4> QED BY <1>2, <1>4, <1>5
    <3> HIDE DEF rank
    <3> QED BY <3>1, <3>2 DEF Injection, IsInjective
  <2>2. IsFiniteSet(1 .. n) /\ Cardinality(1 .. n) = n BY <1>3, FS_Interval
  <2>3. rank \in Surjection(C, 1 .. n)
    <3> HIDE DEF rank
    <3> QED BY <2>1, <2>2, FS_Injection
  <2> HIDE DEF rank
  <2> QED BY <2>3 DEF Surjection
<1>7. \A j \in 1 .. n : at[j] \in C /\ rank[at[j]] = j
  <2> SUFFICES ASSUME NEW j \in 1 .. n PROVE at[j] \in C /\ rank[at[j]] = j
    OBVIOUS
  <2>1. \E k \in C : j = Cardinality({m \in C : m <= k}) BY <1>6
  <2>2. Nth(j) \in C /\ j = Cardinality({m \in C : m <= Nth(j)}) BY <2>1
  <2> QED BY <2>2
<1>8. \A k \in C : at[rank[k]] = k
  <2> HIDE DEF rank, at
  <2> SUFFICES ASSUME NEW k \in C PROVE at[rank[k]] = k
    OBVIOUS
  <2>1. rank[k] \in 1 .. n /\ at[rank[k]] \in C /\ rank[at[rank[k]]] = rank[k] BY <1>4, <1>7
  <2>2. ~(k < at[rank[k]]) /\ ~(at[rank[k]] < k) BY <1>4, <1>5, <2>1
  <2>3. k \in Nat /\ at[rank[k]] \in Nat BY <1>17, <2>1
  <2> QED BY <2>2, <2>3
<1>9. \A j, k \in 1 .. n : j < k => at[j] < at[k]
  <2> HIDE DEF rank, at
  <2> SUFFICES ASSUME NEW j \in 1 .. n, NEW k \in 1 .. n, j < k PROVE at[j] < at[k]
    OBVIOUS
  <2>1. at[j] \in C /\ rank[at[j]] = j /\ at[k] \in C /\ rank[at[k]] = k BY <1>7
  <2>2. at[j] # at[k] /\ ~(at[k] < at[j]) BY <1>3, <1>5, <2>1
  <2>3. at[j] \in Nat /\ at[k] \in Nat BY <1>17, <2>1
  <2> QED BY <2>2, <2>3
<1>10. \A k \in C : \E w \in W : plan[k] = {Must(w)}
  <2> SUFFICES ASSUME NEW k \in C PROVE \E w \in W : plan[k] = {Must(w)}
    OBVIOUS
  <2>1. \E s \in plan[k] : Changes(s.request) BY DEF C, ChangingStages
  <2>2. plan[k] \in Stages(R, W) BY <1>1, <1>2
  <2> QED BY <2>1, <2>2, ChangingStageIs
<1>11. ChangesOf(plan) = [j \in 1 .. n |-> (CHOOSE s \in plan[Nth(j)] : TRUE).request]
  BY DEF ChangesOf, C
<1>12. \A j \in 1 .. n : ChangesOf(plan)[j] \in W /\ plan[at[j]] = {Must(ChangesOf(plan)[j])}
  <2> SUFFICES ASSUME NEW j \in 1 .. n
               PROVE  ChangesOf(plan)[j] \in W /\ plan[at[j]] = {Must(ChangesOf(plan)[j])}
    OBVIOUS
  <2>1. at[j] \in C BY <1>7
  <2>2. PICK w \in W : plan[at[j]] = {Must(w)} BY <1>10, <2>1
  <2>3. ChangesOf(plan)[j] = (CHOOSE s \in plan[at[j]] : TRUE).request BY <1>11
  <2>4. (CHOOSE s \in {Must(w)} : TRUE) = Must(w) OBVIOUS
  <2>5. ChangesOf(plan)[j] = w BY <2>2, <2>3, <2>4 DEF Must
  <2> QED BY <2>2, <2>5
<1>13. ChangesOf(plan) \in Seq(W) /\ Len(ChangesOf(plan)) = n
  <2>1. ChangesOf(plan) = [j \in 1 .. n |-> ChangesOf(plan)[j]] BY <1>11
  <2> HIDE DEF at, n
  <2> QED BY <1>3, <1>12, <2>1
<1>14. at \in [1 .. n -> DOMAIN plan] BY <1>1, <1>2, <1>7
<1>15. \A k \in C : \E j \in 1 .. n : at[j] = k
  <2> HIDE DEF rank, at
  <2> QED BY <1>4, <1>8
<1> HIDE DEF rank, at, n
<1>16. 0 + 1 .. Len(ChangesOf(plan)) = 1 .. n BY <1>13
<1> QED BY <1>9, <1>12, <1>13, <1>14, <1>15, <1>16 DEF Owes, C
-----------------------------------------------------------------------------
(***************************************************************************)
(* What a step leaves of a plan.                                           *)
(***************************************************************************)
(* What is left of a plan when step s of its first stage is done with.     *)
Rest(todo, s) ==
  LET stage == Head(todo) \ {s}
  IN  IF stage = {} THEN Tail(todo) ELSE <<stage>> \o Tail(todo)

(* The stages left are those that were there, d places on.                 *)
Shifted(todo, s, rest, d) ==
  /\ d = 1 => todo[1] = {s}
  /\ d = 0 => rest[1] = todo[1] \ {s} /\ todo[1] # {s}
  /\ Len(todo) \in Nat /\ Len(rest) \in Nat /\ Len(todo) = Len(rest) + d
  /\ DOMAIN todo = 1 .. Len(todo) /\ DOMAIN rest = 1 .. Len(rest)
  /\ \A k \in 1 .. Len(rest) : k + d # 1 => rest[k] = todo[k + d]
  /\ s \in todo[1] /\ 1 \in DOMAIN todo

(* What is left is a plan, the same stages moved up or with one step less. *)
LEMMA RestIs ==
  ASSUME NEW R, NEW W, NEW todo \in Seq(Stages(R, W)), todo # << >>, NEW s \in Head(todo)
  PROVE  /\ Rest(todo, s) \in Seq(Stages(R, W))
         /\ \E d \in {0, 1} : Shifted(todo, s, Rest(todo, s), d)
<1>1. /\ Len(todo) \in Nat /\ Len(todo) >= 1 /\ DOMAIN todo = 1 .. Len(todo) /\ Head(todo) = todo[1]
      /\ Tail(todo) \in Seq(Stages(R, W)) /\ Len(Tail(todo)) = Len(todo) - 1
      /\ \A k \in 1 .. Len(todo) - 1 : Tail(todo)[k] = todo[k + 1]
      /\ todo[1] \in Stages(R, W)
  OBVIOUS
<1>2. CASE Head(todo) \ {s} = {}
  <2>1. Rest(todo, s) = Tail(todo) BY <1>2 DEF Rest
  <2>2. todo[1] = {s} BY <1>1, <1>2
  <2>3. Shifted(todo, s, Tail(todo), 1) BY <1>1, <2>2 DEF Shifted
  <2> QED BY <1>1, <2>1, <2>3
<1>3. CASE Head(todo) \ {s} # {}
  <2> DEFINE stage == todo[1] \ {s}
             tail == Tail(todo)
             x == <<stage>>
             rest == x \o tail
  <2>1. Rest(todo, s) = rest BY <1>1, <1>3 DEF Rest
  <2>2. stage \in Stages(R, W)
    <3>1. ASSUME NEW w, todo[1] = {Must(w)} PROVE FALSE BY <1>1, <1>3, <3>1
    <3>2. todo[1] \in SUBSET Asking(R) \/ \E w \in W : todo[1] = {Must(w)} BY <1>1 DEF Stages
    <3> QED BY <3>1, <3>2 DEF Stages
  <2> HIDE DEF stage
  <2>3. x \in Seq(Stages(R, W)) /\ Len(x) = 1 /\ x[1] = stage BY <2>2
  <2>4. x \in Seq(Stages(R, W)) BY <2>3
  <2>5. Len(tail) = Len(todo) - 1 BY <1>1
  <2>13. tail \in Seq(Stages(R, W)) BY <1>1
  <2>9. \A k \in 1 .. Len(tail) : tail[k] = todo[k + 1] BY <1>1
  <2> HIDE DEF x, tail
  <2>6. /\ x \o tail \in Seq(Stages(R, W)) /\ DOMAIN (x \o tail) = 1 .. Len(x) + Len(tail)
        /\ Len(x \o tail) = Len(x) + Len(tail) /\ Len(tail) \in Nat
        /\ \A k \in 1 .. Len(x) : (x \o tail)[k] = x[k]
        /\ \A k \in 1 .. Len(tail) : (x \o tail)[Len(x) + k] = tail[k]
    BY <2>4, <2>13, CatIs
  <2> HIDE DEF rest
  <2>14. rest = x \o tail BY DEF rest
  <2>7. /\ rest \in Seq(Stages(R, W)) /\ Len(rest) = Len(todo) /\ DOMAIN rest = 1 .. Len(todo)
        /\ rest[1] = stage /\ \A k \in 1 .. Len(tail) : rest[1 + k] = tail[k]
    <3>1. 1 + Len(tail) = Len(todo) /\ 1 \in 1 .. 1 BY <1>1, <2>5
    <3>2. /\ rest \in Seq(Stages(R, W)) /\ Len(rest) = 1 + Len(tail)
          /\ DOMAIN rest = 1 .. 1 + Len(tail) /\ rest[1] = x[1]
          /\ \A k \in 1 .. Len(tail) : rest[1 + k] = tail[k]
      BY <2>3, <2>6, <2>14
    <3> QED BY <2>3, <3>1, <3>2
  <2>8. \A k \in 1 .. Len(rest) : k # 1 => rest[k] = todo[k]
    <3> SUFFICES ASSUME NEW k \in 1 .. Len(rest), k # 1 PROVE rest[k] = todo[k]
      OBVIOUS
    <3>1. k - 1 \in 1 .. Len(tail) /\ 1 + (k - 1) = k /\ (k - 1) + 1 = k BY <1>1, <2>5, <2>7
    <3> QED BY <2>7, <2>9, <3>1
  <2>10. rest[1] = todo[1] \ {s} /\ todo[1] # {s} BY <1>1, <1>3, <2>7 DEF stage
  <2>11. \A k \in 1 .. Len(rest) : k + 0 # 1 => rest[k] = todo[k + 0] BY <1>1, <2>7, <2>8
  <2>12. Shifted(todo, s, rest, 0) BY <1>1, <2>7, <2>10, <2>11 DEF Shifted
  <2> QED BY <2>1, <2>7, <2>12
<1> QED BY <1>2, <1>3

(* Inventories that are read are stored later on, still.                   *)
LEMMA RestStores ==
  ASSUME NEW todo, NEW s, NEW rest, NEW d \in {0, 1}, Shifted(todo, s, rest, d)
  PROVE  /\ Covered(todo) => Covered(rest)
         /\ \A L \in Lists : \A m \in DOMAIN todo :
              Store(L) \in todo[m] /\ (m > 1 \/ s # Store(L)) =>
                \E k \in DOMAIN rest : Store(L) \in rest[k]
<1>1. ASSUME NEW L \in Lists, NEW m \in DOMAIN todo, Store(L) \in todo[m], m > 1 \/ s # Store(L)
      PROVE  \E k \in DOMAIN rest : Store(L) \in rest[k]
  <2>1. CASE m > 1
    <3>1. m - d \in 1 .. Len(rest) /\ (m - d) + d # 1 /\ (m - d) + d = m BY <2>1 DEF Shifted
    <3>2. rest[m - d] = todo[m] BY <3>1 DEF Shifted
    <3> QED BY <1>1, <3>1, <3>2 DEF Shifted
  <2>2. CASE m = 1
    <3>1. s # Store(L) /\ Store(L) \in todo[1] BY <1>1, <2>2
    <3>2. d = 0 BY <3>1 DEF Shifted
    <3>3. Store(L) \in rest[1] /\ 1 \in DOMAIN rest BY <3>1, <3>2 DEF Shifted
    <3> QED BY <3>3
  <2>3. m \in Nat /\ m >= 1 BY DEF Shifted
  <2> QED BY <2>1, <2>2, <2>3
<1>2. ASSUME Covered(todo) PROVE Covered(rest)
  <2> SUFFICES ASSUME NEW L \in Lists, NEW k \in DOMAIN rest, Asks(rest[k], L)
               PROVE  \E m \in DOMAIN rest : k < m /\ Store(L) \in rest[m]
    BY DEF Covered
  <2>1. k + d \in DOMAIN todo /\ Asks(todo[k + d], L)
    <3>1. k + d \in DOMAIN todo /\ k \in 1 .. Len(rest) BY DEF Shifted
    <3>2. CASE k + d # 1 BY <3>1, <3>2 DEF Shifted
    <3>3. CASE k + d = 1
      <4>1. d = 0 /\ k = 1 BY <3>1, <3>3
      <4>2. rest[1] \subseteq todo[1] BY <4>1 DEF Shifted
      <4> QED BY <3>1, <4>1, <4>2 DEF Asks
    <3> QED BY <3>1, <3>2, <3>3
  <2>2. PICK m \in DOMAIN todo : k + d < m /\ Store(L) \in todo[m] BY <1>2, <2>1 DEF Covered
  <2>3. m - d \in 1 .. Len(rest) /\ (m - d) + d # 1 /\ (m - d) + d = m /\ k < m - d
    BY <2>2 DEF Shifted
  <2>4. rest[m - d] = todo[m] BY <2>3 DEF Shifted
  <2> QED BY <2>2, <2>3, <2>4 DEF Shifted
<1> QED BY <1>1, <1>2

(* A step that changes something is the next change owed.                  *)
LEMMA RestOwesNext ==
  ASSUME NEW R \in SUBSET Reads, NEW W \in SUBSET Writes, NEW todo \in Seq(Stages(R, W)),
         NEW s, NEW rest \in Seq(Stages(R, W)), NEW d \in {0, 1}, Shifted(todo, s, rest, d),
         NEW order \in Seq(W), NEW n \in 0 .. Len(order), Owes(todo, order, n), Changes(s.request)
  PROVE  n < Len(order) /\ order[n + 1] = s.request /\ Owes(rest, order, n + 1)
<1>1. PICK at \in [n + 1 .. Len(order) -> DOMAIN todo] :
        /\ \A j, k \in n + 1 .. Len(order) : j < k => at[j] < at[k]
        /\ \A j \in n + 1 .. Len(order) : todo[at[j]] = {Must(order[j])}
        /\ \A k \in ChangingStages(todo) : \E j \in n + 1 .. Len(order) : at[j] = k
  BY DEF Owes
<1>2. /\ Len(todo) \in Nat /\ Len(rest) \in Nat /\ Len(todo) = Len(rest) + d
      /\ DOMAIN todo = 1 .. Len(todo) /\ DOMAIN rest = 1 .. Len(rest)
      /\ \A k \in 1 .. Len(rest) : k + d # 1 => rest[k] = todo[k + d]
      /\ s \in todo[1] /\ 1 \in DOMAIN todo /\ todo[1] \in Stages(R, W)
      /\ Len(order) \in Nat /\ n \in Nat /\ n <= Len(order)
  BY DEF Shifted
<1>3. \A j \in n + 1 .. Len(order) : order[j] \in W /\ Changes(order[j])
  BY <1>2, ReadsAndWrites
<1>6. \A stage \in Stages(R, W) :
        (\E x \in stage : Changes(x.request)) => \E w \in W : stage = {Must(w)}
  BY ONLY R \in SUBSET Reads, W \in SUBSET Writes, ChangingStageIs
<1> QED
  <2>1. todo[1] = {s} /\ s = Must(s.request)
    <3>1. PICK w \in W : todo[1] = {Must(w)}
      <4>1. \E x \in todo[1] : Changes(x.request) BY <1>2
      <4>2. todo[1] \in Stages(R, W) BY <1>2
      <4> QED BY <1>6, <4>1, <4>2
    <3> QED BY <1>2, <3>1 DEF Must
  <2>2. d = 1 BY <2>1 DEF Shifted
  <2>3. 1 \in ChangingStages(todo) BY <1>2 DEF ChangingStages
  <2>4. PICK j \in n + 1 .. Len(order) : at[j] = 1 BY <1>1, <2>3
  <2>5. j = n + 1
    <3>1. n + 1 \in n + 1 .. Len(order) /\ at[n + 1] \in 1 .. Len(todo)
      <4>1. n + 1 \in n + 1 .. Len(order) BY <1>2, <2>4
      <4>2. at[n + 1] \in DOMAIN todo BY <1>1, <4>1
      <4> QED BY <1>2, <4>1, <4>2
    <3>2. ~(n + 1 < j) BY <1>1, <2>4, <3>1
    <3> QED BY <1>2, <2>4, <3>1, <3>2
  <2>6. n < Len(order) /\ n + 1 \in n + 1 .. Len(order) /\ at[n + 1] = 1 BY <1>2, <2>4, <2>5
  <2>7. order[n + 1] = s.request
    <3>1. {Must(order[n + 1])} = {s} BY <1>1, <2>1, <2>6
    <3>2. Must(order[n + 1]) = Must(s.request) BY <2>1, <3>1
    <3> QED BY <3>2 DEF Must
  <2> DEFINE on == [i \in (n + 1) + 1 .. Len(order) |-> at[i] - 1]
  <2>8. \A i \in (n + 1) + 1 .. Len(order) :
          i \in n + 1 .. Len(order) /\ at[i] \in 2 .. Len(todo)
    <3> SUFFICES ASSUME NEW i \in (n + 1) + 1 .. Len(order)
                 PROVE  i \in n + 1 .. Len(order) /\ at[i] \in 2 .. Len(todo)
      OBVIOUS
    <3>1. i \in n + 1 .. Len(order) /\ n + 1 < i BY <1>2
    <3>2. at[n + 1] < at[i] /\ at[i] \in 1 .. Len(todo) BY <1>1, <1>2, <2>6, <3>1
    <3> QED BY <1>2, <2>6, <3>1, <3>2
  <2>9. on \in [(n + 1) + 1 .. Len(order) -> DOMAIN rest] BY <1>2, <2>2, <2>8
  <2>10. \A i, k \in (n + 1) + 1 .. Len(order) : i < k => on[i] < on[k]
    BY <1>1, <1>2, <2>8
  <2>11. \A i \in (n + 1) + 1 .. Len(order) : rest[on[i]] = {Must(order[i])}
    <3> SUFFICES ASSUME NEW i \in (n + 1) + 1 .. Len(order) PROVE rest[on[i]] = {Must(order[i])}
      OBVIOUS
    <3>1. on[i] = at[i] - 1 /\ on[i] \in 1 .. Len(rest) /\ on[i] + 1 = at[i] /\ on[i] + 1 # 1
      BY <1>2, <2>2, <2>8
    <3>2. rest[on[i]] = todo[at[i]] BY <1>2, <2>2, <3>1
    <3> QED BY <1>1, <2>8, <3>2
  <2>12. \A k \in ChangingStages(rest) : \E i \in (n + 1) + 1 .. Len(order) : on[i] = k
    <3> SUFFICES ASSUME NEW k \in ChangingStages(rest)
                 PROVE  \E i \in (n + 1) + 1 .. Len(order) : on[i] = k
      OBVIOUS
    <3>1. k \in 1 .. Len(rest) /\ \E x \in rest[k] : Changes(x.request)
      BY <1>2 DEF ChangingStages
    <3>2. rest[k] = todo[k + 1] /\ k + 1 \in 1 .. Len(todo) BY <1>2, <2>2, <3>1
    <3>3. k + 1 \in ChangingStages(todo) BY <1>2, <3>1, <3>2 DEF ChangingStages
    <3>4. PICK i \in n + 1 .. Len(order) : at[i] = k + 1 BY <1>1, <3>3
    <3>5. i # n + 1 BY <2>6, <3>1, <3>4
    <3>6. i \in (n + 1) + 1 .. Len(order) BY <1>2, <3>4, <3>5
    <3> QED BY <3>1, <3>4, <3>6
  <2> HIDE DEF on
  <2>13. Owes(rest, order, n + 1) BY <2>9, <2>10, <2>11, <2>12 DEF Owes
  <2> QED BY <2>6, <2>7, <2>13

(* Any other leaves what is owed as it was.                                *)
LEMMA RestOwesStill ==
  ASSUME NEW R \in SUBSET Reads, NEW W \in SUBSET Writes, NEW todo \in Seq(Stages(R, W)),
         NEW s, NEW rest \in Seq(Stages(R, W)), NEW d \in {0, 1}, Shifted(todo, s, rest, d),
         NEW order \in Seq(W), NEW n \in 0 .. Len(order), Owes(todo, order, n), ~Changes(s.request)
  PROVE  Owes(rest, order, n)
<1>1. PICK at \in [n + 1 .. Len(order) -> DOMAIN todo] :
        /\ \A j, k \in n + 1 .. Len(order) : j < k => at[j] < at[k]
        /\ \A j \in n + 1 .. Len(order) : todo[at[j]] = {Must(order[j])}
        /\ \A k \in ChangingStages(todo) : \E j \in n + 1 .. Len(order) : at[j] = k
  BY DEF Owes
<1>2. /\ Len(todo) \in Nat /\ Len(rest) \in Nat /\ Len(todo) = Len(rest) + d
      /\ DOMAIN todo = 1 .. Len(todo) /\ DOMAIN rest = 1 .. Len(rest)
      /\ \A k \in 1 .. Len(rest) : k + d # 1 => rest[k] = todo[k + d]
      /\ s \in todo[1] /\ 1 \in DOMAIN todo /\ todo[1] \in Stages(R, W)
      /\ Len(order) \in Nat /\ n \in Nat /\ n <= Len(order)
  BY DEF Shifted
<1>3. \A j \in n + 1 .. Len(order) : order[j] \in W /\ Changes(order[j])
  BY <1>2, ReadsAndWrites
<1>6. \A stage \in Stages(R, W) :
        (\E x \in stage : Changes(x.request)) => \E w \in W : stage = {Must(w)}
  BY ONLY R \in SUBSET Reads, W \in SUBSET Writes, ChangingStageIs
<1> QED
  <2>1. ~\E x \in todo[1] : Changes(x.request)
    <3> SUFFICES ASSUME NEW x \in todo[1], Changes(x.request) PROVE FALSE
      OBVIOUS
    <3>1. PICK w \in W : todo[1] = {Must(w)}
      <4>1. \E y \in todo[1] : Changes(y.request) OBVIOUS
      <4>2. todo[1] \in Stages(R, W) BY <1>2
      <4> QED BY <1>6, <4>1, <4>2
    <3>2. s = x BY <1>2, <3>1
    <3> QED BY <3>2
  <2>2. \A j \in n + 1 .. Len(order) : at[j] \in 2 .. Len(todo)
    <3> SUFFICES ASSUME NEW j \in n + 1 .. Len(order) PROVE at[j] \in 2 .. Len(todo)
      OBVIOUS
    <3>1. at[j] \in 1 .. Len(todo) BY <1>1, <1>2
    <3>2. at[j] # 1
      <4> SUFFICES ASSUME at[j] = 1 PROVE FALSE
        OBVIOUS
      <4>1. Must(order[j]) \in todo[1] /\ Changes(order[j]) BY <1>1, <1>3
      <4> QED BY <2>1, <4>1 DEF Must
    <3> QED BY <1>2, <3>1, <3>2
  <2> DEFINE on == [j \in n + 1 .. Len(order) |-> at[j] - d]
  <2>3. on \in [n + 1 .. Len(order) -> DOMAIN rest] BY <1>2, <2>2
  <2>4. \A i, k \in n + 1 .. Len(order) : i < k => on[i] < on[k] BY <1>1, <1>2, <2>2
  <2>5. \A j \in n + 1 .. Len(order) : rest[on[j]] = {Must(order[j])}
    <3> SUFFICES ASSUME NEW j \in n + 1 .. Len(order) PROVE rest[on[j]] = {Must(order[j])}
      OBVIOUS
    <3>1. on[j] = at[j] - d /\ on[j] \in 1 .. Len(rest) /\ on[j] + d = at[j] /\ on[j] + d # 1
      BY <1>2, <2>2
    <3>2. rest[on[j]] = todo[at[j]] BY <1>2, <3>1
    <3> QED BY <1>1, <3>2
  <2>6. \A k \in ChangingStages(rest) : \E j \in n + 1 .. Len(order) : on[j] = k
    <3> SUFFICES ASSUME NEW k \in ChangingStages(rest)
                 PROVE  \E j \in n + 1 .. Len(order) : on[j] = k
      OBVIOUS
    <3>1. k \in 1 .. Len(rest) /\ \E x \in rest[k] : Changes(x.request)
      BY <1>2 DEF ChangingStages
    <3>2. k + d # 1
      <4> SUFFICES ASSUME k + d = 1 PROVE FALSE
        OBVIOUS
      <4>1. d = 0 /\ k = 1 BY <3>1
      <4>2. rest[1] = todo[1] \ {s} BY <4>1 DEF Shifted
      <4> QED BY <2>1, <3>1, <4>1, <4>2
    <3>3. rest[k] = todo[k + d] /\ k + d \in 1 .. Len(todo) BY <1>2, <3>1, <3>2
    <3>4. k + d \in ChangingStages(todo) BY <1>2, <3>1, <3>3 DEF ChangingStages
    <3>5. PICK j \in n + 1 .. Len(order) : at[j] = k + d BY <1>1, <3>4
    <3>6. on[j] = k BY <3>1, <3>5
    <3> QED BY <3>6
  <2> HIDE DEF on
  <2> QED BY <2>3, <2>4, <2>5, <2>6 DEF Owes
-----------------------------------------------------------------------------
(***************************************************************************)
(* The chunks of a bulk control.                                           *)
(***************************************************************************)
(* One run per device, and the outcomes collected so far.                  *)
Shape ==
  /\ Len(runs) \in Nat /\ runs = [i \in 1 .. Len(runs) |-> runs[i]]
  /\ \A i \in 1 .. Len(runs) :
       /\ runs[i].out \in Outcomes
       /\ runs[i] = [todo |-> runs[i].todo, out |-> runs[i].out]
  /\ results \in Seq(Over) /\ Len(results) <= Len(runs)
  /\ tool = NoTool => Len(runs) = 0

(* Reported, of this chunk, or waiting.                                    *)
Progress ==
  \A i \in 1 .. Len(runs) :
    /\ i <= Len(results) => runs[i].out \in Over
    /\ Len(results) < i /\ i <= Len(results) + ChunkSize => runs[i].out # "waiting"
    /\ Len(results) + ChunkSize < i => runs[i].out = "waiting"

Inv == Shape /\ Progress

(* A function on an initial segment of the naturals is a sequence.         *)
LEMMA LengthOf ==
  ASSUME NEW s, NEW n \in Nat, s = [i \in 1 .. n |-> s[i]]
  PROVE  Len(s) = n /\ DOMAIN s = 1 .. n
OBVIOUS

(* The size of a stretch of devices.                                       *)
LEMMA SizeOf ==
  ASSUME NEW a \in Nat, NEW b \in Nat, a <= b
  PROVE  IsFiniteSet(a + 1 .. b) /\ Cardinality(a + 1 .. b) = b - a
<1>1. a + 1 \in Int /\ b \in Int OBVIOUS
<1>2. /\ IsFiniteSet(a + 1 .. b)
      /\ Cardinality(a + 1 .. b) = IF a + 1 > b THEN 0 ELSE b - (a + 1) + 1
  BY ONLY <1>1, FS_Interval
<1> QED BY <1>2

LEMMA InitInv == Init => Inv
BY DEF Init, Inv, Shape, Progress, Over

(* The call begins with the first chunk.                                   *)
LEMMA CallKeepsInv == ASSUME Inv, NEW t \in Tools, Call(t) PROVE Inv'
<1>1. PICK plan \in Plans(t), n \in 1 .. (IF t = "control_devices_bulk" THEN MaxRefs ELSE 1) :
        runs' = [i \in 1 .. n |->
                   [todo |-> plan, out |-> IF i <= ChunkSize THEN "running" ELSE "waiting"]]
  BY DEF Call
<1>2. n \in Nat /\ Len(runs') = n BY <1>1, ToolCallsAssumption
<1>3. Len(results) = 0 /\ results' = results /\ tool' = t
  <2>1. Len(results) \in Nat BY DEF Inv, Shape
  <2> QED BY <2>1 DEF Call, Inv, Shape
<1> QED
  BY <1>1, <1>2, <1>3, ToolCallsAssumption DEF Inv, Shape, Progress, Over, Outcomes

(* A run that is at work goes on or comes to its end.                      *)
Advances(i) ==
  /\ \E todo, out : /\ out \in {"running"} \cup Over
                    /\ runs' = [runs EXCEPT ![i] = [todo |-> todo, out |-> out]]
  /\ Running(i) /\ UNCHANGED <<tool, results>>

(* It stays in its chunk.                                                  *)
LEMMA AdvancingKeepsInv ==
  ASSUME Inv, NEW i \in DOMAIN runs, Advances(i)
  PROVE  Inv'
<1>1. PICK todo, out : /\ out \in {"running"} \cup Over
                       /\ runs' = [runs EXCEPT ![i] = [todo |-> todo, out |-> out]]
  BY DEF Advances
<1>2. Len(runs) \in Nat /\ DOMAIN runs = 1 .. Len(runs) /\ i \in 1 .. Len(runs)
  BY LengthOf DEF Inv, Shape
<1>3. runs' = [j \in 1 .. Len(runs) |-> IF j = i THEN [todo |-> todo, out |-> out] ELSE runs[j]]
  BY <1>1, <1>2 DEF Inv, Shape
<1>4. Len(runs') = Len(runs) BY <1>2, <1>3
<1>5. Shape'
  <2>1. tool' = tool /\ results' = results BY DEF Advances
  <2>2. runs' = [j \in 1 .. Len(runs') |-> runs'[j]] BY <1>3, <1>4
  <2>3. \A j \in 1 .. Len(runs') : /\ runs'[j].out \in Outcomes
                                  /\ runs'[j] = [todo |-> runs'[j].todo, out |-> runs'[j].out]
    BY <1>1, <1>3, <1>4 DEF Inv, Shape, Over, Outcomes
  <2> QED BY <1>2, <1>4, <2>1, <2>2, <2>3 DEF Inv, Shape
<1>6. runs[i].out = "running" /\ results' = results BY DEF Advances, Running
<1>7. i > Len(results) /\ i <= Len(results) + ChunkSize
  BY <1>2, <1>6, ToolCallsAssumption DEF Inv, Shape, Progress, Over
<1>8. Progress'
  BY <1>1, <1>2, <1>3, <1>4, <1>6, <1>7, ToolCallsAssumption DEF Inv, Shape, Progress, Over
<1> QED BY <1>5, <1>8 DEF Inv

(* That is what every step of a run does.                                  *)
LEMMA RunsAdvance ==
  ASSUME Inv, NEW i \in DOMAIN runs, NEW s \in Open(i),
         Respond(i, s) \/ Miss(i, s) \/ Remember(i, s) \/ Lookup(i, s)
  PROVE  Advances(i)
<1>1. Running(i) BY DEF Open
<1>2. Done(i, s) \/ Failed(i) BY DEF Respond, Miss, Remember, Lookup
<1>3. \E todo, out : /\ out \in {"running"} \cup Over
                     /\ runs' = [runs EXCEPT ![i] = [todo |-> todo, out |-> out]]
  BY <1>2 DEF Done, Failed, Over
<1>4. UNCHANGED <<tool, results>> BY DEF Respond, Miss, Remember, Lookup
<1> QED BY <1>1, <1>3, <1>4 DEF Advances

(* The chunk is the devices after those reported, up to its size.          *)
LEMMA ChunkIs ==
  ASSUME Inv
  PROVE  /\ Len(results) + ChunkSize <= Len(runs) =>
              Chunk = Len(results) + 1 .. Len(results) + ChunkSize
                /\ Cardinality(Chunk) = ChunkSize
         /\ Len(runs) < Len(results) + ChunkSize =>
              Chunk = Len(results) + 1 .. Len(runs)
                /\ Cardinality(Chunk) = Len(runs) - Len(results)
<1>1. /\ Len(runs) \in Nat /\ DOMAIN runs = 1 .. Len(runs)
      /\ Len(results) \in Nat /\ Len(results) <= Len(runs)
      /\ ChunkSize \in Nat \ {0}
  BY LengthOf, ToolCallsAssumption DEF Inv, Shape
<1>2. ASSUME Len(results) + ChunkSize <= Len(runs)
      PROVE  Chunk = Len(results) + 1 .. Len(results) + ChunkSize
  BY <1>1, <1>2 DEF Chunk, Inv, Progress
<1>3. ASSUME Len(runs) < Len(results) + ChunkSize
      PROVE  Chunk = Len(results) + 1 .. Len(runs)
  BY <1>1, <1>3 DEF Chunk, Inv, Progress
<1>4. Cardinality(Len(results) + 1 .. Len(results) + ChunkSize) = ChunkSize
  BY <1>1, SizeOf
<1>5. Cardinality(Len(results) + 1 .. Len(runs)) = Len(runs) - Len(results)
  BY <1>1, SizeOf
<1>6. ASSUME Len(results) + ChunkSize <= Len(runs)
      PROVE  /\ Chunk = Len(results) + 1 .. Len(results) + ChunkSize
             /\ Cardinality(Chunk) = ChunkSize
  BY <1>2, <1>4, <1>6
<1>7. ASSUME Len(runs) < Len(results) + ChunkSize
      PROVE  /\ Chunk = Len(results) + 1 .. Len(runs)
             /\ Cardinality(Chunk) = Len(runs) - Len(results)
  BY <1>3, <1>5, <1>7
<1> QED BY <1>6, <1>7

(* The outcomes of a chunk that has settled are appended in its order.     *)
LEMMA ReportIs ==
  ASSUME Inv, Settled,
         results' = results \o [k \in 1 .. Cardinality(Chunk) |-> runs[Len(results) + k].out]
  PROVE  results' \in Seq(Over) /\ Len(results') = Len(results) + Cardinality(Chunk)
<1>1. /\ Len(runs) \in Nat /\ Len(results) \in Nat /\ Len(results) <= Len(runs)
      /\ ChunkSize \in Nat \ {0} /\ results \in Seq(Over)
  BY ToolCallsAssumption DEF Inv, Shape
<1>2. Cardinality(Chunk) \in Nat
  BY <1>1, ChunkIs
<1>3. \A k \in 1 .. Cardinality(Chunk) : Len(results) + k \in Chunk
  BY <1>1, ChunkIs
<1>4. \A k \in 1 .. Cardinality(Chunk) : runs[Len(results) + k].out \in Over
  BY <1>3 DEF Settled, Over
<1>5. /\ [k \in 1 .. Cardinality(Chunk) |-> runs[Len(results) + k].out] \in Seq(Over)
      /\ Len([k \in 1 .. Cardinality(Chunk) |-> runs[Len(results) + k].out]) = Cardinality(Chunk)
  BY <1>2, <1>4
<1> QED BY <1>1, <1>2, <1>5

(* The chunk is reported, and the next one begins where it ended.          *)
LEMMA NextChunkKeepsInv == ASSUME Inv, NextChunk PROVE Inv'
<1>1. /\ Len(runs) \in Nat /\ DOMAIN runs = 1 .. Len(runs)
      /\ Len(results) \in Nat /\ Len(results) <= Len(runs)
      /\ ChunkSize \in Nat \ {0}
  BY LengthOf, ToolCallsAssumption DEF Inv, Shape
<1>2. /\ Cardinality(Chunk) = ChunkSize /\ Len(results) + ChunkSize < Len(runs)
      /\ Chunk = Len(results) + 1 .. Len(results) + ChunkSize
  BY <1>1, ChunkIs DEF NextChunk
<1>3. results' \in Seq(Over) /\ Len(results') = Len(results) + ChunkSize
  BY <1>2, ReportIs DEF NextChunk
<1>4. runs' = [i \in 1 .. Len(runs) |->
                 IF i \in Len(results') + 1 .. Len(results') + ChunkSize
                 THEN [runs[i] EXCEPT !.out = "running"] ELSE runs[i]]
  BY <1>1 DEF NextChunk
<1>5. Len(runs') = Len(runs) BY <1>1, <1>4
<1>6. \A i \in 1 .. Len(runs) :
        [runs[i] EXCEPT !.out = "running"] = [todo |-> runs[i].todo, out |-> "running"]
  BY DEF Inv, Shape
<1>7. tool' = tool /\ tool # NoTool BY <1>1, <1>2 DEF NextChunk, Inv, Shape
<1>8. Shape'
  BY <1>1, <1>2, <1>3, <1>4, <1>5, <1>6, <1>7 DEF Inv, Shape, Outcomes
<1>9. \A i \in Chunk : runs[i].out \in Over BY DEF NextChunk, Settled, Over
<1>10. Progress'
  BY <1>1, <1>2, <1>3, <1>4, <1>5, <1>6, <1>9 DEF Inv, Progress, Over
<1> QED BY <1>8, <1>10 DEF Inv

(* The last chunk is reported.                                             *)
LEMMA AnswerKeepsInv == ASSUME Inv, Answer PROVE Inv'
<1>1. /\ Len(runs) \in Nat /\ DOMAIN runs = 1 .. Len(runs)
      /\ Len(results) \in Nat /\ Len(results) <= Len(runs)
      /\ ChunkSize \in Nat \ {0}
  BY LengthOf, ToolCallsAssumption DEF Inv, Shape
<1>2. Len(results) + Cardinality(Chunk) = Len(runs) /\ runs' = runs /\ tool' = tool
  BY DEF Answer
<1>3. results' \in Seq(Over) /\ Len(results') = Len(runs)
  BY <1>2, ReportIs DEF Answer
<1>4. Chunk = Len(results) + 1 .. Len(runs) BY <1>1, <1>2, ChunkIs
<1>5. \A i \in Chunk : runs[i].out \in Over BY DEF Answer, Settled, Over
<1>6. tool # NoTool BY <1>1, <1>4 DEF Answer, Settled, Inv, Shape
<1>7. Shape' BY <1>1, <1>2, <1>3, <1>6 DEF Inv, Shape
<1>8. Progress' BY <1>1, <1>2, <1>3, <1>4, <1>5 DEF Inv, Progress
<1> QED BY <1>7, <1>8 DEF Inv

LEMMA NextKeepsInv == Inv /\ [Next]_vars => Inv'
<1> SUFFICES ASSUME Inv, [Next]_vars PROVE Inv'
  OBVIOUS
<1>1. ASSUME NEW t \in Tools, Call(t) PROVE Inv' BY <1>1, CallKeepsInv
<1>2. ASSUME NEW t \in Tools, Defer(t) \/ Refuse(t) PROVE Inv'
  <2>1. Len(runs) = 0 /\ UNCHANGED <<runs, results>>
    BY <1>2 DEF Defer, Refuse, NoRun, Inv, Shape
  <2> QED BY <2>1 DEF Inv, Shape, Progress
<1>3. ASSUME NEW i \in DOMAIN runs, External(i) PROVE Inv'
  BY <1>3, RunsAdvance, AdvancingKeepsInv DEF External
<1>4. ASSUME NEW i \in DOMAIN runs, Arrive(i) PROVE Inv'
  BY <1>4 DEF Arrive, Inv, Shape, Progress
<1>5. CASE Gateway
  BY <1>5, NextChunkKeepsInv, AnswerKeepsInv, RunsAdvance, AdvancingKeepsInv DEF Gateway
<1>6. CASE UNCHANGED vars BY <1>6 DEF vars, Inv, Shape, Progress
<1> QED BY <1>1, <1>2, <1>3, <1>4, <1>5, <1>6 DEF Next
-----------------------------------------------------------------------------
(***************************************************************************)
(* The invariant of the runs.                                              *)
(***************************************************************************)
(* What is left of a plan is what the tool may do; nothing when it is over. *)
PlanFits(i) ==
  /\ runs[i].todo \in Seq(Stages(ReadsOf(tool), WritesOf(tool)))
  /\ Covered(runs[i].todo)
  /\ runs[i].out \in Over => runs[i].todo = << >>

(* What took effect is the beginning of what was ordered, the change on    *)
(* its way comes next, and the rest of the plan makes the others.          *)
Ledger(i) ==
  /\ orders[i] \in Seq(WritesOf(tool)) /\ received[i] \in Seq(WritesOf(tool))
  /\ stray[i] \in Seq(WritesOf(tool)) /\ Len(stray[i]) <= 1
  /\ Len(received[i]) + Len(stray[i]) <= Len(orders[i])
  /\ \A k \in 1 .. Len(received[i]) : received[i][k] = orders[i][k]
  /\ \A k \in 1 .. Len(stray[i]) : stray[i][k] = orders[i][Len(received[i]) + k]
  /\ runs[i].out # "failed" => stray[i] = << >> /\ Owes(runs[i].todo, orders[i], Len(received[i]))

Histories ==
  /\ orders = [i \in 1 .. Len(runs) |-> orders[i]]
  /\ received = [i \in 1 .. Len(runs) |-> received[i]]
  /\ stray = [i \in 1 .. Len(runs) |-> stray[i]]

Calls ==
  /\ tool \in Tools \cup {NoTool} /\ answer \in {"none", "ok", "error", "deferred"}
  /\ Len(runs) <= MaxRefs
  /\ tool = NoTool => answer = "none"
  /\ tool # "control_devices_bulk" => Len(runs) <= 1
  /\ answer # "none" => \A i \in 1 .. Len(runs) : runs[i].out \in Over

(* An inventory that was read is stored, or will be, or its run has failed; *)
(* the runs of a bulk control read none.                                   *)
Shown ==
  /\ stored \subseteq Lists
  /\ tool \in {NoTool, "control_devices_bulk"} => read \cap Lists = {}
  /\ \A L \in read \cap Lists :
       \/ L \in stored
       \/ \E i \in 1 .. Len(runs) :
            \/ runs[i].out = "failed"
            \/ \E m \in DOMAIN runs[i].todo : Store(L) \in runs[i].todo[m]
  /\ answer = "ok" => read \cap Lists \subseteq stored

Fits ==
  /\ Calls /\ Histories /\ Shown
  /\ \A i \in 1 .. Len(runs) : PlanFits(i) /\ Ledger(i)

(* Nothing is called, so nothing is left to do.                            *)
LEMMA InitFits == Init => Fits
<1> SUFFICES ASSUME Init PROVE Fits
  OBVIOUS
<1>1. Len(runs) = 0 /\ Len(orders) = 0 /\ DOMAIN orders = {} BY DEF Init
<1>2. Calls BY <1>1, ToolCallsAssumption DEF Init, Calls
<1>3. Histories BY <1>1 DEF Init, Histories
<1>4. Shown BY DEF Init, Shown
<1> QED BY <1>1, <1>2, <1>3, <1>4 DEF Fits

(* What is known of a run that is at work and of its open step.            *)
LEMMA OpenIs ==
  ASSUME Inv, Fits, NEW i \in DOMAIN runs, NEW s \in Open(i)
  PROVE  /\ i \in 1 .. Len(runs) /\ Len(runs) \in Nat /\ tool \in Tools /\ answer = "none"
         /\ runs[i].out = "running" /\ runs[i].todo # << >> /\ s \in Head(runs[i].todo)
         /\ runs[i].todo \in Seq(Stages(ReadsOf(tool), WritesOf(tool)))
         /\ Head(runs[i].todo) \in Stages(ReadsOf(tool), WritesOf(tool))
         /\ Covered(runs[i].todo)
         /\ stray[i] = << >> /\ Owes(runs[i].todo, orders[i], Len(received[i]))
<1>1. Running(i) /\ s \in Head(runs[i].todo) BY DEF Open
<1>2. i \in 1 .. Len(runs) /\ Len(runs) \in Nat BY LengthOf DEF Inv, Shape
<1>3. tool \in Tools BY <1>2 DEF Inv, Shape, Fits, Calls
<1>4. answer = "none"
  <2>1. answer # "none" => runs[i].out \in Over BY <1>2 DEF Fits, Calls
  <2> QED BY <1>1, <2>1 DEF Running, Over
<1>5. PlanFits(i) /\ Ledger(i) BY <1>2 DEF Fits
<1>6. runs[i].out = "running" /\ runs[i].todo # << >> BY <1>1 DEF Running
<1>7. runs[i].todo \in Seq(Stages(ReadsOf(tool), WritesOf(tool))) /\ Covered(runs[i].todo)
  BY <1>5 DEF PlanFits
<1>8. Head(runs[i].todo) \in Stages(ReadsOf(tool), WritesOf(tool)) BY <1>6, <1>7
<1>9. stray[i] = << >> /\ Owes(runs[i].todo, orders[i], Len(received[i]))
  BY <1>5, <1>6 DEF Ledger
<1> QED BY <1>1, <1>2, <1>3, <1>4, <1>6, <1>7, <1>8, <1>9

(* A run of which the plan, the changes and their order are in keeping.    *)
Keeps(i) ==
  /\ UNCHANGED <<tool, answer, orders, results>>
  /\ \E todo, out : runs' = [runs EXCEPT ![i] = [todo |-> todo, out |-> out]]
  /\ (UNCHANGED received \/ \E x : received' = [received EXCEPT ![i] = x])
  /\ (UNCHANGED stray \/ \E x : stray' = [stray EXCEPT ![i] = x])
  /\ PlanFits(i)' /\ Ledger(i)'

(* Such a step keeps the other runs as they were.                          *)
LEMMA KeepsRuns ==
  ASSUME Inv, Fits, NEW i \in DOMAIN runs, NEW s \in Open(i), Keeps(i)
  PROVE  /\ Calls' /\ Histories' /\ \A j \in 1 .. Len(runs') : PlanFits(j)' /\ Ledger(j)'
         /\ Len(runs') = Len(runs)
         /\ \A j \in 1 .. Len(runs) : j # i => runs'[j] = runs[j]
<1>1. i \in 1 .. Len(runs) /\ Len(runs) \in Nat /\ tool \in Tools /\ answer = "none" BY OpenIs
<1>2. PICK todo, out : runs' = [runs EXCEPT ![i] = [todo |-> todo, out |-> out]] BY DEF Keeps
<1>3. /\ runs' = [j \in 1 .. Len(runs) |-> IF j = i THEN [todo |-> todo, out |-> out] ELSE runs[j]]
      /\ DOMAIN runs = 1 .. Len(runs)
  BY <1>1, <1>2 DEF Inv, Shape
<1>4. Len(runs') = Len(runs) BY <1>1, <1>3
<1>5. \A j \in 1 .. Len(runs) : j # i => runs'[j] = runs[j] BY <1>3
<1>6. DOMAIN received = 1 .. Len(runs) /\ DOMAIN stray = 1 .. Len(runs)
  BY DEF Fits, Histories
<1>7. /\ received' = [j \in 1 .. Len(runs) |-> received'[j]]
      /\ \A j \in 1 .. Len(runs) : j # i => received'[j] = received[j]
  <2>1. received = [j \in 1 .. Len(runs) |-> received[j]] BY DEF Fits, Histories
  <2>2. CASE UNCHANGED received BY <2>1, <2>2
  <2>3. CASE \E x : received' = [received EXCEPT ![i] = x]
    <3>1. PICK x : received' = [received EXCEPT ![i] = x] BY <2>3
    <3>2. received' = [j \in 1 .. Len(runs) |-> IF j = i THEN x ELSE received[j]] BY <1>6, <3>1
    <3> QED BY <3>2
  <2> QED BY <2>2, <2>3 DEF Keeps
<1>8. /\ stray' = [j \in 1 .. Len(runs) |-> stray'[j]]
      /\ \A j \in 1 .. Len(runs) : j # i => stray'[j] = stray[j]
  <2>1. stray = [j \in 1 .. Len(runs) |-> stray[j]] BY DEF Fits, Histories
  <2>2. CASE UNCHANGED stray BY <2>1, <2>2
  <2>3. CASE \E x : stray' = [stray EXCEPT ![i] = x]
    <3>1. PICK x : stray' = [stray EXCEPT ![i] = x] BY <2>3
    <3>2. stray' = [j \in 1 .. Len(runs) |-> IF j = i THEN x ELSE stray[j]] BY <1>6, <3>1
    <3> QED BY <3>2
  <2> QED BY <2>2, <2>3 DEF Keeps
<1>9. Calls' BY <1>1, <1>4 DEF Keeps, Fits, Calls
<1>10. Histories' BY <1>4, <1>7, <1>8 DEF Keeps, Fits, Histories
<1>11. ASSUME NEW j \in 1 .. Len(runs') PROVE PlanFits(j)' /\ Ledger(j)'
  <2>1. CASE j = i BY <2>1 DEF Keeps
  <2>2. CASE j # i
    <3>1. PlanFits(j) /\ Ledger(j) /\ j \in 1 .. Len(runs) BY <1>4, <1>11 DEF Fits
    <3>2. runs'[j] = runs[j] /\ received'[j] = received[j] /\ stray'[j] = stray[j]
      BY <1>5, <1>7, <1>8, <2>2, <3>1
    <3>3. tool' = tool /\ orders' = orders BY DEF Keeps
    <3> QED BY <3>1, <3>2, <3>3 DEF PlanFits, Ledger
  <2> QED BY <2>1, <2>2
<1> QED BY <1>4, <1>5, <1>9, <1>10, <1>11

(* What a step leaves of the plan of its run.                              *)
LEMMA DoneIs ==
  ASSUME Inv, Fits, NEW i \in DOMAIN runs, NEW s \in Open(i), Done(i, s), tool' = tool
  PROVE  /\ \E todo, out : runs' = [runs EXCEPT ![i] = [todo |-> todo, out |-> out]]
         /\ runs'[i].todo = Rest(runs[i].todo, s) /\ runs'[i].out \in {"running", "success"}
         /\ \E d \in {0, 1} : Shifted(runs[i].todo, s, runs'[i].todo, d)
         /\ runs'[i].todo \in Seq(Stages(ReadsOf(tool), WritesOf(tool)))
         /\ PlanFits(i)'
<1> DEFINE rest == Rest(runs[i].todo, s)
           out == IF rest = << >> THEN "success" ELSE "running"
<1>1. runs' = [runs EXCEPT ![i] = [todo |-> rest, out |-> out]] BY DEF Done, Rest
<1> HIDE DEF rest
<1>2. runs'[i] = [todo |-> rest, out |-> out] BY <1>1
<1>3. runs'[i].todo = rest /\ runs'[i].out = out BY <1>2
<1>4. /\ runs[i].todo \in Seq(Stages(ReadsOf(tool), WritesOf(tool)))
      /\ Covered(runs[i].todo) /\ runs[i].todo # << >> /\ s \in Head(runs[i].todo)
  BY OpenIs
<1>5. /\ rest \in Seq(Stages(ReadsOf(tool), WritesOf(tool)))
      /\ \E d \in {0, 1} : Shifted(runs[i].todo, s, rest, d)
  BY <1>4, RestIs DEF rest
<1>6. Covered(rest) BY <1>4, <1>5, RestStores
<1>7. PlanFits(i)' BY <1>3, <1>5, <1>6 DEF PlanFits, Over
<1> QED BY <1>1, <1>3, <1>5, <1>7 DEF rest

(* What a failure leaves of it: nothing.                                   *)
LEMMA FailedIs ==
  ASSUME Inv, Fits, NEW i \in DOMAIN runs, NEW s \in Open(i), Failed(i), tool' = tool
  PROVE  /\ \E todo, out : runs' = [runs EXCEPT ![i] = [todo |-> todo, out |-> out]]
         /\ runs'[i].todo = << >> /\ runs'[i].out = "failed"
         /\ PlanFits(i)'
<1>1. runs' = [runs EXCEPT ![i] = [todo |-> << >>, out |-> "failed"]] BY DEF Failed
<1>2. runs'[i] = [todo |-> << >>, out |-> "failed"] BY <1>1
<1>3. runs'[i].todo = << >> /\ runs'[i].out = "failed" BY <1>2
<1>4. PlanFits(i)' BY <1>3 DEF PlanFits, Covered
<1> QED BY <1>1, <1>3, <1>4

(* What the changes of a run are before one of its steps.                  *)
LEMMA LedgerIs ==
  ASSUME Inv, Fits, NEW i \in DOMAIN runs, NEW s \in Open(i)
  PROVE  /\ orders[i] \in Seq(WritesOf(tool)) /\ received[i] \in Seq(WritesOf(tool))
         /\ Len(received[i]) \in 0 .. Len(orders[i]) /\ Len(orders[i]) \in Nat
         /\ \A k \in 1 .. Len(received[i]) : received[i][k] = orders[i][k]
         /\ stray[i] = << >>
         /\ \A rest, d : /\ rest \in Seq(Stages(ReadsOf(tool), WritesOf(tool)))
                         /\ d \in {0, 1} /\ Shifted(runs[i].todo, s, rest, d)
              => /\ Changes(s.request) =>
                      /\ Len(received[i]) < Len(orders[i])
                      /\ orders[i][Len(received[i]) + 1] = s.request
                      /\ Owes(rest, orders[i], Len(received[i]) + 1)
                 /\ ~Changes(s.request) => Owes(rest, orders[i], Len(received[i]))
         /\ Changes(s.request) => /\ Len(received[i]) < Len(orders[i])
                                  /\ orders[i][Len(received[i]) + 1] = s.request
                                  /\ s.request \in WritesOf(tool) /\ s.kind = "must"
<1>1. /\ i \in 1 .. Len(runs) /\ tool \in Tools /\ runs[i].todo # << >> /\ s \in Head(runs[i].todo)
      /\ runs[i].todo \in Seq(Stages(ReadsOf(tool), WritesOf(tool)))
      /\ Head(runs[i].todo) \in Stages(ReadsOf(tool), WritesOf(tool))
      /\ stray[i] = << >> /\ Owes(runs[i].todo, orders[i], Len(received[i]))
  BY OpenIs
<1>2. WritesOf(tool) \in SUBSET Writes /\ ReadsOf(tool) \in SUBSET Reads BY <1>1, WritesOfIs
<1>3. Ledger(i) BY <1>1 DEF Fits
<1>4. /\ orders[i] \in Seq(WritesOf(tool)) /\ received[i] \in Seq(WritesOf(tool))
      /\ \A k \in 1 .. Len(received[i]) : received[i][k] = orders[i][k]
  BY <1>3 DEF Ledger
<1>5. Len(received[i]) \in Nat /\ Len(orders[i]) \in Nat /\ Len(stray[i]) = 0 BY <1>1, <1>4
<1>6. Len(received[i]) \in 0 .. Len(orders[i]) BY <1>3, <1>5 DEF Ledger
<1>7. ASSUME NEW rest \in Seq(Stages(ReadsOf(tool), WritesOf(tool))), NEW d \in {0, 1},
             Shifted(runs[i].todo, s, rest, d)
      PROVE  /\ Changes(s.request) =>
                  /\ Len(received[i]) < Len(orders[i])
                  /\ orders[i][Len(received[i]) + 1] = s.request
                  /\ Owes(rest, orders[i], Len(received[i]) + 1)
             /\ ~Changes(s.request) => Owes(rest, orders[i], Len(received[i]))
  <2> DEFINE R == ReadsOf(tool)
             W == WritesOf(tool)
             todo == runs[i].todo
             order == orders[i]
             n == Len(received[i])
  <2>1. /\ R \in SUBSET Reads /\ W \in SUBSET Writes /\ todo \in Seq(Stages(R, W))
        /\ rest \in Seq(Stages(R, W)) /\ d \in {0, 1} /\ Shifted(todo, s, rest, d)
        /\ order \in Seq(W) /\ n \in 0 .. Len(order) /\ Owes(todo, order, n)
    BY <1>1, <1>2, <1>4, <1>6, <1>7
  <2> HIDE DEF R, W, todo, order, n
  <2>2. /\ Changes(s.request) => /\ n < Len(order) /\ order[n + 1] = s.request
                                 /\ Owes(rest, order, n + 1)
        /\ ~Changes(s.request) => Owes(rest, order, n)
    <3>1. CASE Changes(s.request) BY ONLY <2>1, <3>1, RestOwesNext
    <3>2. CASE ~Changes(s.request) BY ONLY <2>1, <3>2, RestOwesStill
    <3> QED BY <3>1, <3>2
  <2> QED BY <2>2 DEF order, n
<1>8. /\ Rest(runs[i].todo, s) \in Seq(Stages(ReadsOf(tool), WritesOf(tool)))
      /\ \E d \in {0, 1} : Shifted(runs[i].todo, s, Rest(runs[i].todo, s), d)
  BY <1>1, RestIs
<1>9. Changes(s.request) => s.request \in WritesOf(tool) /\ s = Must(s.request)
  <2> DEFINE R == ReadsOf(tool)
             W == WritesOf(tool)
             stage == Head(runs[i].todo)
  <2>1. R \in SUBSET Reads /\ W \in SUBSET Writes /\ stage \in Stages(R, W) /\ s \in stage
    BY <1>1, <1>2
  <2> HIDE DEF R, W, stage
  <2>2. Changes(s.request) => s.request \in W /\ s = Must(s.request) BY ONLY <2>1, StageIs
  <2> QED BY <2>2 DEF W
<1>10. Changes(s.request) => s.kind = "must" BY <1>9 DEF Must
<1> QED BY <1>1, <1>4, <1>5, <1>6, <1>7, <1>8, <1>9, <1>10

(* The changes of the run after a step by which nothing took effect.       *)
LEMMA DoneKeepsLedger ==
  ASSUME Inv, Fits, NEW i \in DOMAIN runs, NEW s \in Open(i), Done(i, s), ~Changes(s.request),
         UNCHANGED <<tool, orders, received, stray>>
  PROVE  Ledger(i)'
<1>1. PICK d \in {0, 1} : Shifted(runs[i].todo, s, runs'[i].todo, d) BY DoneIs
<1>2. runs'[i].todo \in Seq(Stages(ReadsOf(tool), WritesOf(tool))) BY DoneIs
<1>3. Owes(runs'[i].todo, orders[i], Len(received[i])) BY <1>1, <1>2, LedgerIs
<1>4. Ledger(i) BY OpenIs DEF Fits
<1>5. runs[i].out = "running" BY OpenIs
<1> QED BY <1>3, <1>4, <1>5 DEF Ledger

(* The changes of the run after a failure by which nothing took effect.    *)
LEMMA FailedKeepsLedger ==
  ASSUME Inv, Fits, NEW i \in DOMAIN runs, NEW s \in Open(i), Failed(i),
         UNCHANGED <<tool, orders, received, stray>>
  PROVE  Ledger(i)'
<1>1. runs'[i].out = "failed" BY FailedIs
<1>2. Ledger(i) BY OpenIs DEF Fits
<1> QED BY <1>1, <1>2 DEF Ledger

(* A response: a change takes effect, the next of the order.               *)
LEMMA RespondKeeps ==
  ASSUME Inv, Fits, NEW i \in DOMAIN runs, NEW s \in Open(i), Respond(i, s)
  PROVE  Keeps(i)
<1>1. Done(i, s) /\ UNCHANGED <<tool, results, answer, orders, stray>> BY DEF Respond
<1>2. PlanFits(i)' /\ \E todo, out : runs' = [runs EXCEPT ![i] = [todo |-> todo, out |-> out]]
  BY <1>1, DoneIs
<1>3. CASE ~Changes(s.request)
  <2>1. received' = received BY <1>3 DEF Respond
  <2>2. Ledger(i)' BY <1>1, <1>3, <2>1, DoneKeepsLedger
  <2> QED BY <1>1, <1>2, <2>1, <2>2 DEF Keeps
<1>4. CASE Changes(s.request)
  <2>1. received' = [received EXCEPT ![i] = Append(received[i], s.request)] BY <1>4 DEF Respond
  <2>2. i \in 1 .. Len(runs) /\ DOMAIN received = 1 .. Len(runs)
    BY OpenIs DEF Fits, Histories
  <2>3. received'[i] = Append(received[i], s.request) BY <2>1, <2>2
  <2>4. PICK d \in {0, 1} : Shifted(runs[i].todo, s, runs'[i].todo, d) BY <1>1, DoneIs
  <2>5. runs'[i].todo \in Seq(Stages(ReadsOf(tool), WritesOf(tool))) BY <1>1, DoneIs
  <2>6. /\ Len(received[i]) < Len(orders[i]) /\ orders[i][Len(received[i]) + 1] = s.request
        /\ Owes(runs'[i].todo, orders[i], Len(received[i]) + 1) /\ s.request \in WritesOf(tool)
    BY <1>4, <2>4, <2>5, LedgerIs
  <2>7. /\ orders[i] \in Seq(WritesOf(tool)) /\ received[i] \in Seq(WritesOf(tool))
        /\ Len(received[i]) \in Nat /\ Len(orders[i]) \in Nat /\ stray[i] = << >>
        /\ \A k \in 1 .. Len(received[i]) : received[i][k] = orders[i][k]
    BY LedgerIs
  <2>8. /\ received'[i] \in Seq(WritesOf(tool)) /\ Len(received'[i]) = Len(received[i]) + 1
        /\ \A k \in 1 .. Len(received[i]) : received'[i][k] = received[i][k]
        /\ received'[i][Len(received[i]) + 1] = s.request
    BY <2>3, <2>6, <2>7
  <2>9. \A k \in 1 .. Len(received'[i]) : received'[i][k] = orders[i][k]
    BY <2>6, <2>7, <2>8
  <2>10. stray[i] \in Seq(WritesOf(tool)) /\ Len(stray[i]) = 0 BY <2>7
  <2>11. orders'[i] = orders[i] /\ stray'[i] = stray[i] /\ tool' = tool BY <1>1
  <2>12. Ledger(i)'
    BY <2>6, <2>7, <2>8, <2>9, <2>10, <2>11 DEF Ledger
  <2> QED BY <1>1, <1>2, <2>1, <2>12 DEF Keeps
<1> QED BY <1>3, <1>4

(* A failure: a change may still be on its way, the next of the order.     *)
LEMMA MissKeeps ==
  ASSUME Inv, Fits, NEW i \in DOMAIN runs, NEW s \in Open(i), Miss(i, s)
  PROVE  Keeps(i)
<1>1. UNCHANGED <<tool, results, answer, orders, received>> /\ s.kind \in {"must", "may"}
  BY DEF Miss
<1>2. CASE s.kind = "may"
  <2>1. ~Changes(s.request) BY <1>2, LedgerIs
  <2>2. Done(i, s) /\ UNCHANGED stray BY <1>2, <2>1 DEF Miss
  <2>3. PlanFits(i)' /\ \E todo, out : runs' = [runs EXCEPT ![i] = [todo |-> todo, out |-> out]]
    BY <1>1, <2>2, DoneIs
  <2>4. Ledger(i)' BY <1>1, <2>1, <2>2, DoneKeepsLedger
  <2> QED BY <1>1, <2>2, <2>3, <2>4 DEF Keeps
<1>3. CASE s.kind = "must"
  <2>1. Failed(i) BY <1>3 DEF Miss
  <2>2. PlanFits(i)' /\ \E todo, out : runs' = [runs EXCEPT ![i] = [todo |-> todo, out |-> out]]
    BY <1>1, <2>1, FailedIs
  <2>3. CASE UNCHANGED stray
    <3>1. Ledger(i)' BY <1>1, <2>1, <2>3, FailedKeepsLedger
    <3> QED BY <1>1, <2>2, <2>3, <3>1 DEF Keeps
  <2>4. CASE Changes(s.request) /\ stray' = [stray EXCEPT ![i] = <<s.request>>]
    <3>1. i \in 1 .. Len(runs) /\ DOMAIN stray = 1 .. Len(runs) BY OpenIs DEF Fits, Histories
    <3>2. stray'[i] = <<s.request>> BY <2>4, <3>1
    <3>3. /\ orders[i] \in Seq(WritesOf(tool)) /\ received[i] \in Seq(WritesOf(tool))
          /\ Len(received[i]) \in Nat /\ Len(orders[i]) \in Nat
          /\ \A k \in 1 .. Len(received[i]) : received[i][k] = orders[i][k]
          /\ Len(received[i]) < Len(orders[i]) /\ orders[i][Len(received[i]) + 1] = s.request
          /\ s.request \in WritesOf(tool)
      BY <2>4, LedgerIs
    <3>4. stray'[i] \in Seq(WritesOf(tool)) /\ Len(stray'[i]) = 1 /\ stray'[i][1] = s.request
      BY <3>2, <3>3
    <3>5. \A k \in 1 .. Len(stray'[i]) : stray'[i][k] = orders[i][Len(received[i]) + k]
      BY <3>3, <3>4
    <3>6. orders'[i] = orders[i] /\ received'[i] = received[i] /\ tool' = tool BY <1>1
    <3>7. runs'[i].out = "failed" BY <1>1, <2>1, FailedIs
    <3>8. Ledger(i)' BY <3>3, <3>4, <3>5, <3>6, <3>7 DEF Ledger
    <3> QED BY <1>1, <2>2, <2>4, <3>8 DEF Keeps
  <2> QED BY <2>3, <2>4 DEF Miss
<1> QED BY <1>1, <1>2, <1>3

(* References concern no change.                                           *)
LEMMA StoringKeeps ==
  ASSUME Inv, Fits, NEW i \in DOMAIN runs, NEW s \in Open(i), Remember(i, s) \/ Lookup(i, s)
  PROVE  Keeps(i)
<1>1. /\ UNCHANGED <<tool, results, answer, orders, received, stray>>
      /\ s.kind \in {"store", "resolve"} /\ (Done(i, s) \/ Failed(i))
  BY DEF Remember, Lookup
<1>2. ~Changes(s.request) BY <1>1, LedgerIs
<1>3. CASE Done(i, s)
  <2>1. PlanFits(i)' /\ \E todo, out : runs' = [runs EXCEPT ![i] = [todo |-> todo, out |-> out]]
    BY <1>1, <1>3, DoneIs
  <2>2. Ledger(i)' BY <1>1, <1>2, <1>3, DoneKeepsLedger
  <2> QED BY <1>1, <2>1, <2>2 DEF Keeps
<1>4. CASE Failed(i)
  <2>1. PlanFits(i)' /\ \E todo, out : runs' = [runs EXCEPT ![i] = [todo |-> todo, out |-> out]]
    BY <1>1, <1>4, FailedIs
  <2>2. Ledger(i)' BY <1>1, <1>4, FailedKeepsLedger
  <2> QED BY <1>1, <2>1, <2>2 DEF Keeps
<1> QED BY <1>1, <1>3, <1>4

(* What is still to be stored by a run, unless it has failed.              *)
Will(L) ==
  \E i \in 1 .. Len(runs) :
    runs[i].out = "failed" \/ \E m \in DOMAIN runs[i].todo : Store(L) \in runs[i].todo[m]

(* A step of a run reads an inventory only when it will be stored, and     *)
(* one that was to be stored is stored by the step or is to be yet.        *)
LEMMA StepKeepsShown ==
  ASSUME Inv, Fits, NEW i \in DOMAIN runs, NEW s \in Open(i),
         Respond(i, s) \/ Miss(i, s) \/ Remember(i, s) \/ Lookup(i, s)
  PROVE  Shown'
<1>1. Keeps(i) BY RespondKeeps, MissKeeps, StoringKeeps
<1>2. Len(runs') = Len(runs) /\ \A j \in 1 .. Len(runs) : j # i => runs'[j] = runs[j]
  BY <1>1, KeepsRuns
<1>3. /\ i \in 1 .. Len(runs) /\ tool \in Tools /\ answer = "none" /\ s \in Head(runs[i].todo)
      /\ Head(runs[i].todo) \in Stages(ReadsOf(tool), WritesOf(tool)) /\ Covered(runs[i].todo)
      /\ runs[i].out = "running" /\ runs[i].todo # << >>
      /\ runs[i].todo \in Seq(Stages(ReadsOf(tool), WritesOf(tool)))
  BY OpenIs
<1>4. WritesOf(tool) \in SUBSET Writes /\ ReadsOf(tool) \in SUBSET Reads BY <1>3, WritesOfIs
<1>5. tool' = tool /\ answer' = "none" BY <1>1, <1>3 DEF Keeps
<1>6. /\ s.kind \in {"must", "may"} => s.request \in ReadsOf(tool) \cup WritesOf(tool)
      /\ s.kind \in {"store", "resolve"} => s.request \in Lists
      /\ \A L \in Lists : s = Store(L) => s.kind = "store" /\ s.request = L
      /\ \A L \in Lists : s.kind \in {"must", "may"} /\ s.request = L => Asks(Head(runs[i].todo), L)
  <2> DEFINE R == ReadsOf(tool)
             W == WritesOf(tool)
             stage == Head(runs[i].todo)
  <2>1. R \in SUBSET Reads /\ W \in SUBSET Writes /\ stage \in Stages(R, W) /\ s \in stage
    BY <1>3, <1>4
  <2> HIDE DEF R, W, stage
  <2>2. /\ s.kind \in {"must", "may"} => s.request \in R \cup W
        /\ s.kind \in {"store", "resolve"} => s.request \in Lists
        /\ \A L \in Lists : s = Store(L) => s.kind = "store" /\ s.request = L
        /\ \A L \in Lists : s.kind \in {"must", "may"} /\ s.request = L => Asks(stage, L)
    BY ONLY <2>1, StageIs
  <2> QED BY <2>2 DEF R, W, stage
<1>7. \/ Done(i, s) /\ \E d \in {0, 1} : Shifted(runs[i].todo, s, runs'[i].todo, d)
      \/ Failed(i) /\ runs'[i].out = "failed"
  <2>1. Done(i, s) \/ Failed(i) BY DEF Respond, Miss, Remember, Lookup
  <2> QED BY <1>5, <2>1, DoneIs, FailedIs
<1>8. /\ stored' \in {stored, stored \cup {s.request}}
      /\ stored' # stored => s.kind \in {"store", "resolve"}
      /\ s.kind = "store" => s.request \in stored'
  BY DEF Respond, Miss, Remember, Lookup
<1>9. stored' \subseteq Lists
  <2>1. stored \subseteq Lists BY DEF Fits, Shown
  <2> QED BY <1>6, <1>8, <2>1
<1>10. \/ read' = read
       \/ s.kind \in {"must", "may"} /\ read' = read \cup {s.request} /\ Done(i, s)
  <2>1. CASE Respond(i, s) BY <2>1 DEF Respond
  <2>2. CASE Miss(i, s) \/ Remember(i, s) \/ Lookup(i, s)
    <3>1. read' = read BY <2>2 DEF Miss, Remember, Lookup
    <3> QED BY <3>1
  <2> QED BY <2>1, <2>2
<1>11. \A w \in Writes : w \notin Lists BY ReadsAndWrites
<1>12. tool \in {NoTool, "control_devices_bulk"} => read' \cap Lists = {}
  <2> SUFFICES ASSUME tool = "control_devices_bulk" PROVE read' \cap Lists = {}
    BY <1>3, ToolCallsAssumption
  <2>1. ReadsOf(tool) \cap Lists = {} BY DEF ReadsOf
  <2>2. read \cap Lists = {} BY DEF Fits, Shown
  <2>3. s.kind \in {"must", "may"} => s.request \notin Lists BY <1>4, <1>6, <1>11, <2>1
  <2> QED BY <1>10, <2>2, <2>3
<1>13. ASSUME NEW L \in Lists, L \in read', L \notin stored' PROVE Will(L)'
  <2>1. s # Store(L) BY <1>6, <1>8, <1>13
  <2>2. CASE Failed(i) /\ runs'[i].out = "failed" BY <1>2, <1>3, <2>2 DEF Will
  <2>3. CASE Done(i, s) /\ \E d \in {0, 1} : Shifted(runs[i].todo, s, runs'[i].todo, d)
    <3>1. PICK d \in {0, 1} : Shifted(runs[i].todo, s, runs'[i].todo, d) BY <2>3
    <3>2. \A m \in DOMAIN runs[i].todo : Store(L) \in runs[i].todo[m] =>
            \E k \in DOMAIN runs'[i].todo : Store(L) \in runs'[i].todo[k]
      BY <2>1, <3>1, RestStores
    <3>3. CASE L \in read
      <4>1. L \notin stored BY <1>8, <1>13
      <4>2. PICK j \in 1 .. Len(runs) :
              runs[j].out = "failed" \/ \E m \in DOMAIN runs[j].todo : Store(L) \in runs[j].todo[m]
        BY <3>3, <4>1 DEF Fits, Shown
      <4>3. CASE j # i BY <1>2, <4>2, <4>3 DEF Will
      <4>4. CASE j = i
        <5>1. \E m \in DOMAIN runs[i].todo : Store(L) \in runs[i].todo[m] BY <1>3, <4>2, <4>4
        <5> QED BY <1>2, <1>3, <3>2, <5>1 DEF Will
      <4> QED BY <4>3, <4>4
    <3>4. CASE L \notin read
      <4>1. s.kind \in {"must", "may"} /\ s.request = L BY <1>10, <1>13, <3>4
      <4>2. Asks(Head(runs[i].todo), L) BY <1>6, <4>1
      <4>3. Head(runs[i].todo) = runs[i].todo[1] /\ 1 \in DOMAIN runs[i].todo BY <1>3
      <4>4. PICK m \in DOMAIN runs[i].todo : Store(L) \in runs[i].todo[m]
        BY <1>3, <4>2, <4>3 DEF Covered
      <4> QED BY <1>2, <1>3, <3>2, <4>4 DEF Will
    <3> QED BY <3>3, <3>4
  <2> QED BY <1>7, <2>2, <2>3
<1>14. \A L \in read' \cap Lists : L \in stored' \/ Will(L)' BY <1>13
<1> QED BY <1>5, <1>9, <1>12, <1>14 DEF Shown, Will

(* Every step of a run keeps the invariant.                                *)
LEMMA StepKeepsFits ==
  ASSUME Inv, Fits, NEW i \in DOMAIN runs, NEW s \in Open(i),
         Respond(i, s) \/ Miss(i, s) \/ Remember(i, s) \/ Lookup(i, s)
  PROVE  Fits'
<1>1. Keeps(i) BY RespondKeeps, MissKeeps, StoringKeeps
<1>2. Shown' BY StepKeepsShown
<1> QED BY <1>1, <1>2, KeepsRuns DEF Fits

(* What arrives late is what comes next in the order.                      *)
LEMMA ArriveKeepsFits ==
  ASSUME Inv, Fits, NEW i \in DOMAIN runs, Arrive(i)
  PROVE  Fits'
<1>1. i \in 1 .. Len(runs) /\ Len(runs) \in Nat BY LengthOf DEF Inv, Shape
<1>2. /\ received' = [received EXCEPT ![i] = received[i] \o stray[i]]
      /\ stray' = [stray EXCEPT ![i] = << >>] /\ stray[i] # << >>
      /\ UNCHANGED <<tool, runs, results, answer, orders, read, stored>>
  BY DEF Arrive
<1>3. /\ received = [j \in 1 .. Len(runs) |-> received[j]]
      /\ stray = [j \in 1 .. Len(runs) |-> stray[j]]
  BY DEF Fits, Histories
<1>4. /\ received' = [j \in 1 .. Len(runs) |->
                        IF j = i THEN received[i] \o stray[i] ELSE received[j]]
      /\ stray' = [j \in 1 .. Len(runs) |-> IF j = i THEN << >> ELSE stray[j]]
  BY <1>2, <1>3
<1>5. /\ received'[i] = received[i] \o stray[i] /\ stray'[i] = << >>
      /\ \A j \in 1 .. Len(runs) : j # i => received'[j] = received[j] /\ stray'[j] = stray[j]
  BY <1>1, <1>4
<1>6. Histories' BY <1>2, <1>4 DEF Fits, Histories
<1>7. Calls' /\ Shown' BY <1>2 DEF Fits, Calls, Shown
<1>8. Ledger(i) BY <1>1 DEF Fits
<1>9. /\ orders[i] \in Seq(WritesOf(tool)) /\ received[i] \in Seq(WritesOf(tool))
      /\ stray[i] \in Seq(WritesOf(tool))
      /\ Len(received[i]) \in Nat /\ Len(stray[i]) \in Nat /\ Len(orders[i]) \in Nat
      /\ Len(received[i]) + Len(stray[i]) <= Len(orders[i])
      /\ \A k \in 1 .. Len(received[i]) : received[i][k] = orders[i][k]
      /\ \A k \in 1 .. Len(stray[i]) : stray[i][k] = orders[i][Len(received[i]) + k]
      /\ runs[i].out = "failed"
  <2>1. /\ orders[i] \in Seq(WritesOf(tool)) /\ received[i] \in Seq(WritesOf(tool))
        /\ stray[i] \in Seq(WritesOf(tool))
        /\ Len(received[i]) + Len(stray[i]) <= Len(orders[i])
        /\ \A k \in 1 .. Len(received[i]) : received[i][k] = orders[i][k]
        /\ \A k \in 1 .. Len(stray[i]) : stray[i][k] = orders[i][Len(received[i]) + k]
    BY <1>8 DEF Ledger
  <2>2. runs[i].out = "failed" BY <1>2, <1>8 DEF Ledger
  <2>3. Len(orders[i]) \in Nat BY <2>1
  <2>4. Len(received[i]) \in Nat BY <2>1
  <2>5. Len(stray[i]) \in Nat BY <2>1
  <2> QED BY <2>1, <2>2, <2>3, <2>4, <2>5
<1>10. Ledger(i)'
  <2> DEFINE p == received[i]
             q == stray[i]
             order == orders[i]
             both == p \o q
  <2>1. p \in Seq(WritesOf(tool)) /\ q \in Seq(WritesOf(tool)) BY <1>9
  <2> HIDE DEF p, q
  <2>2. /\ p \o q \in Seq(WritesOf(tool)) /\ Len(p \o q) = Len(p) + Len(q)
        /\ \A k \in 1 .. Len(p) : (p \o q)[k] = p[k]
        /\ \A k \in 1 .. Len(q) : (p \o q)[Len(p) + k] = q[k]
    BY <2>1, CatIs
  <2>3. both \in Seq(WritesOf(tool)) /\ Len(both) = Len(p) + Len(q)
        /\ (\A k \in 1 .. Len(p) : both[k] = p[k])
        /\ \A k \in 1 .. Len(q) : both[Len(p) + k] = q[k]
    BY <2>2
  <2>4. /\ Len(p) \in Nat /\ Len(q) \in Nat /\ Len(order) \in Nat
        /\ Len(p) + Len(q) <= Len(order)
        /\ \A k \in 1 .. Len(p) : p[k] = order[k]
        /\ \A k \in 1 .. Len(q) : q[k] = order[Len(p) + k]
    BY <1>9 DEF p, q
  <2>5. both = received'[i] BY <1>5 DEF p, q
  <2> HIDE DEF both, order
  <2>6. \A k \in 1 .. Len(both) : both[k] = order[k]
    <3> SUFFICES ASSUME NEW k \in 1 .. Len(both) PROVE both[k] = order[k]
      OBVIOUS
    <3>1. CASE k <= Len(p)
      <4>1. k \in 1 .. Len(p) BY <2>4, <3>1
      <4> QED BY <2>3, <2>4, <4>1
    <3>2. CASE Len(p) < k
      <4>1. k - Len(p) \in 1 .. Len(q) /\ Len(p) + (k - Len(p)) = k BY <2>3, <2>4, <3>2
      <4> QED BY <2>3, <2>4, <4>1
    <3>3. k \in Nat BY <2>3, <2>4
    <3> QED BY <2>4, <3>1, <3>2, <3>3
  <2>7. << >> \in Seq(WritesOf(tool)) /\ Len(<< >>) = 0 OBVIOUS
  <2>8. /\ received'[i] \in Seq(WritesOf(tool)) /\ Len(received'[i]) <= Len(orders[i])
        /\ Len(received'[i]) \in Nat
        /\ \A k \in 1 .. Len(received'[i]) : received'[i][k] = orders[i][k]
    BY <2>3, <2>4, <2>5, <2>6 DEF order
  <2>9. orders'[i] = orders[i] /\ tool' = tool /\ runs'[i].out = "failed" BY <1>2, <1>9
  <2>10. /\ stray'[i] = << >> /\ orders[i] \in Seq(WritesOf(tool))
         /\ Len(received'[i]) + 0 = Len(received'[i])
    BY <1>5, <1>9, <2>8
  <2>11. /\ orders'[i] \in Seq(WritesOf(tool)') /\ received'[i] \in Seq(WritesOf(tool)')
         /\ stray'[i] \in Seq(WritesOf(tool)') /\ Len(stray'[i]) <= 1
         /\ Len(received'[i]) + Len(stray'[i]) <= Len(orders'[i])
    BY <2>7, <2>8, <2>9, <2>10
  <2>12. \A k \in 1 .. Len(stray'[i]) : FALSE BY <2>7, <2>10
  <2> QED BY <2>8, <2>9, <2>11, <2>12 DEF Ledger
<1>11. ASSUME NEW j \in 1 .. Len(runs') PROVE PlanFits(j)' /\ Ledger(j)'
  <2>1. PlanFits(j) /\ Ledger(j) /\ j \in 1 .. Len(runs) BY <1>2, <1>11 DEF Fits
  <2>2. PlanFits(j)' BY <1>2, <2>1 DEF PlanFits
  <2>3. CASE j = i BY <1>10, <2>2, <2>3
  <2>4. CASE j # i
    <3>1. received'[j] = received[j] /\ stray'[j] = stray[j] BY <1>5, <2>1, <2>4
    <3> QED BY <1>2, <2>1, <2>2, <3>1 DEF Ledger
  <2> QED BY <2>3, <2>4
<1> QED BY <1>6, <1>7, <1>11 DEF Fits

(* A call that is refused or left to the scheduler has no run.             *)
LEMMA NoRunKeepsFits ==
  ASSUME Inv, Fits, NEW t \in Tools, Defer(t) \/ Refuse(t)
  PROVE  Fits'
<1>1. Len(runs) = 0 /\ tool = NoTool BY DEF Defer, Refuse, Inv, Shape
<1>2. /\ tool' = t /\ answer' \in {"error", "deferred"}
      /\ UNCHANGED <<runs, orders, received, stray, read, stored>>
  BY DEF Defer, Refuse, NoRun
<1>3. Calls' BY <1>1, <1>2, ToolCallsAssumption DEF Calls
<1>4. Histories' BY <1>2 DEF Fits, Histories
<1>5. Shown' BY <1>1, <1>2 DEF Fits, Shown
<1> QED BY <1>1, <1>2, <1>3, <1>4, <1>5 DEF Fits

(* What is begun is what the tool may do, and owes all of its changes.     *)
LEMMA CallKeepsFits ==
  ASSUME Inv, Fits, NEW t \in Tools, Call(t)
  PROVE  Fits'
<1> DEFINE R == ReadsOf(t)
           W == WritesOf(t)
           Begun(i) == IF i <= ChunkSize THEN "running" ELSE "waiting"
<1>1. PICK plan \in Plans(t), n \in 1 .. (IF t = "control_devices_bulk" THEN MaxRefs ELSE 1) :
        /\ runs' = [i \in 1 .. n |-> [todo |-> plan, out |-> Begun(i)]]
        /\ orders' = [i \in 1 .. n |-> ChangesOf(plan)]
        /\ received' = [i \in 1 .. n |-> << >>] /\ stray' = [i \in 1 .. n |-> << >>]
  BY DEF Call
<1>2. tool = NoTool /\ tool' = t /\ UNCHANGED <<results, answer, read, stored>> BY DEF Call
<1>3. plan \in Seq(Stages(R, W)) /\ Covered(plan)
  <2>1. PICK given \in Givens(t) : plan = toolHandlers(given)[t] BY DEF Plans
  <2>2. plan \in Good(R, W) BY <2>1, PlansAre
  <2> HIDE DEF R, W
  <2> QED BY <2>2, GoodIs
<1>4. ChangesOf(plan) \in Seq(W) /\ Owes(plan, ChangesOf(plan), 0)
  <2>1. R \in SUBSET Reads /\ W \in SUBSET Writes BY WritesOfIs
  <2> HIDE DEF R, W
  <2> QED BY <1>3, <2>1, ChangesAre
<1>5. n \in Nat /\ n <= MaxRefs /\ (t # "control_devices_bulk" => n <= 1)
  BY <1>1, ToolCallsAssumption
<1>6. Len(runs') = n BY <1>1, <1>5
<1>7. answer = "none" BY <1>2 DEF Fits, Calls
<1>8. Calls' BY <1>2, <1>5, <1>6, <1>7, ToolCallsAssumption DEF Calls
<1>9. Histories' BY <1>1, <1>6 DEF Histories
<1>10. Shown'
  <2>1. read \cap Lists = {} /\ stored \subseteq Lists BY <1>2 DEF Fits, Shown
  <2> QED BY <1>2, <1>7, <2>1 DEF Shown
<1> HIDE DEF R, W
<1>11. ASSUME NEW i \in 1 .. Len(runs') PROVE PlanFits(i)' /\ Ledger(i)'
  <2>1. /\ runs'[i].todo = plan /\ runs'[i].out \in {"running", "waiting"}
        /\ orders'[i] = ChangesOf(plan) /\ received'[i] = << >> /\ stray'[i] = << >>
    BY <1>1, <1>6, <1>11
  <2>2. PlanFits(i)' BY <1>2, <1>3, <2>1 DEF PlanFits, Over, R, W
  <2>3. Len(ChangesOf(plan)) \in Nat BY <1>4
  <2>4. << >> \in Seq(W) /\ Len(<< >>) = 0 OBVIOUS
  <2>5. /\ orders'[i] \in Seq(W) /\ received'[i] \in Seq(W) /\ stray'[i] \in Seq(W)
        /\ Len(received'[i]) = 0 /\ Len(stray'[i]) = 0 /\ Len(orders'[i]) \in Nat
        /\ Owes(runs'[i].todo, orders'[i], Len(received'[i]))
    BY <1>4, <2>1, <2>3, <2>4
  <2>6. /\ \A k \in 1 .. Len(received'[i]) : FALSE
        /\ \A k \in 1 .. Len(stray'[i]) : FALSE
    BY <2>5
  <2>7. Ledger(i)' BY <1>2, <2>1, <2>5, <2>6 DEF Ledger, W
  <2> QED BY <2>2, <2>7
<1> QED BY <1>8, <1>9, <1>10, <1>11 DEF Fits

(* The next chunk begins; its runs are as they were when they waited.      *)
LEMMA NextChunkKeepsFits ==
  ASSUME Inv, Fits, NextChunk
  PROVE  Fits'
<1>1. /\ Len(runs) \in Nat /\ DOMAIN runs = 1 .. Len(runs)
      /\ Len(results) \in Nat /\ Len(results) <= Len(runs) /\ ChunkSize \in Nat \ {0}
  BY LengthOf, ToolCallsAssumption DEF Inv, Shape
<1>2. /\ Cardinality(Chunk) = ChunkSize /\ Len(results) + ChunkSize < Len(runs)
  BY <1>1, ChunkIs DEF NextChunk
<1>3. Len(results') = Len(results) + ChunkSize
  BY <1>2, ReportIs DEF NextChunk
<1>4. runs' = [i \in 1 .. Len(runs) |->
                 IF i \in Len(results') + 1 .. Len(results') + ChunkSize
                 THEN [runs[i] EXCEPT !.out = "running"] ELSE runs[i]]
  BY <1>1 DEF NextChunk
<1>5. Len(runs') = Len(runs) BY <1>1, <1>4
<1>6. \A i \in 1 .. Len(runs) :
        [runs[i] EXCEPT !.out = "running"] = [todo |-> runs[i].todo, out |-> "running"]
  BY DEF Inv, Shape
<1>7. \A i \in 1 .. Len(runs) :
        /\ runs'[i].todo = runs[i].todo
        /\ \/ runs'[i].out = runs[i].out
           \/ runs[i].out = "waiting" /\ runs'[i].out = "running"
  <2> SUFFICES ASSUME NEW i \in 1 .. Len(runs)
               PROVE  /\ runs'[i].todo = runs[i].todo
                      /\ \/ runs'[i].out = runs[i].out
                         \/ runs[i].out = "waiting" /\ runs'[i].out = "running"
    OBVIOUS
  <2>1. CASE i \in Len(results') + 1 .. Len(results') + ChunkSize
    <3>1. runs'[i] = [todo |-> runs[i].todo, out |-> "running"] BY <1>4, <1>6, <2>1
    <3>2. runs[i].out = "waiting" BY <1>1, <1>3, <2>1 DEF Inv, Progress
    <3> QED BY <3>1, <3>2
  <2>2. CASE i \notin Len(results') + 1 .. Len(results') + ChunkSize BY <1>4, <2>2
  <2> QED BY <2>1, <2>2
<1>8. UNCHANGED <<tool, answer, orders, received, stray, read, stored>> BY DEF NextChunk
<1>9. answer = "none"
  <2>1. Len(results) + ChunkSize + 1 \in 1 .. Len(runs) BY <1>1, <1>2
  <2>2. runs[Len(results) + ChunkSize + 1].out = "waiting" BY <1>1, <2>1 DEF Inv, Progress
  <2> QED BY <2>1, <2>2 DEF Fits, Calls, Over
<1>10. Calls' BY <1>5, <1>8, <1>9 DEF Fits, Calls
<1>11. Histories' BY <1>5, <1>8 DEF Fits, Histories
<1>12. Shown' BY <1>5, <1>7, <1>8 DEF Fits, Shown
<1>13. ASSUME NEW i \in 1 .. Len(runs') PROVE PlanFits(i)' /\ Ledger(i)'
  <2>1. PlanFits(i) /\ Ledger(i) /\ i \in 1 .. Len(runs) BY <1>5, <1>13 DEF Fits
  <2>2. /\ runs'[i].todo = runs[i].todo
        /\ \/ runs'[i].out = runs[i].out
           \/ runs[i].out = "waiting" /\ runs'[i].out = "running"
    BY <1>7, <2>1
  <2>3. PlanFits(i)' BY <1>8, <2>1, <2>2 DEF PlanFits, Over
  <2>4. runs'[i].out # "failed" => runs[i].out # "failed" BY <2>2
  <2>5. Ledger(i)' BY <1>8, <2>1, <2>2, <2>4 DEF Ledger
  <2> QED BY <2>3, <2>5
<1> QED BY <1>10, <1>11, <1>12, <1>13 DEF Fits

(* A call with one run is answered with what became of it, and a run that  *)
(* has succeeded has nothing left to store.                                *)
LEMMA AnswerKeepsFits ==
  ASSUME Inv, Fits, Answer
  PROVE  Fits'
<1>1. /\ Len(runs) \in Nat /\ DOMAIN runs = 1 .. Len(runs)
      /\ Len(results) \in Nat /\ Len(results) <= Len(runs) /\ ChunkSize \in Nat \ {0}
      /\ results \in Seq(Over)
  BY LengthOf, ToolCallsAssumption DEF Inv, Shape
<1>2. /\ UNCHANGED <<tool, runs, orders, received, stray, read, stored>>
      /\ answer' \in {"ok", "error"} /\ Len(results) + Cardinality(Chunk) = Len(runs)
      /\ answer' = IF tool # "control_devices_bulk" /\ results' = <<"failed">> THEN "error" ELSE "ok"
  BY DEF Answer
<1>3. Chunk = Len(results) + 1 .. Len(runs) /\ Cardinality(Chunk) = Len(runs) - Len(results)
  BY <1>1, <1>2, ChunkIs
<1>4. \A i \in 1 .. Len(runs) : runs[i].out \in Over
  <2>1. \A i \in Chunk : runs[i].out \in Over BY DEF Answer, Settled, Over
  <2> QED BY <1>1, <1>3, <2>1 DEF Inv, Progress
<1>5. Len(runs) >= 1 /\ Len(results) < Len(runs)
  <2>1. Chunk # {} BY DEF Answer, Settled
  <2> QED BY <1>1, <1>3, <2>1
<1>6. tool # NoTool BY <1>5 DEF Inv, Shape
<1>7. Calls' BY <1>2, <1>4, <1>6 DEF Fits, Calls
<1>8. Histories' BY <1>2 DEF Fits, Histories
<1>9. ASSUME answer' = "ok" PROVE read \cap Lists \subseteq stored
  <2>1. CASE tool = "control_devices_bulk" BY <2>1 DEF Fits, Shown
  <2>2. CASE tool # "control_devices_bulk"
    <3>1. Len(runs) = 1 /\ Len(results) = 0 BY <1>1, <1>5, <2>2 DEF Fits, Calls
    <3>2. Cardinality(Chunk) = 1 BY <1>1, <1>3, <3>1
    <3> DEFINE report == [k \in 1 .. 1 |-> runs[k].out]
    <3>3. results' = results \o report
      <4>1. results' = results \o [k \in 1 .. Cardinality(Chunk) |-> runs[Len(results) + k].out]
        BY DEF Answer
      <4>2. [k \in 1 .. Cardinality(Chunk) |-> runs[Len(results) + k].out] = report
        BY <3>1, <3>2
      <4> QED BY <4>1, <4>2
    <3>4. results = << >> BY <1>1, <3>1
    <3>5. runs[1].out \in Over BY <1>4, <3>1
    <3>6. report = <<runs[1].out>> OBVIOUS
    <3>7. results' = <<runs[1].out>> 
      <4> HIDE DEF report
      <4>1. report \in Seq(Over) BY <3>5, <3>6
      <4> QED BY <3>3, <3>4, <3>6, <4>1
    <3>8. runs[1].out # "failed" BY <1>2, <1>9, <2>2, <3>7
    <3>9. PlanFits(1) BY <3>1 DEF Fits
    <3>10. runs[1].todo = << >> BY <3>5, <3>9 DEF PlanFits
    <3>11. DOMAIN runs[1].todo = {} BY <3>10
    <3>12. 1 .. Len(runs) = {1} BY <3>1
    <3>13. \A L \in read \cap Lists :
             \/ L \in stored
             \/ \E i \in {1} : \/ runs[i].out = "failed"
                               \/ \E m \in DOMAIN runs[i].todo : Store(L) \in runs[i].todo[m]
      BY <3>12 DEF Fits, Shown
    <3> QED BY <3>8, <3>11, <3>13
  <2> QED BY <2>1, <2>2
<1>10. Shown' BY <1>2, <1>9 DEF Fits, Shown
<1>11. ASSUME NEW i \in 1 .. Len(runs') PROVE PlanFits(i)' /\ Ledger(i)'
  <2>1. PlanFits(i) /\ Ledger(i) BY <1>2, <1>11 DEF Fits
  <2> QED BY <1>2, <2>1 DEF PlanFits, Ledger
<1> QED BY <1>7, <1>8, <1>10, <1>11 DEF Fits

(* Every step of the system keeps the invariant.                           *)
LEMMA NextKeepsFits == Inv /\ Fits /\ [Next]_vars => Fits'
<1> SUFFICES ASSUME Inv, Fits, [Next]_vars PROVE Fits'
  OBVIOUS
<1>1. ASSUME NEW t \in Tools, Call(t) PROVE Fits' BY <1>1, CallKeepsFits
<1>2. ASSUME NEW t \in Tools, Defer(t) \/ Refuse(t) PROVE Fits' BY <1>2, NoRunKeepsFits
<1>3. ASSUME NEW i \in DOMAIN runs, External(i) PROVE Fits'
  BY <1>3, StepKeepsFits DEF External
<1>4. ASSUME NEW i \in DOMAIN runs, Arrive(i) PROVE Fits' BY <1>4, ArriveKeepsFits
<1>5. CASE Gateway
  BY <1>5, NextChunkKeepsFits, AnswerKeepsFits, StepKeepsFits DEF Gateway
<1>6. CASE UNCHANGED vars
  BY <1>6 DEF vars, Fits, Calls, Histories, Shown, PlanFits, Ledger
<1> QED BY <1>1, <1>2, <1>3, <1>4, <1>5, <1>6 DEF Next

(* Everything proved of a state of the system. *)
Holds == Inv /\ Fits
(* The invariant holds in every state of every behaviour.                  *)
LEMMA AlwaysHolds == Spec => []Holds
<1>1. Init => Holds BY InitInv, InitFits DEF Holds
<1>2. Holds /\ [Next]_vars => Holds' BY NextKeepsInv, NextKeepsFits DEF Holds
<1> QED BY <1>1, <1>2, PTL DEF Spec
-----------------------------------------------------------------------------
(***************************************************************************)
(* Theorems.                                                               *)
(***************************************************************************)
(* A bulk control, of however many devices, works on at most one chunk of  *)
(* them at a time, and every device before the chunk has its outcome.      *)
THEOREM OneChunk == Spec => []OneChunkAtATime
<1>1. Inv => OneChunkAtATime
  <2> SUFFICES ASSUME Inv PROVE OneChunkAtATime
    OBVIOUS
  <2>1. /\ Len(runs) \in Nat /\ DOMAIN runs = 1 .. Len(runs)
        /\ Len(results) \in Nat /\ ChunkSize \in Nat
    BY LengthOf, ToolCallsAssumption DEF Inv, Shape
  <2>2. {i \in DOMAIN runs : runs[i].out = "running"}
          \subseteq Len(results) + 1 .. Len(results) + ChunkSize
    BY <2>1 DEF Inv, Progress, Over
  <2>3. /\ IsFiniteSet(Len(results) + 1 .. Len(results) + ChunkSize)
        /\ Cardinality(Len(results) + 1 .. Len(results) + ChunkSize) = ChunkSize
    BY <2>1, SizeOf
  <2>4. Cardinality({i \in DOMAIN runs : runs[i].out = "running"}) <= ChunkSize
    BY <2>2, <2>3, FS_Subset
  <2>5. \A i \in DOMAIN runs : i <= Len(results) => runs[i].out \in Over
    BY <2>1 DEF Inv, Progress
  <2> QED BY <2>4, <2>5 DEF OneChunkAtATime, Over
<1> QED BY <1>1, InitInv, NextKeepsInv, PTL DEF Spec

(* Every run has its outcome, its order and its changes, whatever the tool  *)
(* and however many the devices; no more took effect than was ordered.     *)
THEOREM TypeCorrect == Spec => []TypeOK
<1>1. Holds => TypeOK
  <2> SUFFICES ASSUME Holds PROVE TypeOK
    OBVIOUS
  <2>1. Len(runs) \in Nat /\ DOMAIN runs = 1 .. Len(runs) BY LengthOf DEF Holds, Inv, Shape
  <2>2. tool \in Tools \cup {NoTool} /\ answer \in {"none", "ok", "error", "deferred"}
    BY DEF Holds, Fits, Calls
  <2>3. (\A i \in DOMAIN runs : runs[i].out \in Outcomes) /\ Len(results) <= Len(runs)
    BY <2>1 DEF Holds, Inv, Shape
  <2>4. Len(runs) <= MaxRefs BY DEF Holds, Fits, Calls
  <2>5. DOMAIN orders = DOMAIN runs /\ DOMAIN received = DOMAIN runs /\ DOMAIN stray = DOMAIN runs
    BY <2>1 DEF Holds, Fits, Histories
  <2>6. \A i \in DOMAIN runs : Len(received[i]) + Len(stray[i]) <= Len(orders[i])
    BY <2>1 DEF Holds, Fits, Ledger
  <2>7. \A k \in DOMAIN results : results[k] \in {"success", "failed"}
    <3>1. results \in Seq(Over) BY DEF Holds, Inv, Shape
    <3> QED BY <3>1 DEF Over
  <2>8. stored \subseteq {listDevices, listLocations, listGroups}
    BY DEF Holds, Fits, Shown, Lists
  <2> QED BY <2>2, <2>3, <2>4, <2>5, <2>6, <2>7, <2>8 DEF TypeOK
<1> QED BY <1>1, AlwaysHolds, PTL

(* No tool announced as reading only changes anything, and none announced  *)
(* as destroying nothing deletes, whatever it is given.                    *)
THEOREM TrueHints == Spec => []HintsAreTrue
<1>1. Holds => HintsAreTrue
  <2> SUFFICES ASSUME Holds, NEW i \in DOMAIN received, NEW k \in DOMAIN received[i]
               PROVE  /\ "readOnly" \notin Hints(tool)
                      /\ "keeps" \in Hints(tool) => received[i][k].verb # "DELETE"
    BY DEF HintsAreTrue
  <2>1. DOMAIN received = 1 .. Len(runs) BY DEF Holds, Fits, Histories
  <2>2. received[i] \in Seq(WritesOf(tool)) BY <2>1 DEF Holds, Fits, Ledger
  <2>3. received[i][k] \in WritesOf(tool) BY <2>2
  <2>4. updateDevice.verb = "PATCH" BY DEF updateDevice, Request
  <2> QED BY <2>3, <2>4 DEF WritesOf
<1> QED BY <1>1, AlwaysHolds, PTL

(* The references in a successful answer were stored before it was given,  *)
(* for every inventory the handler of the tool has read.                   *)
THEOREM StoredReferences == Spec => []ShownReferencesAreStored
<1>1. Holds => ShownReferencesAreStored
  BY DEF Holds, Fits, Shown, Lists, ShownReferencesAreStored
<1> QED BY <1>1, AlwaysHolds, PTL
-----------------------------------------------------------------------------
(***************************************************************************)
(* The promise of Delivery, step by step.                                  *)
(***************************************************************************)
(* What is promised of a state.                                            *)
LEMMA StandsAt ==
  ASSUME Holds
  PROVE  /\ Len(runs) \in Nat /\ DOMAIN runs = 1 .. Len(runs)
         /\ DOMAIN orders = 1 .. Len(runs) /\ DOMAIN received = 1 .. Len(runs)
         /\ DOMAIN stray = 1 .. Len(runs)
         /\ Len(results) \in Nat /\ DOMAIN results = 1 .. Len(results)
         /\ \A i \in 1 .. Len(runs) :
              /\ i <= Len(results) => Verdict(i) = results[i] /\ results[i] \in Over
              /\ Len(results) < i =>
                   Verdict(i) = IF runs[i].out \in Over THEN runs[i].out ELSE "open"
              /\ runs[i].out \notin Over => Len(results) < i /\ Verdict(i) = "open"
<1>1. Len(runs) \in Nat /\ DOMAIN runs = 1 .. Len(runs) BY LengthOf DEF Holds, Inv, Shape
<1>2. /\ DOMAIN orders = 1 .. Len(runs) /\ DOMAIN received = 1 .. Len(runs)
      /\ DOMAIN stray = 1 .. Len(runs)
  BY DEF Holds, Fits, Histories
<1>3. results \in Seq(Over) BY DEF Holds, Inv, Shape
<1>4. /\ Len(results) \in Nat /\ DOMAIN results = 1 .. Len(results)
      /\ \A i \in 1 .. Len(results) : results[i] \in Over
  BY <1>3
<1>5. ASSUME NEW i \in 1 .. Len(runs)
      PROVE  /\ i <= Len(results) => Verdict(i) = results[i] /\ results[i] \in Over
             /\ Len(results) < i =>
                  Verdict(i) = IF runs[i].out \in Over THEN runs[i].out ELSE "open"
             /\ runs[i].out \notin Over => Len(results) < i /\ Verdict(i) = "open"
  <2>1. i <= Len(results) <=> i \in DOMAIN results BY <1>1, <1>4
  <2>2. i <= Len(results) => runs[i].out \in Over BY DEF Holds, Inv, Progress
  <2> QED BY <1>1, <1>4, <2>1, <2>2 DEF Verdict, Over
<1> QED BY <1>1, <1>2, <1>4, <1>5

(* A run that has succeeded owes nothing: all its changes took effect.     *)
SuccessesAreComplete ==
  \A i \in 1 .. Len(runs) : runs[i].out = "success" => received[i] = orders[i]

LEMMA SuccessIsComplete == Holds => SuccessesAreComplete
<1> SUFFICES ASSUME Holds, NEW i \in 1 .. Len(runs), runs[i].out = "success"
             PROVE  received[i] = orders[i]
  BY DEF SuccessesAreComplete
<1>1. PlanFits(i) /\ Ledger(i) BY DEF Holds, Fits
<1>2. runs[i].todo = << >> BY <1>1 DEF PlanFits, Over
<1>3. /\ Owes(<< >>, orders[i], Len(received[i]))
      /\ orders[i] \in Seq(WritesOf(tool)) /\ received[i] \in Seq(WritesOf(tool))
      /\ Len(received[i]) + Len(stray[i]) <= Len(orders[i]) /\ stray[i] = << >>
      /\ \A k \in 1 .. Len(received[i]) : received[i][k] = orders[i][k]
  BY <1>1, <1>2 DEF Ledger
<1>4. Len(received[i]) \in Nat BY <1>3
<1>5. Len(orders[i]) \in Nat BY <1>3
<1>6. Len(stray[i]) = 0 BY <1>3
<1>7. PICK at : at \in [Len(received[i]) + 1 .. Len(orders[i]) -> DOMAIN << >>]
  BY <1>3 DEF Owes
<1>8. ~(Len(received[i]) + 1 \in Len(received[i]) + 1 .. Len(orders[i]))
  <2>1. \A x : x \notin DOMAIN << >> OBVIOUS
  <2> QED BY <1>7, <2>1
<1>9. Len(received[i]) = Len(orders[i]) BY <1>3, <1>4, <1>5, <1>6, <1>8
<1> QED BY <1>3, <1>4, <1>5, <1>9

(* A call without a run is answered at once.                               *)
LEMMA NoRunIsAnswer ==
  ASSUME Holds, NEW t \in Tools, Defer(t) \/ Refuse(t)
  PROVE  Promise!Answer
<1>1. Len(runs) = 0 /\ tool = NoTool BY DEF Defer, Refuse, Holds, Inv, Shape
<1>2. answer = "none" BY <1>1 DEF Holds, Fits, Calls
<1>3. /\ answer' # "none" /\ UNCHANGED <<runs, results, orders, received, stray>>
  BY DEF Defer, Refuse, NoRun
<1>4. DOMAIN runs = {} BY <1>1, StandsAt
<1>5. [i \in DOMAIN runs |-> Verdict(i)]' = [i \in DOMAIN runs |-> Verdict(i)]
  BY <1>3 DEF Verdict
<1>6. [i \in DOMAIN runs |-> stray[i] # << >>]' = [i \in DOMAIN runs |-> stray[i] # << >>]
  BY <1>3
<1> QED BY <1>2, <1>3, <1>4, <1>5, <1>6 DEF Promise!Answer

(* A call with a plan is accepted, with no verdict on any of its runs.     *)
LEMMA CallIsAccept ==
  ASSUME Holds, Holds', NEW t \in Tools, Call(t)
  PROVE  Promise!Accept
<1>1. PICK plan \in Plans(t), n \in 1 .. (IF t = "control_devices_bulk" THEN MaxRefs ELSE 1) :
        /\ runs' = [i \in 1 .. n |->
                      [todo |-> plan, out |-> IF i <= ChunkSize THEN "running" ELSE "waiting"]]
        /\ orders' = [i \in 1 .. n |-> ChangesOf(plan)]
        /\ received' = [i \in 1 .. n |-> << >>] /\ stray' = [i \in 1 .. n |-> << >>]
  BY DEF Call
<1>2. tool = NoTool /\ UNCHANGED <<results, answer>> BY DEF Call
<1>3. n \in Nat /\ n >= 1 BY <1>1, ToolCallsAssumption
<1>4. Len(runs') = n /\ DOMAIN runs' = 1 .. n BY <1>1, <1>3
<1>5. answer = "none" BY <1>2 DEF Holds, Fits, Calls
<1>6. orders = << >>
  <2>1. Len(runs) = 0 BY <1>2 DEF Holds, Inv, Shape
  <2>2. orders = [i \in 1 .. Len(runs) |-> orders[i]] BY DEF Holds, Fits, Histories
  <2> QED BY <2>1, <2>2
<1>7. orders' # << >>
  <2>1. 1 \in DOMAIN orders' BY <1>1, <1>3
  <2> QED BY <2>1
<1>8. DOMAIN orders' = 1 .. n BY <1>1
<1>9. \A i \in 1 .. n : runs'[i].out \notin Over BY <1>1 DEF Over
<1>10. \A i \in 1 .. n : Verdict(i)' = "open"
  <2>1. Len(results) = 0
    <3>1. Len(results) \in Nat /\ Len(results) <= Len(runs) /\ Len(runs) = 0
      BY <1>2, StandsAt DEF Holds, Inv, Shape
    <3> QED BY <3>1
  <2>2. \A i : i \notin DOMAIN results' BY <1>2, <2>1, StandsAt
  <2> QED BY <1>9, <2>2 DEF Verdict, Over
<1>11. [i \in DOMAIN runs |-> Verdict(i)]' = [i \in DOMAIN orders' |-> "open"]
  BY <1>4, <1>8, <1>10
<1>12. [i \in DOMAIN runs |-> stray[i] # << >>]' = [i \in DOMAIN orders' |-> FALSE]
  BY <1>1, <1>4, <1>8
<1>13. received' = [i \in DOMAIN orders' |-> << >>] BY <1>1, <1>8
<1> QED BY <1>2, <1>5, <1>6, <1>7, <1>11, <1>12, <1>13 DEF Promise!Accept

(* The step of a run that gets on, or fails.                               *)
LEMMA StepIsPromised ==
  ASSUME Holds, Holds', NEW i \in DOMAIN runs, NEW s \in Open(i),
         Respond(i, s) \/ Miss(i, s) \/ Remember(i, s) \/ Lookup(i, s)
  PROVE  Promise!Advance(i) \/ Promise!Fail(i)
<1>0. SuccessesAreComplete' BY SuccessIsComplete, PTL
<1>1. /\ Len(runs) \in Nat /\ DOMAIN runs = 1 .. Len(runs) /\ i \in 1 .. Len(runs)
      /\ DOMAIN orders = 1 .. Len(runs) /\ DOMAIN received = 1 .. Len(runs)
      /\ DOMAIN stray = 1 .. Len(runs)
  BY StandsAt
<1>2. Keeps(i) BY RespondKeeps, MissKeeps, StoringKeeps DEF Holds
<1>3. UNCHANGED <<tool, answer, orders, results>> BY <1>2 DEF Keeps
<1>4. Len(runs') = Len(runs) /\ \A j \in 1 .. Len(runs) : j # i => runs'[j] = runs[j]
  BY <1>2, KeepsRuns DEF Holds
<1>5. DOMAIN runs' = 1 .. Len(runs)
  <2>1. PICK todo, out : runs' = [runs EXCEPT ![i] = [todo |-> todo, out |-> out]]
    BY <1>2 DEF Keeps
  <2> QED BY <1>1, <2>1
<1> DEFINE V == [j \in DOMAIN runs |-> Verdict(j)]
           S == [j \in DOMAIN runs |-> stray[j] # << >>]
<1>6. \A j \in 1 .. Len(runs) : j # i => Verdict(j)' = Verdict(j) BY <1>3, <1>4 DEF Verdict
<1>7. runs[i].out = "running" /\ answer = "none" /\ stray[i] = << >> BY OpenIs DEF Holds
<1>8. i \notin DOMAIN results /\ Verdict(i) = "open"
  <2>1. Len(results) < i /\ Verdict(i) = "open" BY <1>1, <1>7, StandsAt DEF Over
  <2> QED BY <2>1, StandsAt
<1>9. Verdict(i)' = IF runs'[i].out \in Over THEN runs'[i].out ELSE "open"
  BY <1>3, <1>8 DEF Verdict, Over
<1>10. V' = [V EXCEPT ![i] = Verdict(i)'] BY <1>1, <1>5, <1>6
<1>11. V[i] = "open" BY <1>1, <1>8
<1>12. orders' = orders /\ (answer # "none")' = (answer # "none") BY <1>3
<1>13. CASE Done(i, s) /\ UNCHANGED stray /\ (UNCHANGED received \/ Respond(i, s))
  <2>1. runs'[i].out \in {"running", "success"} BY <1>3, <1>13, DoneIs DEF Holds
  <2>2. S' = S BY <1>1, <1>5, <1>13
  <2>3. \/ V' = V
        \/ Promise!Complete(i)' /\ V' = [V EXCEPT ![i] = "success"]
    <3>1. CASE runs'[i].out = "running"
      <4>1. Verdict(i)' = V[i] BY <1>9, <1>11, <3>1 DEF Over
      <4> QED BY <1>1, <1>10, <4>1
    <3>2. CASE runs'[i].out = "success"
      <4>1. Verdict(i)' = "success" BY <1>9, <3>2 DEF Over
      <4>2. received'[i] = orders'[i] BY <1>0, <1>1, <1>4, <3>2 DEF SuccessesAreComplete
      <4> QED BY <1>10, <4>1, <4>2 DEF Promise!Complete
    <3> QED BY <2>1, <3>1, <3>2
  <2>4. Promise!NextReceived(i) \/ UNCHANGED received
    <3>1. CASE UNCHANGED received BY <3>1
    <3>2. CASE Respond(i, s) /\ ~UNCHANGED received
      <4>1. Changes(s.request) /\ received' = [received EXCEPT ![i] = Append(received[i], s.request)]
        BY <3>2 DEF Respond
      <4>2. /\ Len(received[i]) < Len(orders[i]) /\ orders[i][Len(received[i]) + 1] = s.request
            /\ Len(received[i]) \in 0 .. Len(orders[i])
        BY <4>1, LedgerIs DEF Holds
      <4>3. received[i] # orders[i] BY <4>2
      <4> QED BY <4>1, <4>2, <4>3 DEF Promise!NextReceived, Promise!Complete
    <3> QED BY <1>13, <3>1, <3>2
  <2> HIDE DEF V, S
  <2>5. Promise!Advance(i) BY <1>11, <1>12, <2>2, <2>3, <2>4 DEF Promise!Advance, V, S
  <2> QED BY <2>5
<1>14. CASE /\ Failed(i) /\ UNCHANGED received
            /\ \/ UNCHANGED stray
               \/ Changes(s.request) /\ stray' = [stray EXCEPT ![i] = <<s.request>>]
  <2>1. runs'[i].out = "failed" BY <1>3, <1>14, FailedIs DEF Holds
  <2>2. V' = [V EXCEPT ![i] = "failed"] BY <1>9, <1>10, <2>1 DEF Over
  <2>3. UNCHANGED S \/ (~Promise!Complete(i) /\ S' = [S EXCEPT ![i] = TRUE])
    <3>1. CASE UNCHANGED stray BY <1>1, <1>5, <3>1
    <3>2. CASE Changes(s.request) /\ stray' = [stray EXCEPT ![i] = <<s.request>>]
      <4>1. S' = [S EXCEPT ![i] = TRUE] BY <1>1, <1>5, <3>2
      <4>2. Len(received[i]) < Len(orders[i]) /\ Len(received[i]) \in 0 .. Len(orders[i])
        BY <3>2, LedgerIs DEF Holds
      <4>3. received[i] # orders[i] BY <4>2
      <4> QED BY <4>1, <4>3 DEF Promise!Complete
    <3> QED BY <1>14, <3>1, <3>2
  <2> HIDE DEF V, S
  <2>4. Promise!Fail(i) BY <1>11, <1>12, <1>14, <2>2, <2>3 DEF Promise!Fail, V, S
  <2> QED BY <2>4
<1>15. CASE Respond(i, s) BY <1>13, <1>15 DEF Respond
<1>16. CASE Miss(i, s)
  <2>1. CASE s.kind = "may"
    <3>1. ~Changes(s.request) BY <2>1, LedgerIs DEF Holds
    <3> QED BY <1>13, <1>16, <2>1, <3>1 DEF Miss
  <2>2. CASE s.kind # "may" BY <1>14, <1>16, <2>2 DEF Miss
  <2> QED BY <2>1, <2>2
<1>17. CASE Remember(i, s) BY <1>13, <1>17 DEF Remember
<1>18. CASE Lookup(i, s) BY <1>13, <1>14, <1>18 DEF Lookup
<1> QED BY <1>15, <1>16, <1>17, <1>18

(* What arrives late is the change that comes next.                        *)
LEMMA ArriveIsPromised ==
  ASSUME Holds, NEW i \in DOMAIN runs, Arrive(i)
  PROVE  Promise!Arrive(i)
<1>1. /\ DOMAIN runs = 1 .. Len(runs) /\ i \in 1 .. Len(runs)
      /\ DOMAIN stray = 1 .. Len(runs) /\ DOMAIN received = 1 .. Len(runs)
  BY StandsAt
<1>2. /\ stray[i] # << >> /\ stray' = [stray EXCEPT ![i] = << >>]
      /\ received' = [received EXCEPT ![i] = received[i] \o stray[i]]
      /\ UNCHANGED <<runs, results, answer, orders>>
  BY DEF Arrive
<1> DEFINE p == received[i]
           q == stray[i]
           order == orders[i]
<1>3. /\ p \in Seq(WritesOf(tool)) /\ q \in Seq(WritesOf(tool)) /\ order \in Seq(WritesOf(tool))
      /\ Len(q) <= 1 /\ Len(p) + Len(q) <= Len(order) /\ q # << >>
      /\ \A k \in 1 .. Len(q) : q[k] = order[Len(p) + k]
  BY <1>1, <1>2 DEF Holds, Fits, Ledger
<1> HIDE DEF p, q, order
<1>4. Len(p) \in Nat BY <1>3
<1>5. Len(order) \in Nat BY <1>3
<1>6. Len(q) = 1
  <2>1. Len(q) \in Nat BY <1>3
  <2>2. Len(q) # 0 BY <1>3
  <2>3. Len(q) <= 1 BY <1>3
  <2> QED BY <2>1, <2>2, <2>3
<1>7. q = <<q[1]>> BY <1>3, <1>6
<1>8. q[1] = order[Len(p) + 1] BY <1>3, <1>6
<1>9. p \o q = Append(p, q[1])
  <2>1. q[1] \in WritesOf(tool) BY <1>3, <1>6
  <2>2. Append(p, q[1]) = p \o <<q[1]>> BY <1>3, <2>1
  <2> QED BY <1>7, <2>2
<1>10. p # order BY <1>3, <1>4, <1>5, <1>6
<1>11. Promise!NextReceived(i)
  BY <1>2, <1>8, <1>9, <1>10 DEF Promise!NextReceived, Promise!Complete, p, q, order
<1>12. [j \in DOMAIN runs |-> Verdict(j)]' = [j \in DOMAIN runs |-> Verdict(j)]
  BY <1>2 DEF Verdict
<1> DEFINE S == [j \in DOMAIN runs |-> stray[j] # << >>]
<1>13. S' = [S EXCEPT ![i] = FALSE] BY <1>1, <1>2
<1>14. S[i] BY <1>1, <1>2
<1> HIDE DEF S
<1> QED BY <1>2, <1>11, <1>12, <1>13, <1>14 DEF Promise!Arrive, S

(* Reporting a chunk changes no verdict: the results say what became of it. *)
LEMMA ReportKeepsVerdicts ==
  ASSUME Holds, Settled,
         results' = results \o [k \in 1 .. Cardinality(Chunk) |-> runs[Len(results) + k].out],
         DOMAIN runs' = DOMAIN runs,
         \A i \in DOMAIN runs :
           runs'[i].out = runs[i].out \/ {runs[i].out, runs'[i].out} \cap Over = {}
  PROVE  [j \in DOMAIN runs |-> Verdict(j)]' = [j \in DOMAIN runs |-> Verdict(j)]
<1>1. /\ Len(runs) \in Nat /\ DOMAIN runs = 1 .. Len(runs)
      /\ Len(results) \in Nat /\ Len(results) <= Len(runs)
      /\ ChunkSize \in Nat \ {0} /\ results \in Seq(Over) /\ DOMAIN results = 1 .. Len(results)
  BY StandsAt, ToolCallsAssumption DEF Holds, Inv, Shape
<1>2. Cardinality(Chunk) \in Nat /\ Len(results) + Cardinality(Chunk) <= Len(runs)
  BY <1>1, ChunkIs DEF Holds
<1>3. Chunk = Len(results) + 1 .. Len(results) + Cardinality(Chunk)
  BY <1>1, ChunkIs DEF Holds
<1> DEFINE c == Cardinality(Chunk)
           new == [k \in 1 .. c |-> runs[Len(results) + k].out]
<1>4. \A k \in 1 .. c : runs[Len(results) + k].out \in Over
  <2>1. \A k \in 1 .. c : Len(results) + k \in Chunk BY <1>1, <1>2, <1>3
  <2> QED BY <2>1 DEF Settled, Over
<1>5. new \in Seq(Over) /\ Len(new) = c BY <1>2, <1>4
<1>6. results' = results \o new OBVIOUS
<1>7. \A k \in 1 .. c : new[k] = runs[Len(results) + k].out OBVIOUS
<1> HIDE DEF c, new
<1>8. /\ DOMAIN results' = 1 .. Len(results) + c
      /\ \A k \in 1 .. Len(results) : results'[k] = results[k]
      /\ \A k \in 1 .. c : results'[Len(results) + k] = runs[Len(results) + k].out
  <2>2. results \in Seq(Over) /\ new \in Seq(Over) BY <1>1, <1>5
  <2>1. /\ DOMAIN (results \o new) = 1 .. Len(results) + Len(new)
        /\ \A k \in 1 .. Len(results) : (results \o new)[k] = results[k]
        /\ \A k \in 1 .. Len(new) : (results \o new)[Len(results) + k] = new[k]
    BY ONLY <2>2, CatIs
  <2> QED BY <1>5, <1>6, <1>7, <2>1
<1>9. c \in Nat BY <1>2 DEF c
<1>10. ASSUME NEW j \in DOMAIN runs PROVE Verdict(j)' = Verdict(j)
  <2>4. j \in Nat /\ j >= 1 BY <1>1, <1>10
  <2>5. \A k \in Nat : k >= 1 => (k \in DOMAIN results' <=> k <= Len(results) + c)
    <3>1. \A k \in Nat : k >= 1 => (k \in 1 .. Len(results) + c <=> k <= Len(results) + c)
      BY <1>1, <1>9
    <3> QED BY <1>8, <3>1
  <2>1. CASE j \in 1 .. Len(results)
    <3>1. j \in DOMAIN results'
      <4>1. j <= Len(results) + c BY <1>1, <1>9, <2>1
      <4> QED BY <2>4, <2>5, <4>1
    <3> QED BY <1>1, <1>8, <2>1, <3>1 DEF Verdict
  <2>2. CASE j \in Len(results) + 1 .. Len(results) + c
    <3>1. j - Len(results) \in 1 .. c /\ Len(results) + (j - Len(results)) = j
      BY <1>1, <1>9, <2>2
    <3>2. results'[j] = runs[j].out /\ runs[j].out \in Over BY <1>4, <1>8, <3>1
    <3>3. j \in DOMAIN results' /\ j \notin DOMAIN results
      <4>1. j <= Len(results) + c /\ ~(j <= Len(results)) BY <1>1, <1>9, <2>2
      <4>2. j \notin DOMAIN results BY <1>1, <4>1
      <4> QED BY <2>4, <2>5, <4>1, <4>2
    <3> QED BY <3>2, <3>3 DEF Verdict, Over
  <2>3. CASE j > Len(results) + c
    <3>1. j \notin DOMAIN results' /\ j \notin DOMAIN results
      <4>1. ~(j <= Len(results) + c) /\ ~(j <= Len(results)) BY <1>1, <1>9, <2>3, <2>4
      <4>2. j \notin DOMAIN results BY <1>1, <4>1
      <4> QED BY <2>4, <2>5, <4>1, <4>2
    <3> QED BY <1>10, <3>1 DEF Verdict, Over
  <2> QED BY <1>1, <1>9, <2>1, <2>2, <2>3, <2>4
<1> QED BY <1>10

(* The next chunk is no concern of the client's.                           *)
LEMMA NextChunkIsStutter ==
  ASSUME Holds, NextChunk
  PROVE  UNCHANGED Promise!vars
<1>1. /\ Len(runs) \in Nat /\ DOMAIN runs = 1 .. Len(runs)
      /\ Len(results) \in Nat /\ Len(results) <= Len(runs) /\ ChunkSize \in Nat \ {0}
  BY StandsAt, ToolCallsAssumption DEF Holds, Inv, Shape
<1>2. Cardinality(Chunk) = ChunkSize /\ Len(results) + ChunkSize < Len(runs)
  BY <1>1, ChunkIs DEF NextChunk, Holds
<1>3. Len(results') = Len(results) + ChunkSize
  BY <1>2, ReportIs DEF NextChunk, Holds
<1>4. runs' = [i \in 1 .. Len(runs) |->
                 IF i \in Len(results') + 1 .. Len(results') + ChunkSize
                 THEN [runs[i] EXCEPT !.out = "running"] ELSE runs[i]]
  BY <1>1 DEF NextChunk
<1>5. \A i \in 1 .. Len(runs) :
        [runs[i] EXCEPT !.out = "running"] = [todo |-> runs[i].todo, out |-> "running"]
  BY DEF Holds, Inv, Shape
<1>6. ASSUME NEW i \in DOMAIN runs
      PROVE  runs'[i].out = runs[i].out \/ {runs[i].out, runs'[i].out} \cap Over = {}
  <2>1. CASE i \in Len(results') + 1 .. Len(results') + ChunkSize
    <3>1. runs'[i].out = "running" BY <1>1, <1>4, <1>5, <1>6, <2>1
    <3>2. runs[i].out = "waiting" BY <1>1, <1>3, <1>6, <2>1 DEF Holds, Inv, Progress
    <3> QED BY <3>1, <3>2 DEF Over
  <2>2. CASE i \notin Len(results') + 1 .. Len(results') + ChunkSize BY <1>1, <1>4, <1>6, <2>2
  <2> QED BY <2>1, <2>2
<1>7. DOMAIN runs' = DOMAIN runs BY <1>1, <1>4
<1>8. [j \in DOMAIN runs |-> Verdict(j)]' = [j \in DOMAIN runs |-> Verdict(j)]
  BY <1>6, <1>7, ReportKeepsVerdicts DEF NextChunk
<1>9. UNCHANGED <<answer, orders, received, stray>> BY DEF NextChunk
<1>10. [j \in DOMAIN runs |-> stray[j] # << >>]' = [j \in DOMAIN runs |-> stray[j] # << >>]
  BY <1>7, <1>9
<1> QED BY <1>8, <1>9, <1>10 DEF Promise!vars

(* A call is answered when there is a verdict on every run.                *)
LEMMA AnswerIsPromised ==
  ASSUME Holds, Answer
  PROVE  Promise!Answer
<1>1. /\ answer = "none" /\ answer' # "none" /\ UNCHANGED <<runs, orders, received, stray>>
      /\ Settled
  BY DEF Answer
<1>2. [j \in DOMAIN runs |-> Verdict(j)]' = [j \in DOMAIN runs |-> Verdict(j)]
  BY <1>1, ReportKeepsVerdicts DEF Answer
<1>3. /\ Len(runs) \in Nat /\ DOMAIN runs = 1 .. Len(runs) /\ DOMAIN results = 1 .. Len(results)
      /\ Len(results) \in Nat /\ Len(results) <= Len(runs) /\ ChunkSize \in Nat \ {0}
  BY StandsAt, ToolCallsAssumption DEF Holds, Inv, Shape
<1>4. Chunk = Len(results) + 1 .. Len(runs) BY <1>3, ChunkIs DEF Answer, Holds
<1>5. ASSUME NEW i \in DOMAIN runs PROVE Verdict(i) # "open"
  <2>1. CASE i <= Len(results)
    <3>1. Verdict(i) = results[i] /\ results[i] \in Over BY <1>3, <1>5, <2>1, StandsAt
    <3> QED BY <3>1 DEF Over
  <2>2. CASE Len(results) < i
    <3>1. runs[i].out \in Over BY <1>1, <1>3, <1>4, <1>5, <2>2 DEF Settled, Over
    <3>2. Verdict(i) = runs[i].out BY <1>3, <1>5, <2>2, <3>1, StandsAt
    <3> QED BY <3>1, <3>2 DEF Over
  <2> QED BY <1>3, <1>5, <2>1, <2>2
<1>6. [j \in DOMAIN runs |-> stray[j] # << >>]' = [j \in DOMAIN runs |-> stray[j] # << >>]
  BY <1>1
<1> QED BY <1>1, <1>2, <1>5, <1>6 DEF Promise!Answer

(* Every step is one of the promise's, or a stutter.                       *)
LEMMA NextIsPromised ==
  Holds /\ Holds' /\ [Next]_vars => [Promise!Next]_(Promise!vars)
<1> SUFFICES ASSUME Holds, Holds', [Next]_vars
             PROVE  Promise!Next \/ UNCHANGED Promise!vars
  OBVIOUS
<1>1. ASSUME NEW t \in Tools, Call(t) PROVE Promise!Next
  BY <1>1, CallIsAccept DEF Promise!Next
<1>2. ASSUME NEW t \in Tools, Defer(t) \/ Refuse(t) PROVE Promise!Next
  BY <1>2, NoRunIsAnswer DEF Promise!Next
<1>3. ASSUME NEW i \in DOMAIN runs, NEW s \in Open(i),
             Respond(i, s) \/ Miss(i, s) \/ Remember(i, s) \/ Lookup(i, s)
      PROVE  Promise!Next
  <2>1. Promise!Advance(i) \/ Promise!Fail(i) BY <1>3, StepIsPromised
  <2> QED BY <2>1 DEF Promise!Next
<1>4. ASSUME NEW i \in DOMAIN runs, Arrive(i) PROVE Promise!Next
  <2>1. Promise!Arrive(i) BY <1>4, ArriveIsPromised
  <2> QED BY <2>1 DEF Promise!Next
<1>5. CASE NextChunk BY <1>5, NextChunkIsStutter
<1>6. CASE Answer BY <1>6, AnswerIsPromised DEF Promise!Next
<1>7. CASE UNCHANGED vars BY <1>7 DEF vars, Promise!vars, Verdict
<1> QED BY <1>1, <1>2, <1>3, <1>4, <1>5, <1>6, <1>7 DEF Next, External, Gateway

(* Whatever the cloud refuses, loses or does late, the changes of a call   *)
(* take effect in their order, none left out on the way; a run that is     *)
(* reported as a success made all of them, and every device of a bulk      *)
(* control is reported, in its place, with what became of it.              *)
THEOREM Delivers == Spec => ImplementsDelivery
<1>1. Init => Promise!Init
  <2> SUFFICES ASSUME Init PROVE Promise!Init
    OBVIOUS
  <2>1. DOMAIN runs = {} /\ answer = "none" /\ orders = << >> /\ received = << >> BY DEF Init
  <2>2. [j \in DOMAIN runs |-> Verdict(j)] = << >> /\ [j \in DOMAIN runs |-> stray[j] # << >>] = << >>
    BY <2>1
  <2> QED BY <2>1, <2>2 DEF Promise!Init
<1>2. Holds /\ Holds' /\ [Next]_vars => [Promise!Next]_(Promise!vars) BY NextIsPromised
<1> QED BY <1>1, <1>2, AlwaysHolds, PTL DEF Spec, ImplementsDelivery, Promise!Spec
=================================================================================
