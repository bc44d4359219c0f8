------------------------- MODULE DeviceReferences_proofs -------------------------
(***************************************************************************)
(* Proofs about DeviceReferences, for any number of devices, calls and     *)
(* changes, and whatever the names.  First what assignRefs returns for an  *)
(* inventory, then that a tool acts only where its reference has pointed.  *)
(***************************************************************************)
EXTENDS DeviceReferences, TLAPS, FiniteSetTheorems

Inventories == [Devices -> BaseRefs \cup {Absent}]

(* The devices of d's name up to d.                                        *)
Alike(inv, d) == {e \in Present(inv) : inv[e] = inv[d] /\ e <= d}

(***************************************************************************)
(* References are sequences of a word and numbers.                         *)
(***************************************************************************)
LEMMA BaseRefsAre ==
  ASSUME NEW base \in BaseRefs
  PROVE  /\ base \in Seq(Words \cup Nat) /\ base # << >>
         /\ Head(base) \in Words /\ <<Head(base)>> \in BaseRefs
<1>1. CASE base \in {<<w>> : w \in Words}
  <2>1. PICK w \in Words : base = <<w>> BY <1>1
  <2> QED BY <2>1 DEF BaseRefs
<1>2. CASE base \in {<<w, n>> : w \in Words \ LongWords, n \in Numbers}
  <2>1. PICK w \in Words, n \in Nat : base = <<w, n>> BY <1>2, ReferencesAssumption
  <2>2. Head(base) = w BY <2>1
  <2> QED BY <2>1, <2>2 DEF BaseRefs
<1> QED BY <1>1, <1>2 DEF BaseRefs

LEMMA NumberedRefsAre ==
  ASSUME NEW base \in Seq(Words \cup Nat), base # << >>, NEW n \in Nat
  PROVE  /\ WithNumber(base, n) \in Seq(Words \cup Nat) /\ WithNumber(base, n) # << >>
         /\ Head(WithNumber(base, n)) = Head(base)
         /\ Len(WithNumber(base, n)) = Len(base) + (IF n = 1 THEN 0 ELSE 1)
BY DEF WithNumber

(* A number can be told from the word or from another number.              *)
LEMMA NumbersDiffer ==
  ASSUME NEW base \in Seq(Words \cup Nat), NEW n \in Nat, NEW m \in Nat,
         WithNumber(base, n) = WithNumber(base, m)
  PROVE  n = m
<1>1. CASE n = 1 /\ m # 1 BY <1>1 DEF WithNumber
<1>2. CASE n # 1 /\ m = 1 BY <1>2 DEF WithNumber
<1>3. CASE n # 1 /\ m # 1
  <2>1. Append(base, n)[Len(base) + 1] = n /\ Append(base, m)[Len(base) + 1] = m OBVIOUS
  <2> QED BY <1>3, <2>1 DEF WithNumber
<1> QED BY <1>1, <1>2, <1>3

LEMMA NamesDiffer ==
  ASSUME NEW base \in Seq(Words \cup Nat), NEW other \in Seq(Words \cup Nat),
         NEW n \in Nat \ {1}, NEW m \in Nat \ {1}, WithNumber(base, n) = WithNumber(other, m)
  PROVE  base = other
<1>1. Append(base, n) = Append(other, m) BY DEF WithNumber
<1>2. Len(base) = Len(other)
  <2>1. Len(Append(base, n)) = Len(base) + 1 /\ Len(Append(other, m)) = Len(other) + 1 OBVIOUS
  <2> QED BY <1>1, <2>1
<1>3. \A i \in 1 .. Len(base) : base[i] = Append(base, n)[i] OBVIOUS
<1>4. \A i \in 1 .. Len(other) : other[i] = Append(other, m)[i] OBVIOUS
<1>5. \A i \in 1 .. Len(base) : base[i] = other[i] BY <1>1, <1>2, <1>3, <1>4
<1> QED BY <1>2, <1>5

(* The reference that is looked up is one that can be stored.              *)
LEMMA NormalizedIsRef == ASSUME NEW ref \in Refs PROVE Normalize(ref) \in Refs
<1>1. PICK base \in BaseRefs, n \in Devices : ref = WithNumber(base, n) BY DEF Refs
<1>2. n \in Nat /\ 1 \in Devices BY ReferencesAssumption DEF Devices
<1>3. Head(ref) \in Words /\ <<Head(ref)>> \in BaseRefs
  BY <1>1, <1>2, BaseRefsAre, NumberedRefsAre
<1>4. <<Head(ref)>> = WithNumber(<<Head(ref)>>, 1) BY DEF WithNumber
<1>5. <<Head(ref)>> \in Refs BY <1>2, <1>3, <1>4 DEF Refs
<1> QED BY <1>5 DEF Normalize

(***************************************************************************)
(* assignRefs.                                                             *)
(***************************************************************************)
LEMMA DevicesAreFinite == IsFiniteSet(Devices) /\ Cardinality(Devices) = N
<1>1. 1 \in Int /\ N \in Int /\ N >= 1 BY ReferencesAssumption
<1>2. IsFiniteSet(1 .. N) /\ Cardinality(1 .. N) = IF 1 > N THEN 0 ELSE N - 1 + 1
  BY ONLY <1>1, FS_Interval
<1> QED BY <1>1, <1>2 DEF Devices

LEMMA NumbersAre ==
  ASSUME NEW inv, NEW d \in Present(inv)
  PROVE  /\ IsFiniteSet(Alike(inv, d)) /\ d \in Alike(inv, d)
         /\ Cardinality(Alike(inv, d)) \in Devices
<1>1. Alike(inv, d) \subseteq Devices /\ d \in Alike(inv, d)
  BY ReferencesAssumption DEF Alike, Present, Devices
<1>2. IsFiniteSet(Alike(inv, d)) /\ Cardinality(Alike(inv, d)) <= N
  BY <1>1, DevicesAreFinite, FS_Subset
<1>3. Cardinality(Alike(inv, d)) \in Nat BY <1>2, FS_CardinalityType
<1>4. Cardinality(Alike(inv, d)) # 0 BY <1>1, <1>2, FS_EmptySet
<1> QED BY <1>1, <1>2, <1>3, <1>4, ReferencesAssumption DEF Devices

LEMMA AssignedAre ==
  ASSUME NEW inv \in Inventories
  PROVE  /\ AssignRefs(inv) \in [Present(inv) -> Refs]
         /\ \A d \in Present(inv) :
              AssignRefs(inv)[d] = WithNumber(inv[d], Cardinality(Alike(inv, d)))
<1>1. \A d \in Present(inv) : inv[d] \in BaseRefs BY DEF Inventories, Present
<1>2. \A d \in Present(inv) : WithNumber(inv[d], Cardinality(Alike(inv, d))) \in Refs
  BY <1>1, NumbersAre DEF Refs
<1>3. AssignRefs(inv) = [d \in Present(inv) |-> WithNumber(inv[d], Cardinality(Alike(inv, d)))]
  BY DEF AssignRefs, Alike
<1> QED BY <1>2, <1>3

(* Of two devices of one name the later has the greater number.            *)
LEMMA LaterIsGreater ==
  ASSUME NEW inv, NEW d \in Present(inv), NEW e \in Present(inv), inv[d] = inv[e], d < e
  PROVE  Cardinality(Alike(inv, d)) # Cardinality(Alike(inv, e))
<1>1. d \in Nat /\ e \in Nat BY ReferencesAssumption DEF Present, Devices
<1>2. Alike(inv, d) \subseteq Alike(inv, e)
  BY <1>1, ReferencesAssumption DEF Alike, Present, Devices
<1>3. e \in Alike(inv, e) /\ e \notin Alike(inv, d) BY <1>1 DEF Alike
<1>4. IsFiniteSet(Alike(inv, e)) BY NumbersAre
<1> QED BY <1>2, <1>3, <1>4, FS_Subset

LEMMA OneNameNeverCollides ==
  ASSUME NEW inv \in Inventories, NEW d \in Present(inv), NEW e \in Present(inv), d # e,
         AssignRefs(inv)[d] = AssignRefs(inv)[e]
  PROVE  inv[d] # inv[e] /\ AssignRefs(inv)[d] \in {inv[d], inv[e]}
<1>1. /\ AssignRefs(inv)[d] = WithNumber(inv[d], Cardinality(Alike(inv, d)))
      /\ AssignRefs(inv)[e] = WithNumber(inv[e], Cardinality(Alike(inv, e)))
  BY AssignedAre
<1>2. Cardinality(Alike(inv, d)) \in Nat /\ Cardinality(Alike(inv, e)) \in Nat
  BY NumbersAre, ReferencesAssumption DEF Devices
<1>3. inv[d] \in Seq(Words \cup Nat) /\ inv[e] \in Seq(Words \cup Nat)
  BY BaseRefsAre DEF Inventories, Present
<1>4. inv[d] # inv[e]
  <2> SUFFICES ASSUME inv[d] = inv[e] PROVE FALSE
    OBVIOUS
  <2>1. Cardinality(Alike(inv, d)) = Cardinality(Alike(inv, e))
    BY <1>1, <1>2, <1>3, NumbersDiffer
  <2>2. d < e \/ e < d BY ReferencesAssumption DEF Present, Devices
  <2> QED BY <2>1, <2>2, LaterIsGreater
<1>5. Cardinality(Alike(inv, d)) = 1 \/ Cardinality(Alike(inv, e)) = 1
  BY <1>1, <1>2, <1>3, <1>4, NamesDiffer
<1>6. AssignRefs(inv)[d] \in {inv[d], inv[e]}
  BY <1>1, <1>5 DEF WithNumber
<1> QED BY <1>4, <1>6

(***************************************************************************)
(* The inductive invariant: what Redis holds and what a listing holds was  *)
(* assigned once.                                                          *)
(***************************************************************************)
CacheWasAssigned == \A ref \in Refs : cache[ref] # NoDevice => <<ref, cache[ref]>> \in assigned

Fields == [pc : {"idle", "list", "load", "store", "act"}, ref : Refs \cup {<< >>},
           refs : Listings, device : Devices \cup {NoDevice}]
CallsAre ==
  /\ request \in [Requests -> Fields]
  /\ \A r \in Requests :
       /\ At(r, "act") => request[r].device \in Devices
       /\ request[r].pc \in {"load", "store"} => request[r].ref \in Refs
       /\ Named(request[r].refs) \subseteq assigned

InventoryIsAssigned == Named(AssignRefs(inventory)) \subseteq assigned

Inv ==
  /\ TypeOK /\ CallsAre /\ CacheWasAssigned /\ InventoryIsAssigned
  /\ ActsWhereTheRefPointed

LEMMA AssignedIsListing ==
  ASSUME NEW inv \in Inventories
  PROVE  /\ AssignRefs(inv) \in Listings
         /\ Named(AssignRefs(inv)) \subseteq Refs \X Devices
<1>1. AssignRefs(inv) \in [Present(inv) -> Refs] /\ Present(inv) \subseteq Devices
  BY AssignedAre DEF Present
<1> QED BY <1>1 DEF Listings, Named

LEMMA EmptyListing == << >> \in Listings /\ Named(<< >>) = {}
<1>1. DOMAIN << >> = {} OBVIOUS
<1>2. << >> \in [{} -> Refs] OBVIOUS
<1> QED BY <1>1, <1>2 DEF Listings, Named

LEMMA InitInv == Init => Inv
<1> SUFFICES ASSUME Init PROVE Inv
  OBVIOUS
<1>1. inventory \in Inventories BY DEF Init, Inventories
<1>2. Named(AssignRefs(inventory)) \subseteq Refs \X Devices BY <1>1, AssignedIsListing
<1>3. << >> \in Listings /\ Named(<< >>) = {} BY EmptyListing
<1>4. TypeOK
  BY <1>1, <1>2, <1>3, ReferencesAssumption DEF Init, TypeOK, Idle, Call, At, Inventories
<1>5. CallsAre BY <1>3 DEF Init, CallsAre, Fields, Idle, Call, At
<1>6. CacheWasAssigned /\ InventoryIsAssigned /\ ActsWhereTheRefPointed
  BY DEF Init, CacheWasAssigned, InventoryIsAssigned, ActsWhereTheRefPointed, Idle, Call, At
<1> QED BY <1>4, <1>5, <1>6 DEF Inv

(* A listing that was assigned once may be stored at any time.             *)
LEMMA StoringKeepsCache ==
  ASSUME Inv, NEW refs \in Listings, Named(refs) \subseteq assigned, StoreMappings(refs),
         assigned' = assigned
  PROVE  cache' \in [Refs -> Devices \cup {NoDevice}] /\ CacheWasAssigned'
<1>1. PICK last \in SUBSET DOMAIN refs :
        cache' = [ref \in Refs |->
                    IF \E d \in last : refs[d] = ref
                    THEN CHOOSE d \in last : refs[d] = ref ELSE cache[ref]]
  BY DEF StoreMappings
<1>2. DOMAIN refs \subseteq Devices BY DEF Listings
<1>3. ASSUME NEW ref \in Refs
      PROVE  /\ cache'[ref] \in Devices \cup {NoDevice}
             /\ cache'[ref] # NoDevice => <<ref, cache'[ref]>> \in assigned
  <2>1. CASE \E d \in last : refs[d] = ref
    <3>1. cache'[ref] \in last /\ refs[cache'[ref]] = ref BY <1>1, <2>1
    <3>2. <<ref, cache'[ref]>> \in Named(refs) BY <3>1 DEF Named
    <3> QED BY <1>2, <3>1, <3>2
  <2>2. CASE ~ \E d \in last : refs[d] = ref
    BY <1>1, <2>2 DEF Inv, TypeOK, CacheWasAssigned
  <2> QED BY <2>1, <2>2
<1> QED BY <1>1, <1>3 DEF CacheWasAssigned

(* What a call may become.                                                 *)
Sound(call) ==
  /\ call \in Fields
  /\ call.pc = "act" => /\ call.device \in Devices
                        /\ <<Normalize(call.ref), call.device>> \in assigned
  /\ call.pc \in {"load", "store"} => call.ref \in Refs
  /\ Named(call.refs) \subseteq assigned

LEMMA BecomingKeepsCalls ==
  ASSUME Inv, NEW r \in Requests, NEW call, Sound(call), Becomes(r, call),
         assigned \subseteq assigned'
  PROVE  CallsAre' /\ ActsWhereTheRefPointed'
<1>1. request' \in [Requests -> Fields]
  BY DEF Becomes, Inv, CallsAre, Sound
<1>2. \A q \in Requests : request'[q] = IF q = r THEN call ELSE request[q]
  BY DEF Becomes, Inv, CallsAre
<1> QED BY <1>1, <1>2 DEF Inv, CallsAre, ActsWhereTheRefPointed, Sound, At

LEMMA IdleIsSound == Sound(Idle)
BY EmptyListing DEF Sound, Fields, Idle, Call

(* What a step of a call leaves to show.                                   *)
LEMMA StepSuffices ==
  ASSUME Inv, CallsAre', ActsWhereTheRefPointed', CacheWasAssigned',
         cache' \in [Refs -> Devices \cup {NoDevice}],
         UNCHANGED <<inventory, assigned, changes>>
  PROVE  Inv'
<1>1. TypeOK' BY DEF Inv, TypeOK, CallsAre, Fields, At
<1> QED BY <1>1 DEF Inv, InventoryIsAssigned

LEMMA ReadingKeepsInv ==
  ASSUME Inv, NEW r \in Requests, NEW call, Sound(call), Becomes(r, call),
         UNCHANGED <<inventory, cache, assigned, changes>>
  PROVE  Inv'
<1>1. CallsAre' /\ ActsWhereTheRefPointed' BY BecomingKeepsCalls
<1>2. CacheWasAssigned' /\ cache' \in [Refs -> Devices \cup {NoDevice}]
  BY DEF Inv, TypeOK, CacheWasAssigned
<1> QED BY <1>1, <1>2, StepSuffices

LEMMA WritingKeepsInv ==
  ASSUME Inv, NEW r \in Requests, NEW call, Sound(call), Becomes(r, call),
         StoreMappings(request[r].refs), UNCHANGED <<inventory, assigned, changes>>
  PROVE  Inv'
<1>1. request[r].refs \in Listings /\ Named(request[r].refs) \subseteq assigned
  BY DEF Inv, CallsAre, Fields
<1>2. CallsAre' /\ ActsWhereTheRefPointed' BY BecomingKeepsCalls
<1>3. cache' \in [Refs -> Devices \cup {NoDevice}] /\ CacheWasAssigned'
  BY <1>1, StoringKeepsCache
<1> QED BY <1>2, <1>3, StepSuffices

(* A listing fetched now has been assigned.                                *)
LEMMA FetchedIsAssigned ==
  ASSUME Inv
  PROVE  AssignRefs(inventory) \in Listings /\ Named(AssignRefs(inventory)) \subseteq assigned
BY AssignedIsListing DEF Inv, TypeOK, Inventories, InventoryIsAssigned

LEMMA ListKeepsInv ==
  ASSUME Inv, NEW r \in Requests, ListFetch(r) \/ ListStore(r) \/ Load(r) \/ Control(r)
  PROVE  Inv'
<1>1. CASE ListFetch(r)
  <2>1. Sound(Call("list", << >>, AssignRefs(inventory), NoDevice))
    BY FetchedIsAssigned DEF Sound, Fields, Call
  <2> QED BY <1>1, <2>1, ReadingKeepsInv DEF ListFetch
<1>2. CASE ListStore(r) BY <1>2, IdleIsSound, WritingKeepsInv DEF ListStore
<1>3. CASE Load(r)
  <2>1. request[r].ref \in Refs BY <1>3 DEF Load, At, Inv, CallsAre
  <2>2. Sound(Call("store", request[r].ref, AssignRefs(inventory), NoDevice))
    BY <2>1, FetchedIsAssigned DEF Sound, Fields, Call
  <2> QED BY <1>3, <2>2, ReadingKeepsInv DEF Load
<1>4. CASE Control(r) BY <1>4, IdleIsSound, ReadingKeepsInv DEF Control
<1> QED BY <1>1, <1>2, <1>3, <1>4

LEMMA ResolveKeepsInv == ASSUME Inv, NEW r \in Requests, Resolve(r) PROVE Inv'
<1>1. PICK ref \in Refs :
        \/ /\ cache[Normalize(ref)] # NoDevice
           /\ Becomes(r, Call("act", ref, << >>, cache[Normalize(ref)]))
        \/ Becomes(r, Call("load", ref, << >>, NoDevice))
  BY DEF Resolve
<1>2. UNCHANGED <<inventory, cache, assigned, changes>> BY DEF Resolve
<1>3. CASE /\ cache[Normalize(ref)] # NoDevice
           /\ Becomes(r, Call("act", ref, << >>, cache[Normalize(ref)]))
  <2>1. Normalize(ref) \in Refs BY NormalizedIsRef
  <2>2. cache[Normalize(ref)] \in Devices BY <1>3, <2>1 DEF Inv, TypeOK
  <2>3. <<Normalize(ref), cache[Normalize(ref)]>> \in assigned
    BY <1>3, <2>1 DEF Inv, CacheWasAssigned
  <2>4. Sound(Call("act", ref, << >>, cache[Normalize(ref)]))
    BY <2>2, <2>3, EmptyListing DEF Sound, Fields, Call
  <2> QED BY <1>2, <1>3, <2>4, ReadingKeepsInv
<1>4. CASE Becomes(r, Call("load", ref, << >>, NoDevice))
  <2>1. Sound(Call("load", ref, << >>, NoDevice)) BY EmptyListing DEF Sound, Fields, Call
  <2> QED BY <1>2, <1>4, <2>1, ReadingKeepsInv
<1> QED BY <1>1, <1>3, <1>4

LEMMA MatchKeepsInv == ASSUME Inv, NEW r \in Requests, Match(r) PROVE Inv'
<1>1. /\ request[r].refs \in Listings /\ Named(request[r].refs) \subseteq assigned
      /\ request[r].ref \in Refs
  BY DEF Match, At, Inv, CallsAre, Fields
<1>2. StoreMappings(request[r].refs) /\ UNCHANGED <<inventory, assigned, changes>>
  BY DEF Match
<1>3. CASE Becomes(r, Idle) BY <1>2, <1>3, IdleIsSound, WritingKeepsInv
<1>4. ASSUME NEW d \in DOMAIN request[r].refs, request[r].refs[d] = Normalize(request[r].ref),
             Becomes(r, Call("act", request[r].ref, << >>, d))
      PROVE  Inv'
  <2>1. d \in Devices BY <1>1 DEF Listings
  <2>2. <<Normalize(request[r].ref), d>> \in assigned BY <1>1, <1>4 DEF Named
  <2>3. Sound(Call("act", request[r].ref, << >>, d))
    BY <1>1, <2>1, <2>2, EmptyListing DEF Sound, Fields, Call
  <2> QED BY <1>2, <1>4, <2>3, WritingKeepsInv
<1> QED BY <1>3, <1>4 DEF Match

(* A new inventory adds what is assigned in it.                            *)
LEMMA NewInventoryKeepsInv ==
  ASSUME Inv, inventory' \in Inventories, CallsAre', ActsWhereTheRefPointed',
         assigned' = assigned \cup Named(AssignRefs(inventory')),
         cache' = cache, changes' \in 0 .. MaxChanges
  PROVE  Inv'
<1>1. Named(AssignRefs(inventory')) \subseteq Refs \X Devices BY AssignedIsListing
<1>2. TypeOK' BY <1>1 DEF Inv, TypeOK, CallsAre, Fields, At, Inventories
<1> QED BY <1>2 DEF Inv, CacheWasAssigned, InventoryIsAssigned

LEMMA DeleteKeepsInv == ASSUME Inv, NEW r \in Requests, Delete(r) PROVE Inv'
<1>1. inventory' \in Inventories BY DEF Delete, Inv, TypeOK, Inventories
<1>2. CallsAre' /\ ActsWhereTheRefPointed'
  BY IdleIsSound, BecomingKeepsCalls DEF Delete
<1> QED BY <1>1, <1>2, NewInventoryKeepsInv DEF Delete, Inv, TypeOK

LEMMA ChangeKeepsInv == ASSUME Inv, Change PROVE Inv'
<1>1. inventory' \in Inventories BY DEF Change, Inv, TypeOK, Inventories
<1>2. changes' \in 0 .. MaxChanges BY ReferencesAssumption DEF Change, Inv, TypeOK
<1>3. CallsAre' /\ ActsWhereTheRefPointed'
  BY DEF Change, Inv, CallsAre, ActsWhereTheRefPointed, At
<1> QED BY <1>1, <1>2, <1>3, NewInventoryKeepsInv DEF Change

LEMMA ExpireKeepsInv == ASSUME Inv, NEW ref \in Refs, Expire(ref) PROVE Inv'
<1>1. cache' \in [Refs -> Devices \cup {NoDevice}] BY DEF Expire, Inv, TypeOK
<1>2. CacheWasAssigned' BY DEF Expire, Inv, TypeOK, CacheWasAssigned
<1>3. CallsAre' /\ ActsWhereTheRefPointed'
  BY DEF Expire, Inv, CallsAre, ActsWhereTheRefPointed, At
<1> QED BY <1>1, <1>2, <1>3, StepSuffices DEF Expire

LEMMA NextKeepsInv == Inv /\ [Next]_vars => Inv'
<1> SUFFICES ASSUME Inv, [Next]_vars PROVE Inv'
  OBVIOUS
<1>1. ASSUME NEW r \in Requests, Step(r) PROVE Inv'
  BY <1>1, ListKeepsInv, ResolveKeepsInv, MatchKeepsInv, DeleteKeepsInv DEF Step
<1>2. CASE UNCHANGED vars
  BY <1>2 DEF vars, Inv, TypeOK, CallsAre, CacheWasAssigned, InventoryIsAssigned,
     ActsWhereTheRefPointed, At
<1> QED BY <1>1, <1>2, ChangeKeepsInv, ExpireKeepsInv DEF Next

LEMMA InvHolds == Spec => []Inv
BY InitInv, NextKeepsInv, PTL DEF Spec

(* Type correctness: a call that acts has resolved a device, and every     *)
(* reference ever assigned is one that Redis can hold.                     *)
THEOREM TypeCorrect == Spec => []TypeOK
<1>1. Inv => TypeOK BY DEF Inv
<1> QED BY <1>1, InvHolds, PTL

(* Of however many devices, two of one name never get one reference, and   *)
(* two of different names only when one is called what the other becomes.  *)
THEOREM NamesakesAreToldApart == Spec => []OnlyNumberedNamesCollide
<1>1. Inv => OnlyNumberedNamesCollide
  BY OneNameNeverCollides DEF Inv, TypeOK, Inventories, OnlyNumberedNamesCollide
<1> QED BY <1>1, InvHolds, PTL

(* However many calls race with changes of the inventory, late listings    *)
(* and keys that run out: a tool acts on a device only under a reference   *)
(* that was that device's once.                                            *)
THEOREM NoStrangerIsTouched == Spec => []ActsWhereTheRefPointed
<1>1. Inv => ActsWhereTheRefPointed BY DEF Inv
<1> QED BY <1>1, InvHolds, PTL
==================================================================================
